\* Two overlapping runs of the script, a deploy at a time, one rotation.
CONSTANTS
    Cron = {c1, c2}
    Deploy = {d1}
    MaxRotations = 1
    Inodes = 2

SPECIFICATION FairSpec

INVARIANTS
    TypeOK
PROPERTIES
    ReplacedWhole
    Recovers
