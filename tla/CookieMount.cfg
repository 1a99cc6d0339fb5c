\* The refresh as the container sees it.
CONSTANTS
    Cron = {c1}
    Deploy = {d1}
    MaxRotations = 1
    Inodes = 3

SPECIFICATION MountSpec

PROPERTIES
    SwapSeen
