\* Transcripts of up to three windows, and three blocks from the AI.
CONSTANTS
    Transcripts <- SmallTranscripts
    ChunkSeconds = 10
    Topic = {"mean", "Summary", "a. option"}
    TitleTopic = {"Summary"}
    OptionTopic = {"a. option"}
    MaxBlocks = 3

SPECIFICATION Spec

INVARIANTS
    TypeOK
    TopicsNumbered
    EquationsKept
    MarkersPlaced
    TranscriptKept

\* The task ends.
CHECK_DEADLOCK FALSE
