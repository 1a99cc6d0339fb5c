-------------------------- MODULE MCNotesDocument --------------------------
(* NotesDocument on small transcripts. *)
EXTENDS NotesDocument

\* No line; lines within a window and on its boundary; lines out of order.
SmallTranscripts == { <<>>, <<9, 10>>, <<3, 4, 5, 12>>, <<1, 11, 2>> }

=============================================================================
