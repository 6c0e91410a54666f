--------------------------- MODULE MCScannerInput --------------------------
(***************************************************************************)
(* Inputs for model-checking ScannerInput.                                 *)
(***************************************************************************)
EXTENDS ScannerInput

\* No input, one shorter than the buffer, one that just fills it, and longer
\* ones with the two-byte characters at different distances from its end.
MCStreams == {<<>>, <<1, 3, 4>>, <<1, 2, 4, 5>>,
              <<1, 3, 4, 6, 7, 9, 10>>, <<2, 3, 5, 7, 9, 10, 11>>, <<1, 2, 3, 4, 6, 8, 10>>}

\* One input, longer than the buffer.
LongStream == {<<1, 2, 4, 5, 6, 8, 9, 10>>}
============================================================================
