---------------------------- MODULE MCBleMidiLink ---------------------------
(* Small instances of BleMidiLink.tla. *)
EXTENDS BleMidiLink

\* A note (twice in a row: running status), a program change, a song position, a song number, a
\* clock tick, a tune request.
MCInput == {<<144, 60, 64>>, <<193, 5>>, <<242, 0, 16>>, <<243, 7>>,
            <<248>>, <<246>>}

\* The theorems about the link speak of an application like this one.
ASSUME MCPlain == PlainMessages
=============================================================================
