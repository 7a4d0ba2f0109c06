--------------------------- MODULE MCSystemCalls ---------------------------
(* Model constants for SystemCalls.                                        *)
EXTENDS SystemCalls

CONSTANTS a, b, o

(* A string shorter than the old content, and one that is longer.          *)
MCStrings == {<<a>>, <<b, b, b>>}

MCOldContent == {Absent, <<o, o>>}

=============================================================================
