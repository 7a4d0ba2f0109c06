---------------------------- MODULE MCAesdSocket ----------------------------
(* Model constants for AesdSocket.                                         *)
EXTENDS AesdSocket

(* The connections are interchangeable.                                    *)
ConnSymmetry == Permutations(Conn)

=============================================================================
