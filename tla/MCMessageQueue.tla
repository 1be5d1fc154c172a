--------------------------- MODULE MCMessageQueue ---------------------------
(* MessageQueue for TLC: the message sizes of each run. *)
EXTENDS MessageQueue

PayloadSizes == {1}         \* what a decode callback pushes
AnySizes == {0, 1}          \* what the interface accepts
ReadDistances == {0, 3}     \* less and more than MaxExpire per push

=============================================================================
