---------------------------- MODULE MCEventLoop ----------------------------
(* EventLoop for TLC: how the channels of each run are built. *)
EXTENDS EventLoop, TLC

\* BuildListenSocket and BuildConnectedSocket; BuildAsyncConnectSocket.
SocketCallbacks == {{"read", "error"}, {"write", "error"}}
NoQuitters == {}
NoBuilds == {}

\* The channels besides the timer's are alike.
Alike == Permutations(Channels \ {Timer})

=============================================================================
