---------------------------- MODULE MCAudioFront ----------------------------
(* AudioFront in ticks of about half a second: frames of one tick and of    *)
(* three, which no buffer of two can hold, and a default buffer that holds  *)
(* a window and one tick more.  A patch may be refused at its first or at   *)
(* its last setting.                                                        *)
EXTENDS AudioFront

Sends(key, value) == [key |-> key, value |-> value]

MCFrame == {1, 3}
MCPatch == {<<Sends("audio.buffer_ms", 2)>>,
            <<Sends("audio.buffer_ms", 0)>>,
            <<Sends("wake.threshold", 0), Sends("audio.buffer_ms", 2)>>,
            <<Sends("audio.buffer_ms", 4), Sends("connector.excel.allowed_root", 0)>>}
=============================================================================
