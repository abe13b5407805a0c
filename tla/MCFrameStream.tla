--------------------------- MODULE MCFrameStream ---------------------------
(***************************************************************************)
(* Two calls on one client: a with the cancel hook of client_stream.rs,    *)
(* b with runtime/rust/transport.rs.                                       *)
(***************************************************************************)
EXTENDS FrameStream

CONSTANTS a, b

MCCalls == {a, b}
MCV2Calls == {b}
MCHookCalls == {a}

=============================================================================
