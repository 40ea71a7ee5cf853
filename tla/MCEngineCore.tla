----------------------------- MODULE MCEngineCore -----------------------------
(* EngineCore with two channels.                                           *)
EXTENDS EngineCore
CONSTANTS a, b

TwoChannels == {a, b}
=============================================================================
