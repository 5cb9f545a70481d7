-------------------------- MODULE MCProviderCalls --------------------------
(* Model checking ProviderCalls: checks of a provider, and a snapshot that *)
(* probes two of its models at a time, one of them with a chat.            *)
EXTENDS ProviderCalls, TLC

CONSTANTS checks, chat, embedding

TheCallers == {checks, chat, embedding}
TheTasks == (checks :> "checks") @@ (chat :> "snapshot") @@ (embedding :> "snapshot")
TheKinds == (checks :> {"check"}) @@ (chat :> {"chat"}) @@ (embedding :> {"ask"})
=============================================================================
