------------------------------ MODULE MCWebhooks ------------------------------
(***************************************************************************)
(* An instance of Webhooks for TLC: `siem' never fails, `chat' may fail,   *)
(* each receives one type of event, and they share one connection; `off'   *)
(* receives all events and has max_retries = 0.                            *)
(***************************************************************************)
EXTENDS Webhooks, TLC

CONSTANTS siem, chat, off, ok, blocked

Subscriptions == (siem :> {ok}) @@ (chat :> {blocked}) @@ (off :> {})

Retries == (siem :> 2) @@ (chat :> 2) @@ (off :> 0)
===============================================================================
