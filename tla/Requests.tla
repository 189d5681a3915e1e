------------------------------- MODULE Requests --------------------------------
(***************************************************************************)
(* What the HTTP services have in common.  Each of a few clients has at    *)
(* most one request in flight in a service; a request is a sequence of     *)
(* steps, one for each await that reads or changes what others see, and    *)
(* the steps of different clients interleave.  Documents live in Redis,    *)
(* behind CacheService, and are always read and saved whole.               *)
(***************************************************************************)
EXTENDS Integers, FiniteSets, Sequences

CONSTANTS
    Clients,    \* the users and services that call
    Staff       \* those with the roles that restricted routes ask for

ASSUME RequestsAssumption == Staff \subseteq Clients

Resting == [pc |-> "resting"]
Unused == [status |-> "unused"]       \* an id not drawn yet
Expired == [status |-> "expired"]     \* dropped by Redis when its ttl was over
OnRecord(document) == document \notin {Unused, Expired}
=============================================================================
