-------------------------- MODULE MCExternalFetch ---------------------------
(* An instance of ExternalFetch for TLC. *)
EXTENDS ExternalFetch, TLC

CONSTANTS
    u1, u2,             \* keys of users, whose API takes strings
    i1, iX,             \* keys of items, whose API takes numbers; iX is none
    f1,                 \* key of files, which has no API
    l1,                 \* key of legacy: its API is disabled but described, and asked
    users, items, files, legacy

FourCaches == u1 :> users @@ u2 :> users @@ i1 :> items @@ iX :> items
                 @@ f1 :> files @@ l1 :> legacy
KeyTypes   == users :> "string" @@ items :> "number" @@ files :> "none"
                 @@ legacy :> "string"
=============================================================================
