------------------------------ MODULE DataSync ------------------------------
(***************************************************************************)
(* The three sync workers the daemon starts (src/index.ts). They write     *)
(* different tables and share nothing but the time of day, so a behaviour  *)
(* shows one of them: focus names it and never changes.                    *)
(***************************************************************************)
EXTENDS RingbaSync, LeadsProsperSync, GoogleAdsSync

VARIABLE focus

syncVars == <<focus, clock, ringbaOwn, leadOwn, adsVars>>

SyncInit ==
    /\ focus \in {"ringba", "leadsprosper", "google-ads"}
    /\ RingbaInit /\ LeadsInit /\ AdsInit

SyncNext ==
    /\ \/ focus = "ringba" /\ RingbaNext /\ UNCHANGED <<leadOwn, adsVars>>
       \/ focus = "leadsprosper" /\ LeadsNext /\ UNCHANGED <<ringbaOwn, adsVars>>
       \/ focus = "google-ads" /\ AdsNext /\ UNCHANGED <<clock, ringbaOwn, leadOwn>>
    /\ UNCHANGED focus

SyncSpec == SyncInit /\ [][SyncNext]_syncVars

\* Every variable of the three mirrors has its type.
SyncTypeOK == RingbaTypeOK /\ LeadsTypeOK /\ AdsTypeOK
=============================================================================
