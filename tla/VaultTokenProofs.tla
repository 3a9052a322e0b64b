-------------------------- MODULE VaultTokenProofs ---------------------------
(***************************************************************************)
(* For every TTL, timeout, delay and number of attempts that leave the     *)
(* renewal a quarter of a lease of two timeouts: the token of the sidecar  *)
(* is honoured until a renewal fails or its max TTL is near.               *)
(***************************************************************************)
EXTENDS VaultToken, TLAPS

LEMMA RenewInType == ASSUME NEW lease \in Nat PROVE RenewIn(lease) \in Nat
BY SMT DEF RenewIn

LEMMA InitFlags == Init => FlagsOK
BY Zenon DEF Init, FlagsOK

LEMMA InitTiming == Init => Timing
BY VaultAssumption, SMT DEF Init, Timing, TimesOK, WithinMaxTTL, LeaseKnown,
   ReplyFresh, MarginKept, RefusedForGood, Serving

\* Boolean values only, without arithmetic.
LEMMA NextFlags == FlagsOK /\ [Next]_vars => FlagsOK'
<1> SUFFICES ASSUME FlagsOK, [Next]_vars PROVE FlagsOK'
  OBVIOUS
<1> USE DEF FlagsOK
<1>1. CASE LoginArrives
  BY <1>1, Zenon DEF LoginArrives
<1>2. CASE LoginReply
  BY <1>2, Zenon DEF LoginReply, Schedule, vaultVars
<1>3. CASE LoginFails
  BY <1>3, Zenon DEF LoginFails, vaultVars
<1>4. CASE LoginAgain
  BY <1>4, Zenon DEF LoginAgain, vaultVars
<1>5. CASE RenewStarts
  BY <1>5, Zenon DEF RenewStarts, vaultVars
<1>6. CASE RenewArrives
  BY <1>6, Zenon DEF RenewArrives
<1>7. CASE RenewReply
  BY <1>7, Zenon DEF RenewReply, Schedule, vaultVars
<1>8. CASE RenewFails
  BY <1>8, Zenon DEF RenewFails, Schedule, vaultVars
<1>9. CASE DekCall
  BY <1>9, Zenon DEF DekCall, vaultVars
<1>10. CASE Restart
  BY <1>10, Zenon DEF Restart, vaultVars
<1>11. CASE Tick
  BY <1>11, Zenon DEF Tick, Down, Calling
<1>12. CASE UNCHANGED vars
  BY <1>12, Zenon DEF vars, vaultVars
<1> QED
  BY <1>1, <1>2, <1>3, <1>4, <1>5, <1>6, <1>7, <1>8, <1>9, <1>10, <1>11, <1>12 DEF Next

\* The margin is made by LoginReply and RenewReply and used up by Tick.
LEMMA NextTiming == VaultInv /\ [Next]_vars => Timing'
<1> SUFFICES ASSUME VaultInv, [Next]_vars PROVE Timing'
  OBVIOUS
<1> USE VaultAssumption, RenewInType
<1> USE DEF VaultInv, FlagsOK, Timing, TimesOK, WithinMaxTTL, LeaseKnown, ReplyFresh,
          MarginKept, RefusedForGood, Serving
<1>1. CASE LoginArrives
  BY <1>1, SMT DEF LoginArrives
<1>2. CASE LoginReply
  BY <1>2, SMT DEF LoginReply, Schedule, vaultVars
<1>3. CASE LoginFails
  BY <1>3, SMT DEF LoginFails, vaultVars
<1>4. CASE LoginAgain
  BY <1>4, SMT DEF LoginAgain, vaultVars
<1>5. CASE RenewStarts
  BY <1>5, SMT DEF RenewStarts, vaultVars
<1>6. CASE RenewArrives
  BY <1>6, SMT DEF RenewArrives
<1>7. CASE RenewReply
  BY <1>7, SMT DEF RenewReply, Schedule, vaultVars
<1>8. CASE RenewFails
  BY <1>8, SMT DEF RenewFails, Schedule, vaultVars
<1>9. CASE DekCall
  BY <1>9, SMT DEF DekCall, vaultVars
<1>10. CASE Restart
  BY <1>10, SMT DEF Restart, vaultVars
<1>11. CASE Tick
  BY <1>11, SMT DEF Tick, Down, Calling
<1>12. CASE UNCHANGED vars
  BY <1>12, SMT DEF vars, vaultVars
<1> QED
  BY <1>1, <1>2, <1>3, <1>4, <1>5, <1>6, <1>7, <1>8, <1>9, <1>10, <1>11, <1>12 DEF Next

(* A Transit call of the sidecar is refused for its token only after a     *)
(* renewal failed or the max TTL was near, for every TTL and timeout: the  *)
(* loop of StartTokenRenewalLoop renews in time.                           *)
THEOREM RenewalComesInTime == Spec => []RefusedOnlyAfterLostRenewal
<1>1. VaultInv => RefusedOnlyAfterLostRenewal
  BY DEF VaultInv, Timing, RefusedForGood, RefusedOnlyAfterLostRenewal
<1> QED
  BY InitFlags, InitTiming, NextFlags, NextTiming, <1>1, PTL DEF Spec, VaultInv
===============================================================================
