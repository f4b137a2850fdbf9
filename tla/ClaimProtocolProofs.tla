------------------------ MODULE ClaimProtocolProofs -------------------------
(***************************************************************************)
(* The claim protocol is enough: whoever keeps it never lets two sandboxes   *)
(* mount one volume.                                                         *)
(***************************************************************************)
EXTENDS ClaimProtocol, TLAPS

ProtocolInv ==
  /\ open \in BOOLEAN
  /\ owner \in [Volume -> Sandbox \cup {Nobody}]
  /\ inUse \in [Sandbox -> SUBSET Volume]
  /\ Exclusive
  /\ open => Covers(owner)

LEMMA ProtocolStep == ProtocolInv /\ [Next]_cpVars => ProtocolInv'
<1> SUFFICES ASSUME ProtocolInv, [Next]_cpVars PROVE ProtocolInv'
  OBVIOUS
<1> USE DEF ProtocolInv, Exclusive, Covers, Unowned
<1>1. CASE Open BY <1>1 DEF Open
<1>2. CASE Close BY <1>2 DEF Close
<1>3. ASSUME NEW s \in Sandbox, Unmount(s) PROVE ProtocolInv'
  BY <1>3 DEF Unmount
<1>4. ASSUME NEW s \in Sandbox, NEW vs \in SUBSET Volume, Reserve(s, vs)
      PROVE ProtocolInv'
  BY <1>4, NobodyAssumption DEF Reserve
<1>5. ASSUME NEW s \in Sandbox, NEW vs \in SUBSET Volume, GiveBack(s, vs)
      PROVE ProtocolInv'
  BY <1>5 DEF GiveBack
<1>6. ASSUME NEW s \in Sandbox, NEW vs \in SUBSET Volume, Mount(s, vs)
      PROVE ProtocolInv'
  BY <1>6 DEF Mount
<1>7. CASE UNCHANGED cpVars BY <1>7 DEF cpVars
<1> QED BY <1>1, <1>2, <1>3, <1>4, <1>5, <1>6, <1>7 DEF Next

\* The one-running-sandbox-per-volume rule of CONTEXT.md follows from the
\* protocol alone.
THEOREM ProtocolExcludes == Spec => []Exclusive
<1>1. Init => ProtocolInv
  BY NobodyAssumption DEF Init, ProtocolInv, Unowned
<1>2. ProtocolInv => Exclusive
  BY DEF ProtocolInv
<1> QED BY <1>1, <1>2, ProtocolStep, PTL DEF Spec
=============================================================================
