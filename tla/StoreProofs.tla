----------------------------- MODULE StoreProofs ------------------------------
(***************************************************************************)
(* FTL implements SectorStore, for every geometry of the chip, every       *)
(* number of sectors and every number of deaths and erasures.              *)
(*                                                                         *)
(* While page numbers fit a uint16_t, DurableInv says that the contents of *)
(* the page a sector was stored in, and what its entry of the page map     *)
(* leads to, are what the last successful call stored.  Under it the two   *)
(* functions the upper layer sees are determined by acked and mapped, and  *)
(* an action of FTL is looked at for what it does to those and to pc.      *)
(***************************************************************************)
EXTENDS FTLProofs

\* What the refinement mapping of SectorStoreSpec substitutes.
ShownDurable == [s \in Sectors |-> IF s \in Stored THEN flash[home[s]].data ELSE None]
ShownView    == [s \in mapped |-> ReadData(flash, Get_Useful_RPage(s))]
ShownPending == IF pc \in Storing THEN {[sector |-> sector, payload |-> payload]} ELSE {}

LEMMA Shown ==
  ASSUME TypeOK, DurableInv, ~wrapped
  PROVE  /\ ShownDurable = acked
         /\ ShownView = [s \in mapped |-> acked[s]]
         /\ mapped \subseteq Sectors
<1>1. \A s \in Sectors : (IF s \in Stored THEN flash[home[s]].data ELSE None) = acked[s]
  BY DEF DurableInv, AckedDurable, Stored
<1>2. acked = [s \in Sectors |-> acked[s]] /\ mapped \subseteq Sectors
  BY DEF TypeOK, VarTypes
<1>3. \A s \in mapped : ReadData(flash, Get_Useful_RPage(s)) = acked[s]
  BY DEF DurableInv, AckedDurable, ReadData, Get_Useful_RPage
<1>4. QED
  BY <1>1, <1>2, <1>3 DEF ShownDurable, ShownView

LEMMA ShownNow ==
  ASSUME TypeOK, DurableInv
  PROVE  ~wrapped => /\ ShownDurable = acked
                     /\ ShownView = [s \in mapped |-> acked[s]]
                     /\ mapped \subseteq Sectors
  BY Shown

\* The same after a step.
LEMMA ShownNext ==
  ASSUME TypeOK', DurableInv'
  PROVE  ~wrapped' => /\ ShownDurable' = acked'
                      /\ ShownView' = [s \in mapped' |-> acked'[s]]
<1>1. \A s \in Sectors : (IF s \in Stored' THEN flash'[home'[s]].data ELSE None) = acked'[s]
      \/ wrapped'
  BY DEF DurableInv, AckedDurable, Stored
<1>2. acked' = [s \in Sectors |-> acked'[s]]
  BY DEF TypeOK, VarTypes
<1>3. \A s \in mapped' : ReadData(flash, Get_Useful_RPage(s))' = acked'[s] \/ wrapped'
  BY DEF DurableInv, AckedDurable, ReadData, Get_Useful_RPage
<1>4. QED
  BY <1>1, <1>2, <1>3 DEF ShownDurable, ShownView

\* A step of FTL while page numbers fit, as its users see it.
Begins(s, v) ==
  /\ pc \notin Storing /\ pc' \in Storing
  /\ sector' = s /\ payload' = v
  /\ mapped' = mapped \ {s}
  /\ UNCHANGED acked

Commits ==
  /\ pc \in Storing /\ pc' \notin Storing
  /\ acked' = [acked EXCEPT ![sector] = payload]
  /\ mapped' = mapped \cup {sector}

Fails ==
  /\ pc \in Storing /\ pc' \notin Storing
  /\ UNCHANGED <<acked, mapped>>

Dies ==
  /\ pc' \notin Storing
  /\ mapped' = {}
  /\ UNCHANGED acked

Unseen ==
  /\ UNCHANGED <<acked, mapped>>
  /\ \/ pc \in Storing /\ pc' \in Storing /\ UNCHANGED <<sector, payload>>
     \/ pc \notin Storing /\ pc' \notin Storing

LEMMA StepSeen ==
  ASSUME Overread = FALSE, TypeOK, DurableInv, [Next]_vars
  PROVE  \/ Unseen \/ Commits \/ Fails \/ Dies
         \/ \E s \in Sectors, v \in Payload : Begins(s, v)
<1> USE DEF mapVars, scanVars, eraseVars, history, Storing, Unseen
<1>1. CASE UNCHANGED vars
  BY <1>1 DEF vars
<1>2. CASE PowerOn
  BY <1>2 DEF PowerOn
<1>3. CASE DPM_Malloc
  BY <1>3 DEF DPM_Malloc
<1>4. CASE Create_DPM
  BY <1>4 DEF Create_DPM
<1>5. ASSUME NEW s \in Sectors, NEW v \in Payload, Get_Useful_WPage(s, v)
      PROVE  Begins(s, v)
  BY <1>5 DEF Get_Useful_WPage, Begins
<1>6. CASE MeetBadPage
  BY <1>6 DEF MeetBadPage, Fails
<1>6m. CASE MarkBlockBad
  BY <1>6m DEF MarkBlockBad, NAND_BuildBBT
<1>7. CASE ScanFirst
  BY <1>7 DEF ScanFirst
<1>8. CASE FTL_GC
  BY <1>8 DEF FTL_GC, Fails
<1>9. CASE ScanYounger
  BY <1>9 DEF ScanYounger
<1>10. CASE Get_FreeDPage
  BY <1>10 DEF Get_FreeDPage, Returned, Fails
<1>11. CASE WritePageData
  BY <1>11 DEF WritePageData
<1>12. CASE WritePageTag
  BY <1>12 DEF WritePageTag
<1>13. CASE VerifyPage
  BY <1>13 DEF VerifyPage, Returned, Commits
<1>14. CASE RejectPage
  BY <1>14 DEF RejectPage
<1>15. CASE MarkPageBad
  BY <1>15 DEF MarkPageBad, Returned, Fails
<1>16. CASE Nand_EraseBlock
  BY <1>16 DEF Nand_EraseBlock
<1>17. CASE Retag
  BY <1>17 DEF Retag, Returned
<1>18. ASSUME NEW blk \in Blocks, pageOP_EraseBlk(blk) PROVE Unseen
  BY <1>18 DEF pageOP_EraseBlk
<1>19. CASE Killed
  BY <1>19 DEF Killed, Death, Returned, Dies
<1>20. QED
  BY <1>1, <1>2, <1>3, <1>4, <1>5, <1>6, <1>6m, <1>7, <1>8, <1>9, <1>10, <1>11, <1>12, <1>13,
     <1>14, <1>15, <1>16, <1>17, <1>18, <1>19
  DEF Next, Calls, Running

\* A page number stops to fit only while a page is looked for.
LEMMA WrapSeen ==
  ASSUME [Next]_vars
  PROVE  /\ wrapped => wrapped'
         /\ wrapped' = wrapped \/ pc \in Storing
<1> DEFINE Seen == (wrapped => wrapped') /\ (wrapped' = wrapped \/ pc \in Storing)
<1> USE DEF mapVars, scanVars, eraseVars, history
<1> SUFFICES Seen
  OBVIOUS
<1>1. CASE UNCHANGED vars
  BY <1>1 DEF vars
<1>2. CASE ScanFirst \/ ScanYounger
  BY <1>2 DEF ScanFirst, ScanYounger, Take, Storing
<1>3. CASE Calls
  <2>1. ASSUME NEW s \in Sectors, NEW v \in Payload, Get_Useful_WPage(s, v)
        PROVE  wrapped' = wrapped
    BY <2>1 DEF Get_Useful_WPage
  <2>2. PowerOn => wrapped' = wrapped
    BY DEF PowerOn
  <2>3. DPM_Malloc => wrapped' = wrapped
    BY DEF DPM_Malloc
  <2>4. ASSUME NEW blk \in Blocks, pageOP_EraseBlk(blk)
        PROVE  wrapped' = wrapped
    BY <2>4 DEF pageOP_EraseBlk
  <2>5. wrapped' = wrapped
    BY <1>3, <2>1, <2>2, <2>3, <2>4 DEF Calls
  <2>6. QED
    BY <2>5
<1>4. CASE Create_DPM \/ MeetBadPage \/ MarkBlockBad \/ FTL_GC \/ Get_FreeDPage
  BY <1>4 DEF Create_DPM, MeetBadPage, MarkBlockBad, FTL_GC, Get_FreeDPage
<1>5. ASSUME WritePageData \/ WritePageTag \/ VerifyPage \/ RejectPage \/ MarkPageBad
      PROVE  wrapped' = wrapped
  <2>1. CASE WritePageData
    BY <2>1 DEF WritePageData
  <2>2. CASE WritePageTag
    BY <2>2 DEF WritePageTag
  <2>3. CASE VerifyPage
    BY <2>3 DEF VerifyPage
  <2>4. CASE RejectPage
    BY <2>4 DEF RejectPage
  <2>5. CASE MarkPageBad
    BY <2>5 DEF MarkPageBad
  <2>6. QED
    BY <1>5, <2>1, <2>2, <2>3, <2>4, <2>5
<1>6. wrapped' = wrapped => Seen
  OBVIOUS
<1>7. CASE Nand_EraseBlock \/ Retag
  BY <1>7 DEF Nand_EraseBlock, Retag
<1>8. CASE Killed
  BY <1>8 DEF Killed, Death
<1> HIDE DEF Seen
<1>9. QED
  BY <1>1, <1>2, <1>3, <1>4, <1>5, <1>6, <1>7, <1>8 DEF Next, Running

LEMMA StoreStepRefines ==
  ASSUME DPM_Pages_Per_Blk = 1, Overread = FALSE,
         TypeOK, TypeOK', DurableInv, DurableInv', [Next]_vars
  PROVE  [SS!Next]_(SS!vars)
<1> USE DEF SS!vars
<1>1. CASE wrapped'
  <2>1. ~wrapped => ShownPending # {}
    BY <1>1, WrapSeen DEF ShownPending
  <2>2. SS!Void
    BY <1>1, <2>1 DEF SS!Void, ShownPending
  <2>3. QED
    BY <2>2 DEF SS!Next
<1>2. CASE ~wrapped'
  <2>1. ~wrapped
    BY <1>2, WrapSeen
  <2>2. ShownDurable = acked /\ ShownView = [s \in mapped |-> acked[s]] /\ mapped \subseteq Sectors
    BY <2>1, ShownNow
  <2>3. ShownDurable' = acked' /\ ShownView' = [s \in mapped' |-> acked'[s]]
    BY <1>2, ShownNext
  <2>4. UNCHANGED (~wrapped)
    BY <1>2, <2>1
  <2>5. acked \in [Sectors -> Payload \cup {None}]
    BY DEF TypeOK, VarTypes
  <2>6. pc \in Storing => sector \in Sectors /\ payload \in Payload
    BY DEF TypeOK, VarTypes
  <2>7. ASSUME NEW s \in Sectors, NEW v \in Payload, Begins(s, v) PROVE SS!Begin(s, v)
    <3>1. ShownView' = [t \in (DOMAIN ShownView) \ {s} |-> ShownView[t]]
      BY <2>2, <2>3, <2>7 DEF Begins
    <3>2. ShownPending = {} /\ ShownPending' = {[sector |-> s, payload |-> v]}
      BY <2>7 DEF Begins, ShownPending
    <3>3. UNCHANGED ShownDurable
      BY <2>2, <2>3, <2>7 DEF Begins
    <3>4. QED
      BY <3>1, <3>2, <3>3 DEF SS!Begin, ShownView, ShownPending, ShownDurable
  <2>8. ASSUME Commits, NEW s \in Sectors, NEW v \in Payload, s = sector, v = payload
        PROVE  SS!Commit(s, v)
    <3>1. ShownView' = [t \in (DOMAIN ShownView) \cup {s} |->
                          IF t = s THEN v ELSE ShownView[t]]
      BY <2>2, <2>3, <2>5, <2>8 DEF Commits
    <3>2. [sector |-> s, payload |-> v] \in ShownPending /\ ShownPending' = {}
      BY <2>8 DEF Commits, ShownPending
    <3>3. ShownDurable' = [ShownDurable EXCEPT ![s] = v]
      BY <2>2, <2>3, <2>8 DEF Commits
    <3>4. QED
      BY <3>1, <3>2, <3>3 DEF SS!Commit, ShownView, ShownPending, ShownDurable
  <2>9. ASSUME UNCHANGED <<acked, mapped>> PROVE UNCHANGED <<ShownDurable, ShownView>>
    BY <2>2, <2>3, <2>9
  <2>10. ASSUME Fails PROVE SS!Fail
    BY <2>9, <2>10 DEF Fails, SS!Fail, ShownView, ShownPending, ShownDurable
  <2>11. ASSUME Dies PROVE SS!Crash
    <3>1. ShownView' = [s \in {} |-> None]
      BY <2>3, <2>11 DEF Dies
    <3>2. UNCHANGED ShownDurable /\ ShownPending' = {}
      BY <2>2, <2>3, <2>11 DEF Dies, ShownPending
    <3>3. QED
      BY <3>1, <3>2 DEF SS!Crash, ShownView, ShownPending, ShownDurable
  <2>12. ASSUME Unseen PROVE UNCHANGED SS!vars
    <3>1. UNCHANGED <<ShownDurable, ShownView>>
      BY <2>9, <2>12 DEF Unseen
    <3>2. UNCHANGED ShownPending
      BY <2>12 DEF Unseen, ShownPending
    <3>3. QED
      BY <2>4, <3>1, <3>2 DEF ShownView, ShownPending, ShownDurable
  <2>13. ASSUME Commits PROVE SS!Next
    <3>1. PICK s \in Sectors, v \in Payload : s = sector /\ v = payload
      BY <2>6, <2>13 DEF Commits
    <3>2. SS!Commit(s, v)
      BY <2>8, <2>13, <3>1
    <3>3. QED
      BY <2>4, <3>2 DEF SS!Next
  <2>14. ASSUME NEW s \in Sectors, NEW v \in Payload, Begins(s, v) PROVE SS!Next
    BY <2>4, <2>7, <2>14 DEF SS!Next
  <2>15. ASSUME Fails \/ Dies PROVE SS!Next
    BY <2>4, <2>10, <2>11, <2>15 DEF SS!Next
  <2>16. QED
    BY <2>12, <2>13, <2>14, <2>15, StepSeen
<1>3. QED
  BY <1>1, <1>2

LEMMA StoreInitRefines == Init => SS!Init
<1> SUFFICES ASSUME Init PROVE SS!Init
  OBVIOUS
<1>1. Stored = {} /\ mapped = {} /\ pc = "off" /\ ~wrapped
  BY DEF Init, Stored
<1>2. QED
  BY <1>1 DEF SS!Init, Storing

\* When a map entry is one page and what the ECC of pageOP_Write reads behind
\* its buffer does not change under it, storing a sector is atomic, durable and
\* crash-safe, and what was stored is what the page map leads to: every step of
\* FTL is one of SectorStore or is not seen by its users.
THEOREM StoreRefinement ==
  ASSUME DPM_Pages_Per_Blk = 1, Overread = FALSE
  PROVE  Spec => SectorStoreSpec
<1>1. TypeOK /\ TypeOK' /\ DurableInv /\ DurableInv' /\ [Next]_vars => [SS!Next]_(SS!vars)
  BY StoreStepRefines
<1>2. QED
  BY <1>1, StoreInitRefines, DurableInvariance, PTL DEF Spec, SectorStoreSpec, SS!Spec
=============================================================================
