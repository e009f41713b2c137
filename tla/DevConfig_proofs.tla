-------------------------- MODULE DevConfig_proofs --------------------------
(***************************************************************************)
(* Theorems about VerifyAndConfigure for any names, any store and any      *)
(* reads, writes and restarts that go wrong.                               *)
(***************************************************************************)
EXTENDS DevConfig, TLAPS

VendorDone ==
  \/ store["VendorName"] = VendorName
  \/ "VendorName" \in unwritten
  \/ err["VendorName"] = "ERROR"

(* The first phase is done when the second one runs, and keeps its result.  *)
ConfigInv == ConfigTypeOK /\ ReturnsRight /\ (key = "ProductName" => VendorDone)

LEMMA NameOf ==
  Name["VendorName"] = VendorName /\ Name["ProductName"] = ProductName /\ Name \in [Keys -> Names]
BY DEF Name, Keys, Names

LEMMA InitConfigInv == ConfigInit => ConfigInv
BY DEF ConfigInit, ConfigInv, ConfigTypeOK, ReturnsRight, NotRead, Keys

LEMMA NextConfigInv == ConfigInv /\ [ConfigNext]_configVars => ConfigInv'
<1> SUFFICES ASSUME ConfigInv, [ConfigNext]_configVars PROVE ConfigInv'
  OBVIOUS
<1> USE DEF ConfigInv, ConfigTypeOK, Keys
<1>1. CASE ReadAndCompare
  <2>1. PICK result \in {"NOT_FOUND", "NO_ERROR", "ERROR"} :
          /\ Read(result)
          /\ IF Replaces(result, strBuf') THEN at' = "write" /\ UNCHANGED key ELSE GoOn
    BY <1>1 DEF ReadAndCompare
  <2>2. at = "read" /\ UNCHANGED <<store, unwritten>>
    BY <1>1 DEF ReadAndCompare
  <2>3. ConfigTypeOK'
    BY <2>1, <2>2 DEF Read, GoOn
  <2>4. CASE key = "VendorName"
    BY <2>1, <2>2, <2>3, <2>4, NameOf DEF Read, Replaces, GoOn, VendorDone, ReturnsRight
  <2>5. CASE key = "ProductName"
    <3>1. VendorDone'
      BY <2>1, <2>2, <2>5 DEF Read, VendorDone
    <3> QED
      BY <2>1, <2>2, <2>3, <2>5, <3>1, NameOf DEF Read, Replaces, GoOn, VendorDone, ReturnsRight
  <2> QED
    BY <2>4, <2>5
<1>2. CASE Write
  <2>1. ConfigTypeOK'
    BY <1>2, NameOf DEF Write, GoOn, WrittenName
  <2>2. CASE key = "VendorName"
    BY <1>2, <2>1, <2>2, NameOf DEF Write, GoOn, WrittenName, VendorDone, ReturnsRight
  <2>3. CASE key = "ProductName"
    BY <1>2, <2>1, <2>3, NameOf DEF Write, GoOn, WrittenName, VendorDone, ReturnsRight
  <2> QED
    BY <2>2, <2>3
<1>3. CASE Restart
  BY <1>3 DEF Restart, Enter, NotRead, ReturnsRight
<1>4. CASE UNCHANGED configVars
  BY <1>4 DEF configVars, VendorDone, ReturnsRight
<1> QED
  BY <1>1, <1>2, <1>3, <1>4 DEF ConfigNext, VerifyAndConfigure

LEMMA ConfigInvHolds == SafeConfigSpec => []ConfigInv
BY InitConfigInv, NextConfigInv, PTL DEF SafeConfigSpec

(* A call returns with both names right, but for the failures it names.     *)
THEOREM ReturnCorrect == SafeConfigSpec => []ReturnsRight
<1>1. ConfigInv => ReturnsRight
  BY DEF ConfigInv
<1> QED
  BY <1>1, ConfigInvHolds, PTL

(* A name that is right stays right, through failures and restarts.         *)
THEOREM NamesKept == SafeConfigSpec => NeverSpoiled
<1>1. ConfigInv /\ [ConfigNext]_configVars =>
        [\A k \in Keys : store[k] = Name[k] => store'[k] = Name[k]]_configVars
  <2> SUFFICES ASSUME ConfigInv, [ConfigNext]_configVars, NEW k \in Keys, store[k] = Name[k]
               PROVE  store'[k] = Name[k]
    OBVIOUS
  <2>1. CASE Write
    BY <2>1 DEF Write, WrittenName, ConfigInv, ConfigTypeOK
  <2>2. CASE ~Write
    BY <2>2 DEF ConfigNext, VerifyAndConfigure, ReadAndCompare, Restart, configVars
  <2> QED
    BY <2>1, <2>2
<1> QED
  BY <1>1, ConfigInvHolds, PTL DEF SafeConfigSpec, NeverSpoiled

=============================================================================
