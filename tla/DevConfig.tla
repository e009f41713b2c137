----------------------------- MODULE DevConfig -----------------------------
(***************************************************************************)
(* src/DevConfig.cpp: the vendor and the product name in the non-volatile  *)
(* store are read one after the other, through one buffer, compared with   *)
(* the wanted name, and written when they differ.  Only a missing key is   *)
(* told apart from a name that was read: after any other error the test    *)
(* looks at what the buffer holds already, which for the first read is     *)
(* uninitialised memory.  The result of a write is dropped.  The device    *)
(* may restart anywhere; the store survives.  No source file calls         *)
(* VerifyAndConfigure: here a device calls it once, when it starts.        *)
(***************************************************************************)

CONSTANTS
  VendorName, ProductName,  \* the wanted names
  OtherNames,               \* other names that may be found
  Missing,                  \* stands for a key without a name
  ReadFaults,               \* can a read fail though the key is there?
  WriteFaults,              \* can a write fail?
  Restarts                  \* can the device restart?

Names == {VendorName, ProductName} \cup OtherNames
Keys  == {"VendorName", "ProductName"}

ASSUME DevConfigAssumption ==
  /\ VendorName # ProductName
  /\ Missing \notin Names
  /\ ReadFaults \in BOOLEAN
  /\ WriteFaults \in BOOLEAN
  /\ Restarts \in BOOLEAN

VARIABLES
  store,   \* the non-volatile store
  strBuf,  \* the name in the buffer, with its length
  key,     \* the key VerifyAndConfigure is at
  at,      \* its next step: "read" or "write" the key; "return" after the last
  err,     \* the results of the reads of this call
  unwritten  \* history: the keys whose write failed in this call

configVars == <<store, strBuf, key, at, err, unwritten>>

Name == [k \in Keys |-> IF k = "VendorName" THEN VendorName ELSE ProductName]
NotRead == [k \in Keys |-> "none"]

-----------------------------------------------------------------------------
(* A call begins with whatever the stack holds in strBuf and len. *)
Enter ==
  /\ strBuf' \in Names
  /\ key' = "VendorName"
  /\ at' = "read"
  /\ err' = NotRead
  /\ unwritten' = {}

ConfigInit ==
  /\ store \in [Keys -> Names \cup {Missing}]
  /\ strBuf \in Names
  /\ key = "VendorName"
  /\ at = "read"
  /\ err = NotRead
  /\ unwritten = {}

(* ReadConfigValueStr: the result, and what the buffer holds after it. *)
Read(result) ==
  /\ \/ result = "NOT_FOUND" /\ store[key] = Missing /\ UNCHANGED strBuf
     \/ result = "NO_ERROR" /\ store[key] # Missing /\ strBuf' = store[key]
     \/ result = "ERROR" /\ ReadFaults /\ UNCHANGED strBuf
  /\ err' = [err EXCEPT ![key] = result]

ReplacesFound(result, buf) ==          \* mutant: an error counts as a right name
  result = "NOT_FOUND" \/ (result = "NO_ERROR" /\ buf # Name[key])
Replaces(result, buf) == result = "NOT_FOUND" \/ buf # Name[key]

GoOn ==
  IF key = "VendorName" THEN key' = "ProductName" /\ at' = "read"
                        ELSE at' = "return" /\ UNCHANGED key

ReadAndCompare ==
  /\ at = "read"
  /\ \E result \in {"NOT_FOUND", "NO_ERROR", "ERROR"} :
       /\ Read(result)
       /\ IF Replaces(result, strBuf') THEN at' = "write" /\ UNCHANGED key ELSE GoOn
  /\ UNCHANGED <<store, unwritten>>

WrittenBuffer == strBuf                \* mutant: the buffer is written back
WrittenName == Name[key]

(* WriteConfigValueStr *)
Write ==
  /\ at = "write"
  /\ \/ store' = [store EXCEPT ![key] = WrittenName] /\ UNCHANGED unwritten
     \/ WriteFaults /\ unwritten' = unwritten \cup {key} /\ UNCHANGED store
  /\ GoOn
  /\ UNCHANGED <<strBuf, err>>

(* The device restarts, during the call or after it, and calls again. *)
Restart == Restarts /\ Enter /\ UNCHANGED store

VerifyAndConfigure == ReadAndCompare \/ Write

ConfigNext == VerifyAndConfigure \/ Restart

SafeConfigSpec == ConfigInit /\ [][ConfigNext]_configVars

-----------------------------------------------------------------------------
(* Properties *)

ConfigTypeOK ==
  /\ store \in [Keys -> Names \cup {Missing}]
  /\ strBuf \in Names
  /\ key \in Keys
  /\ at \in {"read", "write", "return"}
  /\ err \in [Keys -> {"none", "NOT_FOUND", "NO_ERROR", "ERROR"}]
  /\ unwritten \subseteq Keys

(* A call that returns leaves a name right unless its write failed, or its  *)
(* read failed and the buffer passed for the name: for the vendor that is   *)
(* whatever the stack held, but what the first read left passes for the     *)
(* product only if it is the product name.                                  *)
ReturnsRight ==
  at = "return" =>
    /\ \/ store["VendorName"] = VendorName
       \/ "VendorName" \in unwritten
       \/ err["VendorName"] = "ERROR"
    /\ \/ store["ProductName"] = ProductName
       \/ "ProductName" \in unwritten
       \/ err["ProductName"] = "ERROR" /\ strBuf = ProductName

(* No call ever spoils a name that is right, whatever fails and wherever    *)
(* the device restarts: the two phases share the buffer, and after a failed *)
(* read the second one compares, but does not write, what the first left.   *)
NeverSpoiled ==
  [][\A k \in Keys : store[k] = Name[k] => store'[k] = Name[k]]_configVars

=============================================================================
