-------------------------------- MODULE PackVerifier --------------------------------
(* NativeRagPackVerifier and the lease it seals                                    *)
(* (src/src/adapters/rag/native_rag_pack_verifier.cpp, verified_pack_lease.cpp):   *)
(* every file of the executable part of a knowledge pack is locked, then hashed,   *)
(* and the locks are held as long as the lease.                                    *)
(*                                                                                 *)
(* A file's content is "good" (what the manifest, for the manifest what the        *)
(* program trusts, says) or "other".  The locks are those of Windows, where the    *)
(* pack's program runtime/python.exe runs: a locked file cannot be opened for      *)
(* writing.  Elsewhere hold_read_lock does nothing (Locking is FALSE).             *)
EXTENDS Naturals, Sequences, FiniteSets

CONSTANTS
  Executables,  \* the files below runtime/ and sidecar/
  Locking,      \* whether hold_read_lock takes a lock
  MaxRewrites   \* bound: files another program rewrites

Manifest == "pack.json"
RuntimeLock == "runtime.lock.json"
Intent == "build.intent.json"

ASSUME VerifierParameters ==
  /\ Executables \cap {Manifest, RuntimeLock, Intent} = {}
  /\ Locking \in BOOLEAN /\ MaxRewrites \in Nat

Files == Executables \cup {Manifest, RuntimeLock, Intent}

VARIABLES
  content,   \* what is in each file
  strays,    \* a file is below runtime/ or sidecar/ that the manifest does not list
  locked,    \* the files with an open handle
  lease,     \* the lease is sealed
  checked,   \* the files verified in this call
  rewrites   \* how many files were rewritten

packVars == <<content, strays, locked, lease, checked, rewrites>>

VerifierInit ==
  /\ content \in {[f \in Files |-> "good"],
                  [f \in Files |-> IF f \in Executables THEN "other" ELSE "good"]}
  /\ strays \in BOOLEAN
  /\ locked = {} /\ lease = FALSE /\ checked = {} /\ rewrites = 0

(* The call gives up the old lease, its locks included. *)
BeginVerify == lease' = FALSE /\ locked' = {} /\ checked' = {} /\ UNCHANGED <<content, strays, rewrites>>

(* hold_read_lock: the handle is taken before the file is read. *)
Hold(f) ==
  /\ f \notin locked
  /\ locked' = IF Locking THEN locked \cup {f} ELSE locked
  /\ UNCHANGED <<content, strays, lease, checked, rewrites>>

Held(f) == ~Locking \/ f \in locked

(* verify_record: the manifest first, then the runtime lock, then the intent, then *)
(* the executables one by one.                                                     *)
May(f) ==
  /\ f \notin checked
  /\ f = RuntimeLock => Manifest \in checked
  /\ f = Intent => RuntimeLock \in checked
  /\ f \in Executables => Intent \in checked

(* Mutant: the file is hashed whether or not its handle is held. *)
HashMatchesUnheld(f) ==
  /\ May(f) /\ content[f] = "good"
  /\ checked' = checked \cup {f}
  /\ UNCHANGED <<content, strays, locked, lease, rewrites>>

HashMatches(f) ==
  /\ May(f) /\ Held(f) /\ content[f] = "good"
  /\ checked' = checked \cup {f}
  /\ UNCHANGED <<content, strays, locked, lease, rewrites>>

(* inventory_tree runs between the intent and the first executable. *)
InventoryFails == Intent \in checked /\ checked \cap Executables = {} /\ strays

(* fail: every handle is closed. *)
VerifyFails ==
  /\ InventoryFails \/ \E f \in Files : May(f) /\ Held(f) /\ content[f] # "good"
  /\ lease' = FALSE /\ locked' = {} /\ checked' = {}
  /\ UNCHANGED <<content, strays, rewrites>>

Seal ==
  /\ checked = Files
  /\ lease' = TRUE /\ checked' = {}
  /\ UNCHANGED <<content, strays, locked, rewrites>>

VerifierStep ==
  \E f \in Files : (May(f) /\ ~InventoryFails /\ Hold(f)) \/ (~InventoryFails /\ HashMatches(f))

(* Another program builds or repairs the pack: it may write any file that is not   *)
(* locked.  That it adds files after the inventory is left out.                    *)
Rewrite(f) ==
  /\ rewrites < MaxRewrites /\ f \notin locked
  /\ content' = [content EXCEPT ![f] = IF @ = "good" THEN "other" ELSE "good"]
  /\ rewrites' = rewrites + 1
  /\ UNCHANGED <<strays, locked, lease, checked>>
================================================================================
