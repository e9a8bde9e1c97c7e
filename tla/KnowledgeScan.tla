--------------------------- MODULE KnowledgeScan ---------------------------
(***************************************************************************)
(* The scan of the knowledge folder into the document index.               *)
(*                                                                         *)
(* A scan walks the folder file by file while the owner edits the files    *)
(* and deletes documents: a file is listed, hashed, compared with its      *)
(* document, read and stored in steps of their own.  What cannot be read   *)
(* is recorded as a failure that keeps an earlier index; the documents of  *)
(* files that were not listed become missing at the end.  A file that      *)
(* vanishes where no handler catches it ends the whole scan.               *)
(*                                                                         *)
(* Abstracted: a document is a row per path with its status, the hash of   *)
(* the content it was made from and the content its chunks and full text   *)
(* hold (they are written in one transaction); a hash is the content it is *)
(* of.  The lock of the class allows one scan: another is refused at once. *)
(***************************************************************************)
EXTENDS FiniteSets

CONSTANTS
    KnoPaths,       \* files the folder may hold
    KnoUnsupported, \* those no reader is registered for
    KnoGood,        \* contents that give text
    KnoBad,         \* contents the reader fails on
    KnoBig,         \* contents over the size limit
    KnoNone

KnoContents == KnoGood \cup KnoBad \cup KnoBig

ASSUME KnoAssumption == KnoUnsupported \subseteq KnoPaths /\ KnoNone \notin KnoContents

VARIABLES
    knoDisk,        \* content of each file, or KnoNone
    knoDocs,        \* document of each path
    knoScan         \* the scan that holds the lock

knoVars == <<knoDisk, knoDocs, knoScan>>

-----------------------------------------------------------------------------
(* Types.                                                                  *)

KnoDoc(status, hash, text) == [status |-> status, hash |-> hash, text |-> text]
KnoNoDoc == KnoDoc("none", KnoNone, KnoNone)

\* todo: not yet visited; listed: discovered; failed: failures counted;
\* row: the document existed when it was compared; undisturbed (history):
\* nobody changed a file or deleted a document since the scan began.
KnoIdle ==
    [pc |-> "idle", todo |-> {}, listed |-> {}, failed |-> {}, path |-> KnoNone,
     row |-> FALSE, hash |-> KnoNone, text |-> KnoNone, undisturbed |-> TRUE]

KnoDocument ==
    [status : {"none", "failed", "indexed", "missing"},
     hash : KnoContents \cup {KnoNone}, text : KnoContents \cup {KnoNone}]

KnoScanning ==
    [pc : {"idle", "visit", "hash", "extract", "store", "failure", "return"},
     todo : SUBSET KnoPaths, listed : SUBSET KnoPaths, failed : SUBSET KnoPaths,
     path : KnoPaths \cup {KnoNone}, row : BOOLEAN,
     hash : KnoContents \cup {KnoNone}, text : KnoContents \cup {KnoNone},
     undisturbed : BOOLEAN]

KnoTypeOK ==
    /\ knoDisk \in [KnoPaths -> KnoContents \cup {KnoNone}]
    /\ knoDocs \in [KnoPaths -> KnoDocument]
    /\ knoScan \in KnoScanning
    /\ \A p \in KnoPaths :
          knoDocs[p].status \in {"indexed", "missing"} => knoDocs[p].text # KnoNone

-----------------------------------------------------------------------------
(* The scan.                                                               *)

KnoGoes(q) == knoScan' = q
KnoFile == knoDisk[knoScan.path]

\* The next file.
KnoContinue(q) ==
    KnoGoes([q EXCEPT !.pc = "visit", !.path = KnoNone, !.row = FALSE,
                      !.hash = KnoNone, !.text = KnoNone])

KnoStart ==
    /\ knoScan.pc = "idle"
    /\ KnoGoes([KnoIdle EXCEPT !.pc = "visit", !.todo = KnoPaths])
    /\ UNCHANGED <<knoDisk, knoDocs>>

\* _discover yields a file that is there; no reader, no further step.
KnoVisit(p) ==
    LET rest == [knoScan EXCEPT !.todo = @ \ {p}]
        listed == [rest EXCEPT !.listed = @ \cup {p}]
    IN
    /\ knoScan.pc = "visit" /\ p \in knoScan.todo
    /\ \/ knoDisk[p] = KnoNone /\ KnoGoes(rest)
       \/ /\ knoDisk[p] # KnoNone /\ p \in KnoUnsupported
          /\ KnoGoes(listed)
       \/ /\ knoDisk[p] # KnoNone /\ p \notin KnoUnsupported
          /\ KnoGoes([listed EXCEPT !.pc = "hash", !.path = p])
    /\ UNCHANGED <<knoDisk, knoDocs>>

\* Mutant: a document that is missing or failed passes for unchanged.
KnoUnchanged_ByHash(p, hash) == knoDocs[p].hash = hash

KnoUnchanged(p, hash) == knoDocs[p].hash = hash /\ knoDocs[p].status = "indexed"

\* Size, hash and comparison with the document.
KnoHash ==
    /\ knoScan.pc = "hash" /\ KnoFile # KnoNone
    /\ \/ KnoFile \in KnoBig /\ KnoGoes([knoScan EXCEPT !.pc = "failure"])
       \/ /\ KnoFile \notin KnoBig
          /\ KnoUnchanged(knoScan.path, KnoFile)
          /\ KnoContinue(knoScan)
       \/ /\ KnoFile \notin KnoBig
          /\ ~KnoUnchanged(knoScan.path, KnoFile)
          /\ KnoGoes([knoScan EXCEPT !.pc = "extract", !.hash = KnoFile,
                         !.row = knoDocs[knoScan.path] # KnoNoDoc])
    /\ UNCHANGED <<knoDisk, knoDocs>>

\* The reader reads what the file holds by now.
KnoExtract ==
    /\ knoScan.pc = "extract"
    /\ \/ /\ KnoFile \in KnoGood \cup KnoBig
          /\ KnoGoes([knoScan EXCEPT !.pc = "store", !.text = KnoFile])
       \/ /\ KnoFile \in KnoBad \cup {KnoNone}
          /\ KnoGoes([knoScan EXCEPT !.pc = "failure"])
    /\ UNCHANGED <<knoDisk, knoDocs>>

\* Row, chunks and full text in one transaction.
KnoStore ==
    /\ knoScan.pc = "store" /\ KnoFile # KnoNone
    /\ knoScan.row = (knoDocs[knoScan.path] # KnoNoDoc)
    /\ knoDocs' = [knoDocs EXCEPT
          ![knoScan.path] = KnoDoc("indexed", knoScan.hash, knoScan.text)]
    /\ KnoContinue(knoScan)
    /\ UNCHANGED knoDisk

\* The file or the row is gone, or the write fails: rolled back.
KnoStoreFails ==
    /\ knoScan.pc = "store"
    /\ KnoGoes([knoScan EXCEPT !.pc = "failure"])
    /\ UNCHANGED <<knoDisk, knoDocs>>

\* Record the failure: an indexed document stays indexed, with its old text.
KnoFailure ==
    /\ knoScan.pc = "failure" /\ KnoFile # KnoNone
    /\ knoDocs' = [knoDocs EXCEPT ![knoScan.path].status =
          IF @ = "indexed" THEN "indexed" ELSE "failed"]
    /\ KnoContinue([knoScan EXCEPT !.failed = @ \cup {knoScan.path}])
    /\ UNCHANGED knoDisk

\* The whole folder was walked: what was not listed is missing.
KnoFinish ==
    /\ knoScan.pc = "visit" /\ knoScan.todo = {}
    /\ knoDocs' = [p \in KnoPaths |->
          IF knoDocs[p].status = "indexed" /\ p \notin knoScan.listed
          THEN [knoDocs[p] EXCEPT !.status = "missing"] ELSE knoDocs[p]]
    /\ KnoGoes([knoScan EXCEPT !.pc = "return"])
    /\ UNCHANGED knoDisk

\* The scan returns its counts; or an exception nobody catches (a file gone
\* before it is hashed or recorded, a write that fails), or a crash, ends it:
\* nothing is marked missing, what was committed stays.
KnoEnd ==
    /\ knoScan.pc # "idle"
    /\ KnoGoes(KnoIdle)
    /\ UNCHANGED <<knoDisk, knoDocs>>

-----------------------------------------------------------------------------
(* The owner.                                                              *)

KnoDisturb == knoScan' = [knoScan EXCEPT !.undisturbed = (knoScan.pc = "idle")]

\* Delete a document: its row, chunks and full text.
KnoDelete(p) ==
    /\ knoDocs[p] # KnoNoDoc
    /\ knoDocs' = [knoDocs EXCEPT ![p] = KnoNoDoc]
    /\ KnoDisturb
    /\ UNCHANGED knoDisk

\* Write, replace or remove a file.
KnoEdit(p, c) ==
    /\ knoDisk[p] # c
    /\ knoDisk' = [knoDisk EXCEPT ![p] = c]
    /\ KnoDisturb
    /\ UNCHANGED knoDocs

-----------------------------------------------------------------------------

KnoInit ==
    /\ knoDisk = [p \in KnoPaths |-> KnoNone]
    /\ knoDocs = [p \in KnoPaths |-> KnoNoDoc]
    /\ knoScan = KnoIdle

KnoNext ==
    \/ KnoStart \/ KnoHash \/ KnoExtract \/ KnoStore \/ KnoStoreFails
    \/ KnoFailure \/ KnoFinish \/ KnoEnd
    \/ \E p \in KnoPaths :
          \/ KnoVisit(p) \/ KnoDelete(p)
          \/ \E c \in KnoContents \cup {KnoNone} : KnoEdit(p, c)

KnoSpec == KnoInit /\ [][KnoNext]_knoVars

-----------------------------------------------------------------------------
(* Properties.                                                             *)

\* A scan that nobody disturbed leaves the index as the folder is, whatever
\* interrupted or disturbed scans came before: a file it could read is
\* indexed under the hash it has, and no document of a file that is not there
\* passes for indexed and is found by a search (KnowledgeService.scan).
KnoScanSettles ==
    knoScan.pc = "return" /\ knoScan.undisturbed =>
        \A p \in KnoPaths \ KnoUnsupported :
            IF knoDisk[p] = KnoNone THEN knoDocs[p].status # "indexed"
            ELSE p \in knoScan.failed
                 \/ (knoDocs[p].status = "indexed" /\ knoDocs[p].hash = knoDisk[p])

=============================================================================
