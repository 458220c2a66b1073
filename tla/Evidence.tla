------------------------------ MODULE Evidence ------------------------------
(***************************************************************************)
(* What becomes of a published bundle: experiment-summarize and            *)
(* experiment-plot append to it, experiment-publish verifies it and copies *)
(* a snapshot (experiments/statistics.py, reporting/svg.py,                *)
(* experiments/verification.py, reporting/evidence.py).  At any time,      *)
(* also between two steps of a publisher, a file of the bundle may change  *)
(* on disk.                                                                *)
(*                                                                         *)
(* An edition stands for what a file says: 1 as the program wrote it,      *)
(* higher once it was edited.  A digest stands for the edition it was      *)
(* computed from, and covers only what the program computes it of.         *)
(***************************************************************************)
EXTENDS Statistics

CONSTANTS
    Publishers,   \* experiment-publish processes, given one output directory
    Changes,      \* the ways in which a file of the bundle may be edited
    MaxEdits      \* bound: edits of the bundle

\* The experiment's record, fixed once execute_experiment returns; and the
\* reports made from it later.
Core    == {"manifest", "runs", "replications", "bundle", "COMPLETE"}
Reports == {"summary", "plotManifest", "plots"}
Files   == Core \cup Reports

\* The files of which a file records a digest.  COMPLETE is nothing but one.
Cites == [COMPLETE     |-> {"bundle"},
          bundle       |-> {"manifest", "runs", "replications"},
          replications |-> {"runs"},
          summary      |-> {"manifest", "replications"},
          plotManifest |-> {"manifest", "summary", "plots"},
          manifest     |-> {}, runs |-> {}, plots |-> {}]
\* The files that record a digest of their own body.
SelfDigested == {"manifest", "replications", "bundle", "summary", "plotManifest"}
\* Those with fields that no digest covers: the times and the environment in
\* bundle.json, all but the design and the base scenario in the manifest.
PartlySigned == {"bundle", "manifest"}

\* The body of a file changes, its own digest with it or not, and the digests
\* it records of other files are brought up to date or not.
ASSUME ChangesAssumption ==
    Changes \subseteq [of : Files, redigested : BOOLEAN, relinked : BOOLEAN]

VARIABLES
    file,       \* each file of the bundle: the editions of what digests cover
                \* (body; 0 before it is written) and of what they do not
                \* (rest), whether its own digest fits, and those it cites
    summary,    \* what the summary says
    edits,      \* how many edits there were
    desk,       \* how far each publisher is
    draft,      \* what each publisher verified, and what it copied
    snapshot    \* the evidence directory
bundle   == <<file, summary, edits>>
evidence == <<desk, draft, snapshot>>
all      == <<vars, bundle, evidence>>

Unwritten == [body |-> 0, rest |-> 0, fits |-> TRUE, cites |-> << >>]
AsWritten(cites) == [body |-> 1, rest |-> 1, fits |-> TRUE, cites |-> cites]
Written(f) == file[f].body # 0
\* The digests that a file would record of the others as they are.
Digests(f) == [g \in Cites[f] |-> file[g].body]

EvidenceInit ==
    /\ Init
    /\ file = [f \in Files |-> IF f \in Core THEN AsWritten([g \in Cites[f] |-> 1])
                                             ELSE Unwritten]
    /\ summary  = Absent
    /\ edits    = 0
    /\ desk     = [p \in Publishers |-> "idle"]
    /\ draft    = [p \in Publishers |-> Absent]
    /\ snapshot = Absent

\* The bundle is there and no invocation is at work: the analysis commands
\* follow experiment-run.
Settled  == target.present /\ \A i \in Invocations : pc[i] \notin {"idle", "running", "composed"}
\* bundle.json says that the experiment is complete, as it may once edited.
Complete(content) == target.bundle.status = "complete" \/ content.body # 1
------------------------------------------------------------------------------
\* _validate_rows: a row has its own digest, and that of the run it is from.
RowsHold == file["replications"].fits /\ file["replications"].cites = Digests("replications")

\* summarize_experiment: of a partial bundle only if told so; of a dataset
\* that is the bundle's and whose rows hold; and only once.  What it makes of
\* edited files is left open.
Summarize(allowPartial) ==
    /\ Settled /\ ~Written("summary")
    /\ Complete(file["bundle"]) \/ allowPartial
    /\ file["bundle"].cites["replications"] = file["replications"].body
    /\ RowsHold
    /\ file' = [file EXCEPT !["summary"] = AsWritten(
                   [Digests("summary") EXCEPT !["manifest"] = file["bundle"].cites["manifest"]])]
    /\ summary' = IF \A f \in {"bundle", "manifest", "replications"} : file[f].body = 1
                  THEN SummaryOf(target.bundle) ELSE Absent
    /\ UNCHANGED <<vars, edits, evidence>>

\* generate_experiment_plots: from the summary as it stands, and only once.
Plot ==
    /\ Settled /\ Written("summary") /\ file["summary"].fits /\ ~Written("plots")
    /\ file' = [file EXCEPT
           !["plots"] = AsWritten(<< >>),
           !["plotManifest"] = AsWritten(
               [Digests("plotManifest") EXCEPT !["manifest"] = file["summary"].cites["manifest"],
                                               !["plots"] = 1])]
    /\ UNCHANGED <<vars, summary, edits, evidence>>

\* A file as read bears out the digests it records, in the light of all read.
BearsOut(read, f) ==
    /\ read[f].body # 0 /\ read[f].fits
    /\ \A g \in Cites[f] : read[f].cites[g] = read[g].body

\* Mutant of RecordHolds: the completion marker is not compared.
RecordHoldsWithoutMarker(read) ==
    /\ \A f \in Core \ {"COMPLETE"} : BearsOut(read, f)
    /\ Complete(read["bundle"])

\* verify_experiment_bundle, of the record and of the reports.
RecordHolds(read) == (\A f \in Core : BearsOut(read, f)) /\ Complete(read["bundle"])
ReportsHold(read) == \A f \in Reports : BearsOut(read, f)

\* What is read now of some files, next to what was read before of the others.
Reading(before, fs) == [f \in Files |-> IF f \in fs THEN file[f] ELSE before[f]]
Unread == [f \in Files |-> Unwritten]
\* An edited file may also be unreadable, or fail the checks of its form.
Malformed(fs) == \E f \in fs : file[f].body # 1

Refuse(p) ==
    /\ desk'  = [desk EXCEPT ![p] = "refused"]
    /\ draft' = [draft EXCEPT ![p] = Absent]

\* publish_evidence_snapshot: a snapshot that is there refuses.  The bundle's
\* record is verified first, and then its reports.
VerifyRecord(p) ==
    /\ Settled /\ desk[p] = "idle"
    /\ LET read == Reading(Unread, Core) IN
       \/ (snapshot.present \/ ~RecordHolds(read) \/ Malformed(Core)) /\ Refuse(p)
       \/ /\ ~snapshot.present /\ RecordHolds(read)
          /\ desk'  = [desk EXCEPT ![p] = "verifying"]
          /\ draft' = [draft EXCEPT ![p] = [verified |-> read, copies |-> Unread]]
    /\ UNCHANGED <<vars, bundle, snapshot>>
VerifyReports(p) ==
    /\ desk[p] = "verifying"
    /\ LET read == Reading(draft[p].verified, Reports) IN
       \/ (~ReportsHold(read) \/ Malformed(Reports)) /\ Refuse(p)
       \/ /\ ReportsHold(read)
          /\ desk'  = [desk EXCEPT ![p] = "copying"]
          /\ draft' = [draft EXCEPT ![p].verified = read]
    /\ UNCHANGED <<vars, bundle, snapshot>>

\* Then bundle.json is read once more, for the fields of bundle-summary.json,
\* and the files a reader needs are copied one by one into the stage; none of
\* them is compared with what was verified.
Published == {"bundle", "manifest"} \cup Reports
CopiedBefore == [bundle |-> {}, manifest |-> {"bundle"}, summary |-> {"manifest"},
                 plotManifest |-> {"summary"}, plots |-> {"summary"}]
Copied(p, f) == draft[p].copies[f].body # 0
Copy(p, f) ==
    /\ desk[p] = "copying" /\ ~Copied(p, f)
    /\ \A g \in CopiedBefore[f] : Copied(p, g)
    /\ \/ Malformed({f}) /\ Refuse(p)
       \/ /\ draft' = [draft EXCEPT ![p].copies[f] = file[f]]
          /\ UNCHANGED desk
    /\ UNCHANGED <<vars, bundle, snapshot>>

\* The rename, which refuses a directory with files in it.
PromoteSnapshot(p) ==
    /\ desk[p] = "copying" /\ \A f \in Published : Copied(p, f)
    /\ draft' = [draft EXCEPT ![p] = Absent]
    /\ \/ /\ snapshot.present
          /\ desk' = [desk EXCEPT ![p] = "raised"]
          /\ UNCHANGED snapshot
       \/ /\ ~snapshot.present
          /\ snapshot' = [present |-> TRUE, by |-> p, verified |-> draft[p].verified,
                          copies |-> draft[p].copies]
          /\ desk' = [desk EXCEPT ![p] = "returned"]
    /\ UNCHANGED <<vars, bundle>>

\* The process is killed.  Nobody looks into the stage it may leave behind.
KillPublisher(p) ==
    /\ desk[p] \in {"verifying", "copying"}
    /\ desk'  = [desk EXCEPT ![p] = "crashed"]
    /\ draft' = [draft EXCEPT ![p] = IF desk[p] = "copying" THEN Leftover ELSE Absent]
    /\ UNCHANGED <<vars, bundle, snapshot>>

\* A file of the bundle changes on disk: only what no digest covers ...
EditRest(f) ==
    /\ Settled /\ Written(f) /\ edits < MaxEdits
    /\ file'  = [file EXCEPT ![f].rest = @ + 1]
    /\ edits' = edits + 1
    /\ UNCHANGED <<vars, summary, evidence>>
\* ... or its body.  Unless it is brought up to date, an edited COMPLETE is the
\* digest of nothing.
Edit(c) ==
    /\ Settled /\ Written(c.of) /\ edits < MaxEdits
    /\ file' = [file EXCEPT ![c.of] =
           [body  |-> @.body + 1,
            rest  |-> @.rest,
            fits  |-> c.redigested \/ c.of \notin SelfDigested,
            cites |-> IF c.relinked THEN Digests(c.of)
                      ELSE IF c.of = "COMPLETE" THEN [g \in Cites[c.of] |-> 0] ELSE @.cites]]
    /\ edits' = edits + 1
    /\ UNCHANGED <<vars, summary, evidence>>

\* Every process has come to its end.
Rest ==
    /\ \A i \in Invocations : pc[i] \notin {"idle", "running", "composed"}
    /\ \A p \in Publishers : desk[p] \notin {"verifying", "copying"}
    /\ UNCHANGED all

Next ==
    \/ \E i \in Invocations :
          /\ Begin(i) \/ Take(i) \/ Write(i) \/ Compose(i) \/ Promote(i) \/ Crash(i)
          /\ UNCHANGED <<result, failFast, bundle, evidence>>
    \/ \E allowPartial \in BOOLEAN : Summarize(allowPartial)
    \/ Plot
    \/ \E p \in Publishers :
          \/ VerifyRecord(p) \/ VerifyReports(p)
          \/ \E f \in Published : Copy(p, f)
          \/ PromoteSnapshot(p) \/ KillPublisher(p)
    \/ \E f \in PartlySigned : EditRest(f)
    \/ \E c \in Changes : Edit(c)
    \/ Rest

Spec == EvidenceInit /\ [][Next]_all
------------------------------------------------------------------------------
\* Published output is never written again: not the bundle, by an invocation
\* that started before it was there, and not the snapshot; and a report is
\* written at most once.  (docs/experiments/experiment-orchestration.md: a hard
\* collision, append-only; target.exists, stage.replace.)
PublishedOnce == [][
    /\ target.present   => target' = target
    /\ snapshot.present => snapshot' = snapshot
    /\ \A f \in Files : Written(f) => file'[f].body >= file[f].body]_all

\* The completion marker is the root of the evidence: as long as it is the one
\* the program wrote, what a published snapshot was verified to be is the
\* record as the program wrote it, of an experiment without a failed run,
\* however often any file was edited, digests and all.  And what was copied is
\* what was verified, and the plots are of the summary next to them, in every
\* file that did not change since it was verified.  No digest covers the times
\* and the environment, so nothing is said of them but that.
\* (publish_evidence_snapshot, verify_experiment_bundle)
SnapshotVerified == snapshot.present =>
    LET verified == snapshot.verified
        copies   == snapshot.copies
        Same     == {f \in Published : file[f] = verified[f]}
    IN /\ verified["COMPLETE"].body = 1 =>
             /\ \A f \in Core : verified[f].body = 1
             /\ \A c \in Cells : result[c] # "failure"
             /\ \A f \in Core \cap Same : copies[f].body = 1
       /\ \A f \in Same : copies[f] = verified[f]
       /\ \A f \in Reports \cap Same :
             \A g \in Cites[f] \cap Same : copies[f].cites[g] = copies[g].body

\* A comparison is fair, even of a partial bundle: it pairs two runs of the
\* same replication and the same other factors, each run once, and every
\* replication of which both schedulers have a run; those without a value are
\* told apart; and the estimates are of every run of the bundle, each once.
\* (_estimate_rows, _comparison_rows)
ComparesLikeWithLike == summary # Absent =>
    /\ \A k \in summary.comparisons :
          /\ \A a, b \in k.pairs :
                /\ Group(a[1]) = Group(a[2]) /\ a[1] # a[2]
                /\ a # b => a[1] # b[1] /\ a[2] # b[2]
          /\ k.expected - k.valid = Cardinality({r \in Replications : \E c \in Cells :
                /\ c.factors = k.stratum /\ c.replication = r
                /\ c.variant \in Reference \cup {k.candidate}
                /\ result[c] \in {"failure", "valueless"}})
    /\ UNION {e.sources : e \in summary.estimates} = {c \in Cells : result[c] # "failure"}
    /\ \A e, g \in summary.estimates : e # g => e.sources \cap g.sources = {}
    /\ summary.partial <=> \E c \in Cells : result[c] = "failure"
==============================================================================
