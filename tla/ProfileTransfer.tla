-------------------------- MODULE ProfileTransfer --------------------------
(***************************************************************************)
(* ProfileBootstrapService and ProfileBundleService: cookies are imported   *)
(* into a Profile, a Profile is cloned, exported to or restored from an     *)
(* encrypted bundle. Each is previewed first; the preview's token commits   *)
(* it once, bound to the control session, the Profile's version and a       *)
(* fingerprint of its storage.                                              *)
(*                                                                         *)
(* A request runs on a thread; what it does under a service's lock, or in   *)
(* one transaction or file operation, is one step. Between the steps other  *)
(* requests commit, cancel or evict previews, browsers change the Profile,  *)
(* archive or edit its row, previews expire and the process dies.           *)
(***************************************************************************)
EXTENDS Integers, FiniteSets

CONSTANTS
  Threads, Controls,  \* request threads, control sessions
  Profiles, Targets,  \* Profiles of the catalog, and the ids a clone or restore draws
  Tokens,             \* preview tokens, in the order in which they expire
  MaxPending,         \* pending previews of a kind
  Loads,              \* bounds: the kinds, requests, edits and crashes of a behaviour
  MaxContent,         \* bound: versions of a storage
  None

Kinds == {"cookie", "clone", "export", "restore"}
Ids == Profiles \cup Targets

ASSUME TransferAssumption ==
  /\ Tokens \subseteq Nat \ {0} /\ IsFiniteSet(Tokens) /\ MaxPending \in Nat \ {0}
  /\ Profiles \cap Targets = {} /\ MaxContent \in Nat \ {0}
  /\ Loads \subseteq [kinds : SUBSET Kinds, requests : Nat, edits : Nat, crashes : Nat]
  /\ None \notin Threads \cup Ids \cup Controls \cup Kinds /\ "session" \notin Threads

VARIABLES
  row,        \* the catalog: state and version
  disk, stamp, \* the storage of an id, and the newest content written anywhere
  owner,      \* the process lock of an id: a thread's mutation lease or "session"
  preview,    \* _pending, _clone_pending, _exports and _restores, by token
  uploads, plain, artifacts, \* temporary files: bundles received, archives, bundles to send
  kept,       \* the sorts of temporary files that could not be deleted
  op,         \* what each thread does
  up,         \* whether the bundle service has been created
  lost,       \* history: ids whose directory is left behind, tokens left in progress
  commits, cancelled, \* history: effects of a token, tokens cancelled
  load        \* what is left of the bounds

vars == <<row, disk, stamp, owner, preview, uploads, plain, artifacts, kept, op, up, lost, commits, cancelled, load>>
storage == <<disk, stamp>>
files == <<uploads, plain, artifacts, kept>>
ghosts == <<lost, commits, cancelled>>

NoRow == [state |-> "none", version |-> 0]
NoDir == [dir |-> "absent", content |-> 0]
NoPreview == [state |-> "unused", kind |-> None, control |-> None, of |-> None,
              version |-> 0, content |-> 0, busy |-> FALSE, expired |-> FALSE]
NoOp == [pc |-> "idle", kind |-> None, control |-> None, token |-> 0,
         of |-> None, target |-> None, seen |-> NoRow, content |-> 0]

Init ==
  /\ row = [i \in Ids |-> IF i \in Profiles THEN [state |-> "ready", version |-> 1] ELSE NoRow]
  /\ disk = [i \in Ids |-> IF i \in Profiles THEN [dir |-> "full", content |-> 1] ELSE NoDir]
  /\ stamp = 1 /\ owner = [i \in Ids |-> None]
  /\ preview = [t \in Tokens |-> NoPreview]
  /\ uploads = {} /\ plain = {} /\ artifacts = {} /\ kept = {}
  /\ op = [a \in Threads |-> NoOp] /\ up = TRUE /\ lost = {}
  /\ commits = [t \in Tokens |-> 0] /\ cancelled = {} /\ load \in Loads

At(a, p) == op[a].pc = p
Goto(a, p) == op' = [op EXCEPT ![a].pc = p]
Ends(a) == op' = [op EXCEPT ![a] = NoOp]
Arrives == load.requests > 0 /\ load' = [load EXCEPT !.requests = @ - 1]

Is(r, v) == r = [state |-> "ready", version |-> v]

----------------------------------------------------------------------------
(* The pending previews of a service.                                       *)

Service(k) == IF k \in {"cookie", "clone"} THEN {"cookie", "clone"} ELSE {"export", "restore"}
Pending(K) == {t \in Tokens : preview[t].state = "pending" /\ preview[t].kind \in K}
Dead(k) == {t \in Pending(Service(k)) : preview[t].expired /\ ~preview[t].busy}

\* Nobody hears of a file that cannot be deleted, and nobody tries again.
Delete(sorts) == \E S \in SUBSET sorts : kept' = kept \cup S
DeleteUploads(S) == Delete(IF uploads \cap S = {} THEN {} ELSE {"upload"})

\* A restore that is dropped loses the bundle that was received for it.
Drop(S) ==
  /\ preview' = [t \in Tokens |-> IF t \in S THEN [preview[t] EXCEPT !.state = "gone"] ELSE preview[t]]
  /\ uploads' = uploads \ S /\ DeleteUploads(S)
NoDrop == UNCHANGED <<preview, uploads, kept>>

\* The request ends, and leaves its preview in progress.
Strand(a) == Ends(a) /\ lost' = lost \cup {op[a].token}

NotBusy(t) == preview' = [preview EXCEPT ![t].busy = FALSE]

\* The oldest makes room for a new one, also while it is being committed.
Oldest(k) ==
  LET live == Pending({k}) \ Dead(k) IN
  {t \in live : Cardinality(live) >= MaxPending /\ \A u \in live : t <= u}

Expire(t) ==
  /\ preview[t].state = "pending" /\ ~preview[t].expired
  /\ \A u \in Pending({preview[t].kind}) : u < t => preview[u].expired
  /\ preview' = [preview EXCEPT ![t].expired = TRUE]
  /\ UNCHANGED <<row, storage, owner, files, op, up, ghosts, load>>

----------------------------------------------------------------------------
(* Preview.                                                                 *)

\* A request names a Profile; its row is read, and has to be ready.
Ask(a, k, p, c, next) ==
  /\ At(a, "idle") /\ Arrives /\ k \in load.kinds /\ row[p].state = "ready"
  /\ op' = [op EXCEPT ![a] = [NoOp EXCEPT !.pc = next, !.kind = k, !.of = p, !.control = c, !.seen = row[p]]]
  /\ UNCHANGED <<row, storage, owner, preview, files, up, ghosts>>

PreviewCookieImport(a, p, c) == Ask(a, "cookie", p, c, "register")
PreviewProfileClone(a, p, c) == Ask(a, "clone", p, c, "look")
PreviewExport(a, p, c) == up /\ Ask(a, "export", p, c, "look")

\* The bundle is received into a file.
Upload(a, c) ==
  /\ At(a, "idle") /\ Arrives /\ "restore" \in load.kinds /\ up
  /\ uploads' = uploads \cup {a}
  /\ op' = [op EXCEPT ![a] = [NoOp EXCEPT !.pc = "look", !.kind = "restore", !.control = c]]
  /\ UNCHANGED <<row, storage, owner, preview, plain, artifacts, kept, up, ghosts>>

\* The process lock is another's, or its file unusable.
Look(a) ==
  /\ At(a, "look") /\ op[a].kind # "restore"
  /\ \/ /\ owner[op[a].of] = None /\ owner' = [owner EXCEPT ![op[a].of] = a] /\ Goto(a, "fingerprint")
     \/ Ends(a) /\ UNCHANGED owner
  /\ UNCHANGED <<row, storage, preview, files, up, ghosts, load>>

Fingerprint(a) ==
  /\ At(a, "fingerprint")
  /\ owner' = [owner EXCEPT ![op[a].of] = None]
  /\ \/ op' = [op EXCEPT ![a].pc = "register", ![a].content = disk[op[a].of].content]
     \/ Ends(a)
  /\ UNCHANGED <<row, storage, preview, files, up, ghosts, load>>

\* Any content may have been bundled, on this computer or another.
InspectUpload(a) ==
  /\ At(a, "look") /\ op[a].kind = "restore"
  /\ \/ op' = [op EXCEPT ![a].pc = "register", ![a].content = stamp] /\ UNCHANGED uploads /\ Delete({"plain"})
     \/ Ends(a) /\ uploads' = uploads \ {a} /\ Delete({"upload", "plain"})
  /\ UNCHANGED <<row, storage, owner, preview, plain, artifacts, up, ghosts, load>>

\* A new preview enters its table, and is answered.
Put(a, k) ==
  LET gone == Dead(k) \cup Oldest(k)
      t == 1 + Cardinality({u \in Tokens : preview[u].state # "unused"})
      new == [NoPreview EXCEPT !.state = "pending", !.kind = k, !.control = op[a].control, !.of = op[a].of,
                               !.version = op[a].seen.version, !.content = op[a].content]
  IN
  /\ At(a, "register") /\ op[a].kind = k /\ t \in Tokens /\ Ends(a)
  /\ preview' = [u \in Tokens |-> IF u = t THEN new
                                  ELSE IF u \in gone THEN [preview[u] EXCEPT !.state = "gone"] ELSE preview[u]]
  /\ uploads' = IF k = "restore" THEN (uploads \ (gone \cup {a})) \cup {t} ELSE uploads \ gone
  /\ DeleteUploads(gone)
  /\ UNCHANGED <<row, storage, owner, plain, artifacts, up, ghosts, load>>

RegisterImport(a) == Put(a, "cookie")
RegisterClone(a) == Put(a, "clone")
RegisterExport(a) == Put(a, "export")
RegisterRestore(a) == Put(a, "restore")

\* Only the control session that asked for a preview, and nobody who commits it, may drop it.
CancelPreview(t, c, k) ==
  LET p == preview[t]
      ours == t \in Pending(Kinds) \ Dead(k) /\ ~p.busy /\ p.control = c
  IN
  /\ p.kind = k /\ Arrives
  /\ Drop(Dead(k) \cup (IF ours THEN {t} ELSE {}))
  /\ cancelled' = IF ours THEN cancelled \cup {t} ELSE cancelled
  /\ UNCHANGED <<row, storage, owner, plain, artifacts, op, up, lost, commits>>

CancelCookieImport(t, c) == CancelPreview(t, c, "cookie")
CancelProfileClone(t, c) == CancelPreview(t, c, "clone")
CancelExport(t, c) == CancelPreview(t, c, "export")
CancelRestore(t, c) == CancelPreview(t, c, "restore")

----------------------------------------------------------------------------
(* Commit.                                                                  *)

\* A clone or an export has read the row before the service's lock is taken.
Use(a, t, c, k, seen) ==
  /\ At(a, "idle") /\ Arrives /\ preview[t].kind = k
  /\ op' = [op EXCEPT ![a] = [NoOp EXCEPT !.pc = "claim", !.kind = k, !.control = c, !.token = t,
                                          !.of = preview[t].of, !.seen = seen]]
  /\ UNCHANGED <<row, storage, owner, preview, files, up, ghosts>>

CommitCookieImport(a, t, c) == Use(a, t, c, "cookie", NoRow)
CommitProfileClone(a, t, c) == Use(a, t, c, "clone", row[preview[t].of])
ExportBundle(a, t, c) == up /\ Use(a, t, c, "export", row[preview[t].of])
RestoreBundle(a, t, c) == up /\ Use(a, t, c, "restore", NoRow)

MUT_Claim(a) ==  \* a preview that is being committed is committed again
  LET t == op[a].token  p == preview[t]  k == op[a].kind
      ours == t \in Pending(Kinds) \ Dead(k) /\ p.control = op[a].control
  IN
  /\ At(a, "claim")
  /\ IF p.state = "pending" /\ p.expired THEN Drop({t}) /\ Ends(a)
     ELSE IF ours THEN /\ preview' = [preview EXCEPT ![t].busy = TRUE]
                       /\ Goto(a, IF k = "restore" THEN "target" ELSE "check") /\ UNCHANGED <<uploads, kept>>
     ELSE Drop(Dead(k)) /\ Ends(a)
  /\ UNCHANGED <<row, storage, owner, plain, artifacts, up, ghosts, load>>

\* An expired preview is removed even while another request commits it. An
\* import reads the row here, which may fail.
Claim(a) ==
  LET t == op[a].token  p == preview[t]  k == op[a].kind
      ours == t \in Pending(Kinds) \ Dead(k) /\ ~p.busy /\ p.control = op[a].control
  IN
  /\ At(a, "claim")
  /\ IF p.state = "pending" /\ p.expired THEN Drop({t}) /\ Ends(a)
     ELSE \/ /\ ours
             /\ preview' = [u \in Tokens |-> IF u \in Dead(k) THEN [preview[u] EXCEPT !.state = "gone"]
                                             ELSE [preview[u] EXCEPT !.busy = @ \/ u = t]]
             /\ uploads' = uploads \ Dead(k) /\ DeleteUploads(Dead(k))
             /\ Goto(a, IF k = "restore" THEN "target" ELSE "check")
          \/ (~ours \/ k = "cookie") /\ Drop(Dead(k)) /\ Ends(a)
  /\ UNCHANGED <<row, storage, owner, plain, artifacts, up, ghosts, load>>

\* A cookie import reads the row only now, and has no answer to an error there.
Check(a) ==
  LET k == op[a].kind
      r == IF k = "cookie" THEN row[op[a].of] ELSE op[a].seen
      fits == Is(r, preview[op[a].token].version)
  IN
  /\ At(a, "check")
  /\ \/ fits /\ Goto(a, "lock") /\ UNCHANGED <<preview, lost>>
     \/ ~fits /\ NotBusy(op[a].token) /\ Ends(a) /\ UNCHANGED lost
     \/ k = "cookie" /\ Strand(a) /\ UNCHANGED preview
  /\ UNCHANGED <<row, storage, owner, files, up, commits, cancelled, load>>

\* An import gives its preview up here. The lock is another's, or its file
\* unusable, to which an export has no answer.
Lock(a) ==
  LET t == op[a].token  p == op[a].of  k == op[a].kind IN
  /\ At(a, "lock")
  /\ \/ /\ owner[p] = None /\ owner' = [owner EXCEPT ![p] = a] /\ UNCHANGED lost
        /\ IF k = "cookie" THEN Drop({t}) /\ Goto(a, "import") ELSE Goto(a, "compare") /\ NoDrop
     \/ /\ k # "export" \/ owner[p] # None
        /\ NotBusy(t) /\ Ends(a) /\ UNCHANGED <<owner, uploads, kept, lost>>
     \/ k = "export" /\ Strand(a) /\ NoDrop /\ UNCHANGED owner
  /\ UNCHANGED <<row, storage, plain, artifacts, up, commits, cancelled, load>>

\* The maintenance browser writes all cookies, or some and fails, or does not start.
Import(a) ==
  LET p == op[a].of IN
  /\ At(a, "import")
  /\ \/ /\ stamp < MaxContent /\ stamp' = stamp + 1 /\ disk' = [disk EXCEPT ![p].content = stamp + 1]
        /\ commits' = [commits EXCEPT ![op[a].token] = @ + 1]
        /\ (Goto(a, "mark") \/ Goto(a, "unlock"))
     \/ Goto(a, "unlock") /\ UNCHANGED <<storage, commits>>
  /\ UNCHANGED <<row, owner, preview, files, up, lost, cancelled, load>>

\* The row names the import, unless the Profile is not ready any more.
MarkBootstrapSource(p) ==
  row' = IF row[p].state = "ready" THEN [row EXCEPT ![p].version = @ + 1] ELSE row

Mark(a) ==
  /\ At(a, "mark") /\ Goto(a, "unlock") /\ MarkBootstrapSource(op[a].of)
  /\ UNCHANGED <<storage, owner, preview, files, up, ghosts, load>>

MUT_Compare(a) ==  \* the fingerprint is not compared
  /\ At(a, "compare")
  /\ Goto(a, IF op[a].kind = "clone" THEN "target" ELSE "manifest")
  /\ UNCHANGED <<row, storage, owner, preview, files, up, ghosts, load>>

Compare(a) ==
  LET t == op[a].token IN
  /\ At(a, "compare")
  /\ \/ IF disk[op[a].of].content = preview[t].content
        THEN Goto(a, IF op[a].kind = "clone" THEN "target" ELSE "manifest") /\ NoDrop
        ELSE Drop({t}) /\ Goto(a, "unlock")
     \/ Goto(a, "fail") /\ NoDrop
  /\ UNCHANGED <<row, storage, owner, plain, artifacts, up, ghosts, load>>

\* The target is a fresh id; locking it creates its directories.
Draw(a, i) ==
  /\ At(a, "target") /\ row[i].state = "none" /\ disk[i].dir = "absent" /\ i \notin lost
  /\ \A b \in Threads : op[b].target # i
  /\ disk' = [disk EXCEPT ![i].dir = "empty"]
  /\ \/ /\ owner' = [owner EXCEPT ![i] = a]
        /\ op' = [op EXCEPT ![a].pc = IF op[a].kind = "clone" THEN "copy" ELSE "decrypt", ![a].target = i]
     \/ op' = [op EXCEPT ![a].pc = "fail", ![a].target = i] /\ UNCHANGED owner
  /\ UNCHANGED <<row, stamp, preview, files, up, ghosts, load>>

\* Without the received bundle, with another header than those this version
\* writes, or with another passphrase, there is no archive.
Unreadable(a) == Goto(a, "fail") /\ UNCHANGED plain

Decrypt(a) ==
  /\ At(a, "decrypt")
  /\ \/ op[a].token \in uploads /\ plain' = plain \cup {a} /\ Goto(a, "inspect")
     \/ Unreadable(a)
  /\ UNCHANGED <<row, storage, owner, preview, uploads, artifacts, kept, up, ghosts, load>>

\* An archive is read back against its manifest before it is unpacked or sealed.
InspectArchive(a) ==
  /\ At(a, "inspect")
  /\ \E next \in {"fail", IF op[a].kind = "export" THEN "seal" ELSE "unpack"} : Goto(a, next)
  /\ UNCHANGED <<row, storage, owner, preview, files, up, ghosts, load>>

\* The storage is put together beside its place and moved there.
Stage(a, c) ==
  /\ \/ disk' = [disk EXCEPT ![op[a].target] = [dir |-> "staged", content |-> c]] /\ Goto(a, "install")
     \/ Goto(a, "fail") /\ UNCHANGED disk
  /\ UNCHANGED <<row, stamp, owner, preview, files, up, ghosts, load>>

\* A clone looks at the source again before it copies it.
Copy(a) ==
  LET c == disk[op[a].of].content IN
  /\ At(a, "copy")
  /\ IF c = preview[op[a].token].content THEN Stage(a, c)
     ELSE Goto(a, "fail") /\ UNCHANGED <<row, storage, owner, preview, files, up, ghosts, load>>

Unpack(a) == At(a, "unpack") /\ Stage(a, preview[op[a].token].content)

Install(a) ==
  /\ At(a, "install")
  /\ \/ disk' = [disk EXCEPT ![op[a].target].dir = "full"] /\ Goto(a, "create")
     \/ Goto(a, "fail") /\ disk' \in {disk, [disk EXCEPT ![op[a].target] = [dir |-> "empty", content |-> 0]]}
  /\ UNCHANGED <<row, stamp, owner, preview, files, up, ghosts, load>>

\* The alias may be taken.
CreateRow(a) ==
  /\ At(a, "create")
  /\ \/ /\ row' = [row EXCEPT ![op[a].target] = [state |-> "ready", version |-> 1]]
        /\ commits' = [commits EXCEPT ![op[a].token] = @ + 1] /\ Goto(a, "finish")
     \/ Goto(a, "fail") /\ UNCHANGED <<row, commits>>
  /\ UNCHANGED <<storage, owner, preview, files, up, lost, cancelled, load>>

Finish(a) ==
  /\ At(a, "finish") /\ Drop({op[a].token}) /\ Goto(a, "unlock")
  /\ UNCHANGED <<row, storage, owner, plain, artifacts, up, ghosts, load>>

\* The manifest lists the files of the storage; their number and size are
\* compared with the preview's, which another content may share.
BuildManifest(a) ==
  LET t == op[a].token IN
  /\ At(a, "manifest")
  /\ \/ (Goto(a, "archive") \/ Goto(a, "fail")) /\ NoDrop
     \/ disk[op[a].of].content # preview[t].content /\ Drop({t}) /\ Goto(a, "unlock")
  /\ UNCHANGED <<row, storage, owner, plain, artifacts, up, ghosts, load>>

Archive(a) ==
  /\ At(a, "archive") /\ plain' = plain \cup {a}
  /\ (Goto(a, "inspect") \/ Goto(a, "fail"))
  /\ UNCHANGED <<row, storage, owner, preview, uploads, artifacts, kept, up, ghosts, load>>

\* The archive as it was read from the storage goes into the encrypted bundle.
Encrypt(a) ==
  /\ artifacts' = artifacts \cup {a}
  /\ op' = [op EXCEPT ![a].pc = "finish", ![a].content = disk[op[a].of].content]

Seal(a) ==
  /\ At(a, "seal") /\ plain' = plain \ {a}
  /\ \/ /\ Encrypt(a) /\ Delete({"plain"})
        /\ commits' = [commits EXCEPT ![op[a].token] = @ + 1]
     \/ Goto(a, "fail") /\ Delete({"plain", "artifact"}) /\ UNCHANGED <<artifacts, commits>>
  /\ UNCHANGED <<row, storage, owner, preview, uploads, up, lost, cancelled, load>>

MUT_Fail(a) ==  \* the preview stays in progress
  /\ At(a, "fail") /\ Goto(a, "unlock")
  /\ UNCHANGED <<row, storage, owner, preview, files, up, ghosts, load>>

Fail(a) ==
  /\ At(a, "fail") /\ NotBusy(op[a].token) /\ Goto(a, "unlock")
  /\ UNCHANGED <<row, storage, owner, files, up, ghosts, load>>

Unlock(a) ==
  LET i == op[a].target IN
  /\ At(a, "unlock")
  /\ owner' = [j \in Ids |-> IF owner[j] = a THEN None ELSE owner[j]]
  /\ plain' = IF op[a].kind \in {"export", "restore"} THEN plain \ {a} ELSE plain
  /\ Delete(IF plain' = plain THEN {} ELSE {"plain"})
  /\ IF i # None /\ row[i].state = "none" THEN Goto(a, "discard")
     ELSE IF op[a].kind = "export" /\ a \in artifacts THEN Goto(a, "serve") ELSE Ends(a)
  /\ UNCHANGED <<row, storage, preview, uploads, artifacts, up, ghosts, load>>

\* Nobody hears of a directory that cannot be removed either.
Discard(a) ==
  LET i == op[a].target IN
  /\ At(a, "discard") /\ Ends(a)
  /\ \/ disk' = [disk EXCEPT ![i] = NoDir] /\ UNCHANGED lost
     \/ lost' = lost \cup {i} /\ UNCHANGED disk
  /\ UNCHANGED <<row, stamp, owner, preview, files, up, commits, cancelled, load>>

\* The response is sent, and the artifact deleted.
Serve(a) ==
  /\ At(a, "serve") /\ Ends(a) /\ artifacts' = artifacts \ {a} /\ Delete({"artifact"})
  /\ UNCHANGED <<row, storage, owner, preview, uploads, plain, up, ghosts, load>>

----------------------------------------------------------------------------
(* The rest of the system.                                                  *)

Edits == load.edits > 0 /\ load' = [load EXCEPT !.edits = @ - 1]

UpdateProfile(p) ==
  /\ Edits
  /\ row' = [row EXCEPT ![p].version = @ + 1]
  /\ UNCHANGED <<storage, owner, preview, files, op, up, ghosts>>

\* Under a mutation lease of its own.
ArchiveOrRestore(p) ==
  /\ Edits /\ owner[p] = None
  /\ row' = [row EXCEPT ![p] = [state |-> IF @.state = "ready" THEN "archived" ELSE "ready",
                                version |-> @.version + 1]]
  /\ UNCHANGED <<storage, owner, preview, files, op, up, ghosts>>

OpenSession(p) ==
  /\ Edits /\ row[p].state = "ready" /\ owner[p] = None /\ owner' = [owner EXCEPT ![p] = "session"]
  /\ UNCHANGED <<row, storage, preview, files, op, up, ghosts>>

CloseSession(p) ==
  /\ owner[p] = "session" /\ owner' = [owner EXCEPT ![p] = None]
  /\ stamp < MaxContent /\ stamp' = stamp + 1 /\ disk' = [disk EXCEPT ![p].content = stamp + 1]
  /\ UNCHANGED <<row, preview, files, op, up, ghosts, load>>

\* The process dies; the operating system frees its locks.
Crash ==
  /\ load.crashes > 0 /\ load' = [load EXCEPT !.crashes = @ - 1]
  /\ op' = [a \in Threads |-> NoOp] /\ owner' = [i \in Ids |-> None] /\ up' = FALSE
  /\ preview' = [t \in Tokens |-> IF preview[t].state = "pending" THEN [preview[t] EXCEPT !.state = "gone"]
                                   ELSE preview[t]]
  /\ lost' = (lost \cup {op[a].target : a \in Threads}) \ {None}
  /\ UNCHANGED <<row, storage, files, commits, cancelled>>

\* Created by the first request that needs it, the bundle service removes
\* what its temporary directory holds, or as much of it as can be deleted.
Sweep ==
  LET sorts == kept \cup (IF uploads = {} THEN {} ELSE {"upload"}) \cup (IF plain = {} THEN {} ELSE {"plain"})
                    \cup (IF artifacts = {} THEN {} ELSE {"artifact"})
  IN  uploads' = {} /\ plain' = {} /\ artifacts' = {} /\ kept' \in SUBSET sorts

CreateService ==
  /\ ~up /\ up' = TRUE /\ Sweep
  /\ UNCHANGED <<row, storage, owner, preview, op, ghosts, load>>

Preview(a, p, c) == PreviewCookieImport(a, p, c) \/ PreviewProfileClone(a, p, c) \/ PreviewExport(a, p, c)

Commit(a, t, c) ==
  \/ CommitCookieImport(a, t, c) \/ CommitProfileClone(a, t, c)
  \/ ExportBundle(a, t, c) \/ RestoreBundle(a, t, c)

Cancel(t, c) ==
  \/ CancelCookieImport(t, c) \/ CancelProfileClone(t, c)
  \/ CancelExport(t, c) \/ CancelRestore(t, c)

Step(a) ==
  \/ Look(a) \/ Fingerprint(a) \/ InspectUpload(a)
  \/ RegisterImport(a) \/ RegisterClone(a) \/ RegisterExport(a) \/ RegisterRestore(a)
  \/ Claim(a) \/ Check(a) \/ Lock(a) \/ Import(a) \/ Mark(a) \/ Compare(a) \/ (\E i \in Targets : Draw(a, i))
  \/ Copy(a) \/ Decrypt(a) \/ InspectArchive(a) \/ Unpack(a) \/ Install(a) \/ CreateRow(a) \/ Finish(a)
  \/ BuildManifest(a) \/ Archive(a) \/ Seal(a) \/ Fail(a) \/ Unlock(a) \/ Discard(a) \/ Serve(a)

Next ==
  \/ \E a \in Threads, c \in Controls :
       \/ \E p \in Profiles : Preview(a, p, c)
       \/ Upload(a, c) \/ \E t \in Tokens : Commit(a, t, c)
  \/ \E a \in Threads : Step(a)
  \/ \E t \in Tokens : Expire(t) \/ \E c \in Controls : Cancel(t, c)
  \/ \E p \in Profiles : UpdateProfile(p) \/ ArchiveOrRestore(p) \/ OpenSession(p) \/ CloseSession(p)
  \/ Crash \/ CreateService

Spec == Init /\ [][Next]_vars

----------------------------------------------------------------------------
(* Properties.                                                              *)

(* Whatever step fails, an operation that is over has left no lock, no preview *)
(* in progress, no temporary file and no directory without a row. It has left  *)
(* the preview in progress only when an import could not read its row or an    *)
(* export could not use the lock's file, a directory only when removing it     *)
(* failed or the process died, and a file only when deleting it failed. (What  *)
(* the process left behind waits for the next bundle service.)                 *)
EndedLeavesNothing ==
  /\ \A i \in Ids : owner[i] \in Threads => op[owner[i]].pc # "idle"
  /\ \A t \in Pending(Kinds) : preview[t].busy => t \in lost \/ \E a \in Threads : op[a].token = t
  /\ up => /\ uploads \subseteq (Pending({"restore"}) \cup {a \in Threads : ~At(a, "idle")})
           /\ plain \cup artifacts \subseteq {a \in Threads : ~At(a, "idle")}
  /\ \A i \in Targets \ lost : disk[i].dir # "absent" /\ row[i].state = "none" =>
       \E a \in Threads : op[a].target = i

(* What was cloned, restored or exported is what the preview showed, complete: *)
(* a Profile is registered only over its whole storage, also when the process  *)
(* dies between the two.                                                       *)
TransferIsPreviewed ==
  /\ \A i \in Targets : row[i].state # "none" => disk[i].dir = "full"
  /\ \A a \in Threads : At(a, "finish") =>
       preview[op[a].token].content =
         IF op[a].kind = "export" THEN op[a].content ELSE disk[op[a].target].content

(* A preview takes effect once at most, and never after it was cancelled.      *)
CommittedOnce == \A t \in Tokens : commits[t] <= IF t \in cancelled THEN 0 ELSE 1

(* Cookies are imported into the Profile that was previewed: ready, and in the *)
(* version the preview is bound to.                                            *)
ImportOnItsVersion ==
  \A a \in Threads : At(a, "import") => Is(row[op[a].of], preview[op[a].token].version)
=============================================================================
