--------------------------- MODULE TransferProofs ---------------------------
(***************************************************************************)
(* Proofs about ProfileTransfer, for any number of threads, Profiles and    *)
(* previews, and for all kinds of transfers at a time.                      *)
(***************************************************************************)
EXTENDS ProfileTransfer, FiniteSetTheorems, TLAPS

Labels == {"idle", "look", "fingerprint", "register", "claim", "check", "lock", "import", "mark", "compare",
           "target", "copy", "decrypt", "inspect", "unpack", "install", "create", "finish", "manifest",
           "archive", "seal", "fail", "unlock", "discard", "serve"}

(* An operation holds the preview it commits, before its effect and until   *)
(* the preview is dropped.                                                  *)
Ahead == {"check", "lock", "import", "compare", "target", "copy", "decrypt", "inspect", "unpack", "install",
          "create", "manifest", "archive", "seal", "fail"}
Holding == Ahead \cup {"finish"}

-----------------------------------------------------------------------------
(* Types.                                                                   *)

RowRecords == [state : {"none", "ready", "archived"}, version : Nat]
Storages == [dir : {"absent", "empty", "staged", "full"}, content : Nat]
Previews == [state : {"unused", "pending", "gone"}, kind : Kinds \cup {None}, control : Controls \cup {None},
             of : Profiles \cup {None}, version : Nat, content : Nat, busy : BOOLEAN, expired : BOOLEAN]
Operations == [pc : Labels, kind : Kinds \cup {None}, control : Controls \cup {None}, token : Tokens \cup {0},
               of : Profiles \cup {None}, target : Targets \cup {None}, seen : RowRecords, content : Nat]

RowsTyped == row \in [Ids -> RowRecords]
DisksTyped == disk \in [Ids -> Storages] /\ stamp \in Nat
OwnersTyped == owner \in [Ids -> Threads \cup {None, "session"}]
PreviewsTyped == preview \in [Tokens -> Previews]
Sorts == {"upload", "plain", "artifact"}
FilesTyped ==
  /\ uploads \subseteq Threads \cup Tokens /\ plain \subseteq Threads /\ artifacts \subseteq Threads
  /\ kept \subseteq Sorts
OpsTyped == op \in [Threads -> Operations]
HistoryTyped ==
  /\ up \in BOOLEAN /\ lost \subseteq Targets \cup Tokens /\ commits \in [Tokens -> Nat] /\ cancelled \subseteq Tokens
  /\ load \in [kinds : SUBSET Kinds, requests : Nat, edits : Nat, crashes : Nat]

(* What the operations at a step have in common.                            *)
Draws == {"copy", "decrypt", "unpack", "install", "create", "discard"}

Fit(o) ==
  /\ o.pc \in {"look", "fingerprint", "register", "claim"} \cup Holding => o.kind \in Kinds
  /\ o.pc \in {"look", "register", "claim"} \cup Holding /\ o.kind # "restore" => o.of \in Profiles
  /\ o.pc \in {"claim"} \cup Holding => o.token \in Tokens
  /\ o.pc \in {"fingerprint", "compare"} => o.kind \in {"clone", "export"} /\ o.of \in Profiles
  /\ o.pc = "look" => o.kind # "cookie"
  /\ o.pc = "mark" => o.of \in Profiles
  /\ o.pc = "import" => o.kind = "cookie"
  /\ o.pc = "copy" => o.kind = "clone"
  /\ o.pc \in {"decrypt", "unpack"} => o.kind = "restore"
  /\ o.pc \in {"manifest", "archive", "seal"} => o.kind = "export"
  /\ o.pc = "inspect" => o.kind \in {"export", "restore"}
  /\ o.pc \in {"target", "install", "create"} => o.kind \in {"clone", "restore"}
  /\ o.pc = "finish" => o.kind \in {"clone", "export", "restore"}
  /\ o.pc \in {"check", "lock"} => o.kind # "restore"
  /\ o.pc \in Draws \/ (o.pc = "finish" /\ o.kind # "export") => o.target \in Targets
  /\ o.pc = "inspect" /\ o.kind = "restore" => o.target # None
  /\ o.target # None =>
       o.kind \in {"clone", "restore"} /\ o.pc \in Draws \cup {"inspect", "finish", "fail", "unlock"}

Fits == \A a \in Threads : Fit(op[a])

(* A commit works on a preview that was made, and is of its kind.           *)
Used == {t \in Tokens : preview[t].state # "unused"}
Drawn == Used = 1..Cardinality(Used)
Bound == /\ \A t \in Used : preview[t].kind \in Kinds /\ (preview[t].kind # "restore" => preview[t].of \in Profiles)
         /\ \A t \in Tokens \ Used : preview[t].kind = None
Known ==
  \A a \in Threads : op[a].pc \in {"claim"} \cup Holding =>
    LET p == preview[op[a].token] IN p.state # "unused" /\ p.kind = op[a].kind /\ p.of = op[a].of

Typed == /\ RowsTyped /\ DisksTyped /\ OwnersTyped /\ PreviewsTyped /\ FilesTyped /\ OpsTyped /\ HistoryTyped
         /\ Fits /\ Drawn /\ Bound /\ Known

TypeOK == RowsTyped /\ DisksTyped /\ OwnersTyped /\ PreviewsTyped /\ FilesTyped /\ OpsTyped /\ HistoryTyped

LEMMA Kept == Kinds = {"cookie", "clone", "export", "restore"} /\ Holding \subseteq Labels /\ 0 \notin Tokens
              /\ Tokens \subseteq Nat /\ IsFiniteSet(Tokens)
  BY TransferAssumption DEF Kinds, Holding, Ahead, Labels

(* An operation goes on, or ends.                                           *)
SameButPc(o, n, p) ==
  /\ n.pc = p /\ n.kind = o.kind /\ n.control = o.control /\ n.token = o.token /\ n.of = o.of
  /\ n.target = o.target /\ n.seen = o.seen /\ n.content = o.content
Others(a) == \A b \in Threads \ {a} : op'[b] = op[b]

LEMMA Goes ==
  ASSUME OpsTyped, NEW a \in Threads, NEW p \in Labels, Goto(a, p)
  PROVE  OpsTyped' /\ SameButPc(op[a], op'[a], p) /\ Others(a)
  BY DEF OpsTyped, Operations, Goto, SameButPc, Others

LEMMA EndsHere ==
  ASSUME OpsTyped, NEW a \in Threads, Ends(a)
  PROVE  OpsTyped' /\ op'[a] = NoOp /\ Others(a)
<1>1. NoOp \in Operations
  BY DEF NoOp, NoRow, Operations, RowRecords, Labels
<1> QED BY <1>1 DEF OpsTyped, Ends, Others

(* The previews: what was shown stays, and what is gone stays gone.         *)
Same(p, q) ==
  /\ q.kind = p.kind /\ q.control = p.control /\ q.of = p.of /\ q.version = p.version /\ q.content = p.content
  /\ q.state = "unused" <=> p.state = "unused"
  /\ p.state = "gone" => q.state = "gone"
Later == \A t \in Tokens : Same(preview[t], preview'[t])

LEMMA Stays == ASSUME PreviewsTyped, preview' = preview PROVE PreviewsTyped' /\ Later
  BY DEF PreviewsTyped, Later, Same

LEMMA Drops ==
  ASSUME PreviewsTyped, NEW S \in SUBSET Tokens, \A t \in S : preview[t].state # "unused", Drop(S)
  PROVE  /\ PreviewsTyped' /\ Later
         /\ \A t \in Tokens : /\ preview'[t].busy = preview[t].busy
                              /\ preview'[t].state = IF t \in S THEN "gone" ELSE preview[t].state
  BY DEF PreviewsTyped, Previews, Drop, Later, Same

LEMMA Frees ==
  ASSUME PreviewsTyped, NEW t \in Tokens, NotBusy(t)
  PROVE  /\ PreviewsTyped' /\ Later /\ ~preview'[t].busy /\ preview'[t].state = preview[t].state
         /\ \A u \in Tokens \ {t} : preview'[u] = preview[u]
  BY DEF PreviewsTyped, Previews, NotBusy, Later, Same

LEMMA Expires ==
  ASSUME PreviewsTyped, NEW t \in Tokens, Expire(t)
  PROVE  /\ PreviewsTyped' /\ Later
         /\ \A u \in Tokens : preview'[u].busy = preview[u].busy /\ preview'[u].state = preview[u].state
  BY DEF PreviewsTyped, Previews, Expire, Later, Same

LEMMA DeadPending == ASSUME NEW k PROVE Dead(k) \subseteq Pending(Kinds) /\ Oldest(k) \subseteq Pending({k})
  BY DEF Dead, Pending, Service, Kinds, Oldest

(* A claim clears away what is dead, and marks one as in progress.          *)
Marks(t, S) ==
  preview' = [u \in Tokens |-> IF u \in S THEN [preview[u] EXCEPT !.state = "gone"]
                               ELSE [preview[u] EXCEPT !.busy = @ \/ u = t]]

LEMMA Claims ==
  ASSUME PreviewsTyped, NEW t \in Tokens, NEW S \in SUBSET Tokens,
         \A u \in S : preview[u].state = "pending", Marks(t, S)
  PROVE  /\ PreviewsTyped' /\ Later
         /\ \A u \in Tokens : /\ preview'[u].state = IF u \in S THEN "gone" ELSE preview[u].state
                              /\ u \notin S => (preview'[u].busy <=> preview[u].busy \/ u = t)
<1>1. \A u \in Tokens : preview[u] \in Previews
  BY DEF PreviewsTyped
<1>2. \A u \in S : preview'[u] = [preview[u] EXCEPT !.state = "gone"]
  BY DEF Marks
<1>3. \A u \in Tokens \ S : preview'[u] = [preview[u] EXCEPT !.busy = @ \/ u = t]
  BY DEF Marks
<1>4. ASSUME NEW u \in S
      PROVE  preview'[u] \in Previews /\ Same(preview[u], preview'[u]) /\ preview'[u].state = "gone"
  <2>1. preview[u] \in Previews /\ preview[u].state = "pending"  BY <1>1
  <2>2. preview'[u] = [preview[u] EXCEPT !.state = "gone"]  BY <1>2
  <2> QED BY <2>1, <2>2 DEF Previews, Same
<1>5. ASSUME NEW u \in Tokens \ S
      PROVE  /\ preview'[u] \in Previews /\ Same(preview[u], preview'[u]) /\ preview'[u].state = preview[u].state
             /\ preview'[u].busy <=> preview[u].busy \/ u = t
  <2> DEFINE b == preview[u].busy \/ u = t
  <2>1. b \in BOOLEAN  OBVIOUS
  <2>2. preview'[u] = [preview[u] EXCEPT !.busy = b]  BY <1>3
  <2>3. preview[u] \in Previews  BY <1>1
  <2> HIDE DEF b
  <2>4. /\ preview'[u] \in Previews /\ Same(preview[u], preview'[u]) /\ preview'[u].state = preview[u].state
        /\ preview'[u].busy = b
    BY <2>1, <2>2, <2>3 DEF Previews, Same
  <2> QED BY <2>4 DEF b
<1>6. PreviewsTyped'
  <2>1. preview' = [u \in Tokens |-> preview'[u]]  BY DEF Marks
  <2>2. \A u \in Tokens : preview'[u] \in Previews  BY <1>4, <1>5
  <2> HIDE DEF Marks
  <2> QED BY <2>1, <2>2 DEF PreviewsTyped
<1>7. Later
  BY <1>4, <1>5 DEF Later
<1> QED BY <1>4, <1>5, <1>6, <1>7

(* A new preview takes the next token, and makes room for itself.           *)
LEMMA Puts ==
  ASSUME Typed, NEW a \in Threads, NEW k \in Kinds, Put(a, k)
  PROVE  \E t \in Tokens, S \in SUBSET Pending(Kinds) :
           /\ t \notin Used /\ Used' = Used \cup {t} /\ PreviewsTyped' /\ Drawn' /\ Bound'
           /\ preview'[t].state = "pending" /\ preview'[t].kind = k /\ ~preview'[t].busy
           /\ \A u \in Used : /\ Same(preview[u], preview'[u]) /\ preview'[u].busy = preview[u].busy
                              /\ preview'[u].state = IF u \in S THEN "gone" ELSE preview[u].state
           /\ uploads' = IF k = "restore" THEN (uploads \ (S \cup {a})) \cup {t} ELSE uploads \ S
<1> DEFINE S == Dead(k) \cup Oldest(k)
           t == 1 + Cardinality(Used)
           new == [NoPreview EXCEPT !.state = "pending", !.kind = k, !.control = op[a].control, !.of = op[a].of,
                                    !.version = op[a].seen.version, !.content = op[a].content]
<1>1. /\ t \in Tokens /\ op[a].pc = "register" /\ op[a].kind = k
      /\ preview' = [u \in Tokens |-> IF u = t THEN new
                       ELSE IF u \in S THEN [preview[u] EXCEPT !.state = "gone"] ELSE preview[u]]
      /\ uploads' = IF k = "restore" THEN (uploads \ (S \cup {a})) \cup {t} ELSE uploads \ S
  BY DEF Put, Used, At
<1>2. /\ new \in Previews /\ new.state = "pending" /\ new.kind = k /\ ~new.busy
      /\ k # "restore" => new.of \in Profiles
  <2>1. op[a] \in Operations /\ Fit(op[a])  BY DEF Typed, OpsTyped, Fits
  <2>2. op[a].seen.version \in Nat  BY <2>1 DEF Operations, RowRecords
  <2> QED BY <1>1, <2>1, <2>2 DEF NoPreview, Operations, Previews, Fit
<1> HIDE DEF new
<1>3. S \subseteq Pending(Kinds) /\ S \subseteq Used
  <2>1. Pending({k}) \subseteq Pending(Kinds)  BY DEF Pending
  <2>2. Pending(Kinds) \subseteq Used  BY DEF Pending, Used
  <2> QED BY <2>1, <2>2, DeadPending
<1> HIDE DEF S
<1>4. IsFiniteSet(Used) /\ Cardinality(Used) \in Nat /\ Used = 1..Cardinality(Used) /\ Used \subseteq Tokens
  <2>1. Used \in SUBSET Tokens  BY DEF Used
  <2> QED BY <2>1, Kept, FS_Subset, FS_CardinalityType DEF Typed, Drawn
<1>5. t \notin Used
  BY <1>4
<1>6. \A u \in Tokens : preview[u] \in Previews
  BY DEF Typed, PreviewsTyped
<1>7. ASSUME NEW u \in Tokens \ {t}
      PROVE  /\ preview'[u] \in Previews /\ preview'[u].busy = preview[u].busy
             /\ preview'[u].state = IF u \in S THEN "gone" ELSE preview[u].state
             /\ Same(preview[u], preview'[u])
  <2>1. CASE u \in S
    <3>1. preview'[u] = [preview[u] EXCEPT !.state = "gone"]  BY <1>1, <2>1
    <3>2. preview[u] \in Previews /\ preview[u].state # "unused"  BY <1>3, <1>6, <2>1 DEF Used
    <3> QED BY <2>1, <3>1, <3>2 DEF Previews, Same
  <2>2. CASE u \notin S
    <3>1. preview'[u] = preview[u]  BY <1>1, <2>2
    <3> QED BY <2>2, <3>1, <1>6 DEF Same
  <2> QED BY <2>1, <2>2
<1>8. preview'[t] = new
  BY <1>1
<1>9. PreviewsTyped'
  <2>1. preview' = [u \in Tokens |-> preview'[u]]  BY <1>1
  <2>2. \A u \in Tokens : preview'[u] \in Previews  BY <1>2, <1>7, <1>8
  <2> QED BY <2>1, <2>2 DEF PreviewsTyped
<1>10. Used' = Used \cup {t}
  <2>1. \A u \in Tokens : u \in Used' <=> u \in Used \cup {t}
    BY <1>1, <1>2, <1>7, <1>8 DEF Used, Same
  <2>2. Used' \subseteq Tokens  BY DEF Used
  <2> QED BY <1>1, <1>4, <2>1, <2>2
<1>11. Drawn'
  <2>1. Cardinality(Used \cup {t}) = Cardinality(Used) + 1
    BY <1>4, <1>5, FS_AddElement
  <2>2. Used \cup {t} = 1..(Cardinality(Used) + 1)
    BY <1>4
  <2>3. Used \cup {t} = 1..Cardinality(Used \cup {t})
    BY <2>1, <2>2
  <2> QED BY <1>10, <2>3 DEF Drawn
<1>12. Bound'
  <2>1. ASSUME NEW u \in Used
        PROVE  preview'[u].kind \in Kinds /\ (preview'[u].kind # "restore" => preview'[u].of \in Profiles)
    BY <1>4, <1>5, <1>7 DEF Typed, Bound, Same
  <2>2. preview'[t].kind \in Kinds /\ (preview'[t].kind # "restore" => preview'[t].of \in Profiles)
    BY <1>2, <1>8
  <2>3. \A u \in Tokens \ Used' : preview'[u].kind = None
    BY <1>7, <1>10 DEF Typed, Bound, Same
  <2> QED BY <1>10, <2>1, <2>2, <2>3 DEF Bound
<1> QED
  <2>1. S \in SUBSET Pending(Kinds)  BY <1>3
  <2> QED BY <1>1, <1>2, <1>4, <1>5, <1>7, <1>8, <1>9, <1>10, <1>11, <1>12, <2>1

(* The operations fit their step, and their previews.                       *)
Ops == OpsTyped /\ PreviewsTyped /\ Fits /\ Drawn /\ Bound /\ Known

LEMMA SameBound ==
  ASSUME Drawn, Bound, Later PROVE Used' = Used /\ Drawn' /\ Bound'
<1>1. Used' = Used
  BY DEF Used, Later, Same
<1>2. \A t \in Used : t \in Tokens
  BY DEF Used
<1> QED BY <1>1, <1>2 DEF Drawn, Bound, Later, Same

LEMMA StepOps ==
  ASSUME Ops, NEW a \in Threads, OpsTyped', PreviewsTyped', Others(a), Later, Fit(op'[a]),
         op'[a].pc \in {"claim"} \cup Holding =>
           LET p == preview[op'[a].token] IN p.state # "unused" /\ p.kind = op'[a].kind /\ p.of = op'[a].of
  PROVE  Ops'
<1>1. Used' = Used /\ Drawn' /\ Bound'
  BY SameBound DEF Ops
<1>2. Fits'
  BY DEF Ops, Fits, Others
<1>3. Known'
  <2> SUFFICES ASSUME NEW b \in Threads, op'[b].pc \in {"claim"} \cup Holding
               PROVE  LET p == preview'[op'[b].token] IN
                        p.state # "unused" /\ p.kind = op'[b].kind /\ p.of = op'[b].of
    BY DEF Known
  <2>1. op'[b].token \in Tokens
    BY <1>2, Kept DEF Fits, Fit
  <2>2. LET p == preview[op'[b].token] IN
          p.state # "unused" /\ p.kind = op'[b].kind /\ p.of = op'[b].of
    BY DEF Ops, Known, Others
  <2> QED BY <2>1, <2>2 DEF Later, Same
<1> QED BY <1>1, <1>2, <1>3 DEF Ops

LEMMA GoesOn ==
  ASSUME Ops, NEW a \in Threads, NEW p \in Labels, Goto(a, p), PreviewsTyped', Later, Fit(op'[a]),
         p \in {"claim"} \cup Holding => op[a].pc \in {"claim"} \cup Holding
  PROVE  Ops'
<1>1. OpsTyped' /\ SameButPc(op[a], op'[a], p) /\ Others(a)
  BY Goes DEF Ops
<1> QED BY <1>1, StepOps DEF Ops, Known, SameButPc

LEMMA Stops ==
  ASSUME Ops, NEW a \in Threads, Ends(a), PreviewsTyped', Later
  PROVE  Ops'
<1>1. OpsTyped' /\ op'[a] = NoOp /\ Others(a)
  BY EndsHere DEF Ops
<1>2. NoOp.pc \notin {"claim"} \cup Holding /\ Fit(NoOp)
  BY DEF NoOp, Fit, Holding, Ahead, Draws
<1> QED BY <1>1, <1>2, StepOps

(* Only the operation of a stays the same; the rest of the system.          *)
LEMMA Outside ==
  ASSUME Ops, UNCHANGED op, PreviewsTyped', Later PROVE Ops'
<1>1. Used' = Used /\ Drawn' /\ Bound'
  BY SameBound DEF Ops
<1>2. Fits' /\ OpsTyped'
  BY DEF Ops, Fits, OpsTyped
<1>3. Known'
  <2>1. \A b \in Threads : op[b].pc \in {"claim"} \cup Holding => op[b].token \in Tokens
    BY Kept DEF Ops, Fits, Fit
  <2> QED BY <2>1 DEF Ops, Known, Later, Same
<1> QED BY <1>1, <1>2, <1>3 DEF Ops

-----------------------------------------------------------------------------
(* The steps, and what follows them.                                        *)

Follows(o, p) ==
  \/ o.pc = "look" /\ o.kind # "restore" /\ p = "fingerprint"
  \/ o.pc = "claim" /\ p = IF o.kind = "restore" THEN "target" ELSE "check"
  \/ o.pc = "check" /\ p = "lock"
  \/ o.pc = "lock" /\ p = IF o.kind = "cookie" THEN "import" ELSE "compare"
  \/ o.pc = "import" /\ p \in {"mark", "unlock"}
  \/ o.pc = "compare" /\ p \in {IF o.kind = "clone" THEN "target" ELSE "manifest", "unlock", "fail"}
  \/ o.pc = "decrypt" /\ p \in {"inspect", "fail"}
  \/ o.pc = "inspect" /\ p \in {IF o.kind = "export" THEN "seal" ELSE "unpack", "fail"}
  \/ o.pc \in {"copy", "unpack"} /\ p \in {"install", "fail"}
  \/ o.pc = "install" /\ p \in {"create", "fail"}
  \/ o.pc = "create" /\ p \in {"finish", "fail"}
  \/ o.pc = "manifest" /\ p \in {"archive", "unlock", "fail"}
  \/ o.pc = "archive" /\ p \in {"inspect", "fail"}
  \/ o.pc = "seal" /\ p = "fail"
  \/ o.pc \in {"mark", "finish", "fail"} /\ p = "unlock"
  \/ o.pc = "unlock" /\ p = IF o.target # None THEN "discard" ELSE "serve"

LEMMA Following ==
  ASSUME NEW o \in Operations, Fit(o), NEW n, NEW p, SameButPc(o, n, p), Follows(o, p)
  PROVE  /\ Fit(n) /\ p \in Labels
         /\ p \in {"claim"} \cup Holding => o.pc \in {"claim"} \cup Holding
<1>1. p \in Labels /\ (p \in {"claim"} \cup Holding => o.pc \in {"claim"} \cup Holding)
  BY DEF Follows, Labels, Holding, Ahead
<1> USE DEF Follows, Fit, SameButPc, Holding, Ahead, Draws, Kinds
<1>2. CASE o.pc = "look"  BY <1>1, <1>2
<1>3. CASE o.pc = "claim"  BY <1>1, <1>3
<1>4. CASE o.pc = "check"  BY <1>1, <1>4
<1>5. CASE o.pc = "lock"  BY <1>1, <1>5
<1>6. CASE o.pc = "import"  BY <1>1, <1>6
<1>7. CASE o.pc = "compare"  BY <1>1, <1>7
<1>8. CASE o.pc = "decrypt"  BY <1>1, <1>8, TransferAssumption DEF Operations, Ids
<1>9. CASE o.pc = "inspect"  BY <1>1, <1>9, TransferAssumption DEF Operations, Ids
<1>10. CASE o.pc = "copy"  BY <1>1, <1>10
<1>11. CASE o.pc = "unpack"  BY <1>1, <1>11
<1>12. CASE o.pc = "install"  BY <1>1, <1>12
<1>13. CASE o.pc = "create"  BY <1>1, <1>13
<1>14. CASE o.pc = "manifest"  BY <1>1, <1>14
<1>15. CASE o.pc = "archive"  BY <1>1, <1>15
<1>16. CASE o.pc = "seal"  BY <1>1, <1>16
<1>17. CASE o.pc = "mark"  BY <1>1, <1>17
<1>18. CASE o.pc = "finish"  BY <1>1, <1>18
<1>19. CASE o.pc = "fail"  BY <1>1, <1>19
<1>20. CASE o.pc = "unlock"  BY <1>1, <1>20, TransferAssumption DEF Operations, Ids
<1>21. o.pc \in {"look", "claim", "check", "lock", "import", "compare", "decrypt", "inspect", "copy", "unpack",
                "install", "create", "manifest", "archive", "seal", "mark", "finish", "fail", "unlock"}
  BY DEF Follows
<1> QED BY <1>1, <1>2, <1>3, <1>4, <1>5, <1>6, <1>7, <1>8, <1>9, <1>10, <1>11, <1>12, <1>13, <1>14, <1>15, <1>16, <1>17, <1>18, <1>19, <1>20, <1>21

LEMMA GoesNext ==
  ASSUME Ops, NEW a \in Threads, NEW p, Follows(op[a], p), Goto(a, p), PreviewsTyped', Later
  PROVE  Ops'
<1>1. op[a] \in Operations /\ Fit(op[a])
  BY DEF Ops, OpsTyped, Fits
<1>2. p \in Labels
  BY DEF Follows, Labels
<1>3. SameButPc(op[a], op'[a], p)
  BY <1>2, Goes DEF Ops
<1>4. Fit(op'[a]) /\ (p \in {"claim"} \cup Holding => op[a].pc \in {"claim"} \cup Holding)
  BY <1>1, <1>3, Following
<1> QED BY <1>2, <1>4, GoesOn

-----------------------------------------------------------------------------
(* Type correctness.                                                        *)

LEMMA InitTyped == ASSUME Init PROVE Typed
<1>1. RowsTyped /\ DisksTyped /\ OwnersTyped /\ FilesTyped /\ HistoryTyped
  BY TransferAssumption DEF Init, RowsTyped, RowRecords, DisksTyped, Storages, OwnersTyped, FilesTyped, HistoryTyped,
     NoRow, NoDir, Ids
<1>2. PreviewsTyped /\ OpsTyped
  BY DEF Init, PreviewsTyped, Previews, NoPreview, OpsTyped, Operations, NoOp, NoRow, RowRecords, Labels
<1>3. \A a \in Threads : op[a] = NoOp
  BY DEF Init
<1>4. NoOp.pc \notin {"claim"} \cup Holding /\ Fit(NoOp)
  BY DEF NoOp, Fit, Holding, Ahead, Draws
<1>5. Used = {}
  BY DEF Init, Used, NoPreview
<1>8. \A t \in Tokens : preview[t].kind = None
  BY DEF Init, NoPreview
<1>6. Drawn
  BY <1>5, FS_EmptySet DEF Drawn
<1>7. Fits /\ Bound /\ Known
  BY <1>3, <1>4, <1>5, <1>8 DEF Fits, Bound, Known
<1> QED BY <1>1, <1>2, <1>6, <1>7 DEF Typed

(* A request that comes in.                                                 *)
Begins(a, o) == op' = [op EXCEPT ![a] = o]

LEMMA Arrival ==
  ASSUME Ops, NEW a \in Threads, NEW o \in Operations, Begins(a, o), UNCHANGED preview, Fit(o),
         o.pc \in {"claim"} \cup Holding =>
           LET p == preview[o.token] IN p.state # "unused" /\ p.kind = o.kind /\ p.of = o.of
  PROVE  Ops' /\ op'[a] = o /\ Others(a)
<1>1. OpsTyped' /\ op'[a] = o /\ Others(a)
  BY DEF Ops, OpsTyped, Begins, Others
<1>2. PreviewsTyped' /\ Later
  BY Stays DEF Ops
<1> QED BY <1>1, <1>2, StepOps

LEMMA Asked ==
  ASSUME Ops, RowsTyped, NEW a \in Threads, NEW k \in Kinds \ {"restore"}, NEW p \in Profiles, NEW c \in Controls,
         NEW next \in {"register", "look"}, next = "look" => k # "cookie", Ask(a, k, p, c, next)
  PROVE  \E o \in Operations : /\ Begins(a, o) /\ Fit(o) /\ o.pc = next /\ o.kind = k /\ o.target = None
                              /\ o.pc \notin Holding /\ o.pc # "claim"
<1> DEFINE o == [NoOp EXCEPT !.pc = next, !.kind = k, !.of = p, !.control = c, !.seen = row[p]]
<1>1. row[p] \in RowRecords
  BY DEF RowsTyped, Ids
<1>2. o \in Operations /\ o.pc = next /\ o.kind = k /\ o.of = p /\ o.target = None
  BY <1>1 DEF NoOp, Operations, Labels
<1>3. Begins(a, o)
  BY DEF Ask, Begins
<1> HIDE DEF o
<1>4. o.pc \notin Holding /\ o.pc # "claim"
  BY <1>2 DEF Holding, Ahead
<1>5. Fit(o)
  BY <1>2, <1>4 DEF Fit, Draws
<1> QED BY <1>2, <1>3, <1>4, <1>5

LEMMA Uploaded ==
  ASSUME NEW a \in Threads, NEW c \in Controls, Upload(a, c)
  PROVE  \E o \in Operations : /\ Begins(a, o) /\ Fit(o) /\ o.pc = "look" /\ o.kind = "restore" /\ o.target = None
                              /\ o.pc \notin Holding /\ o.pc # "claim"
<1> DEFINE o == [NoOp EXCEPT !.pc = "look", !.kind = "restore", !.control = c]
<1>1. o \in Operations /\ o.pc = "look" /\ o.kind = "restore" /\ o.target = None
  BY DEF NoOp, NoRow, RowRecords, Operations, Labels, Kinds
<1>2. Begins(a, o)
  BY DEF Upload, Begins
<1> HIDE DEF o
<1>3. o.pc \notin Holding /\ o.pc # "claim"
  BY <1>1 DEF Holding, Ahead
<1>4. Fit(o)
  BY <1>1, <1>3 DEF Fit, Draws, Kinds
<1> QED BY <1>1, <1>2, <1>3, <1>4

LEMMA Committing ==
  ASSUME Ops, RowsTyped, NEW a \in Threads, NEW t \in Tokens, NEW c \in Controls, NEW k \in Kinds, NEW seen,
         preview[t].of \in Profiles \/ k = "restore" => seen \in RowRecords, Use(a, t, c, k, seen)
  PROVE  \E o \in Operations :
           /\ Begins(a, o) /\ Fit(o) /\ o.pc = "claim" /\ o.kind = k /\ o.token = t /\ o.target = None
           /\ o.pc \notin Holding /\ preview[t].state # "unused" /\ preview[t].kind = k /\ preview[t].of = o.of
<1> DEFINE o == [NoOp EXCEPT !.pc = "claim", !.kind = k, !.control = c, !.token = t, !.of = preview[t].of, !.seen = seen]
<1>1. preview[t] \in Previews /\ preview[t].kind = k /\ preview[t].state # "unused"
  BY TransferAssumption DEF Ops, PreviewsTyped, Use, Bound, Used
<1>2. k # "restore" => preview[t].of \in Profiles
  BY <1>1 DEF Ops, Bound, Used
<1>3. seen \in RowRecords
  BY <1>2
<1>4. o \in Operations /\ o.pc = "claim" /\ o.kind = k /\ o.token = t /\ o.of = preview[t].of /\ o.target = None
  BY <1>1, <1>3 DEF NoOp, Operations, Labels, Previews
<1>5. Begins(a, o)
  BY DEF Use, Begins
<1> HIDE DEF o
<1>6. o.pc \notin Holding
  BY <1>4 DEF Holding, Ahead
<1>7. Fit(o)
  BY <1>2, <1>4, <1>6 DEF Fit, Draws
<1> QED BY <1>1, <1>4, <1>5, <1>6, <1>7

(* The steps that set more than where the operation is.                     *)
LEMMA Fingerprinted ==
  ASSUME Ops, DisksTyped, NEW a \in Threads,
         \/ At(a, "fingerprint") /\ op' = [op EXCEPT ![a].pc = "register", ![a].content = disk[op[a].of].content]
         \/ At(a, "look") /\ op[a].kind = "restore" /\ op' = [op EXCEPT ![a].pc = "register", ![a].content = stamp]
  PROVE  \E o \in Operations : /\ Begins(a, o) /\ Fit(o) /\ o.pc = "register" /\ o.kind = op[a].kind
                              /\ o.target = None /\ o.pc \notin Holding /\ o.pc # "claim"
<1>1. op[a] \in Operations /\ Fit(op[a]) /\ op[a].pc \in {"fingerprint", "look"}
  BY DEF Ops, OpsTyped, Fits, At
<1>2. PICK x \in Nat : op' = [op EXCEPT ![a].pc = "register", ![a].content = x]
  <2>1. op[a].pc = "fingerprint" => disk[op[a].of].content \in Nat
    BY <1>1 DEF Fit, DisksTyped, Storages, Ids
  <2> QED BY <2>1 DEF DisksTyped, At
<1> DEFINE o == [op[a] EXCEPT !.pc = "register", !.content = x]
<1>3. o \in Operations /\ o.pc = "register" /\ o.kind = op[a].kind /\ o.of = op[a].of /\ o.target = op[a].target
  BY <1>1 DEF Operations, Labels
<1>4. Begins(a, o)
  BY <1>2 DEF Begins, Ops, OpsTyped, Operations
<1>5. op[a].target = None /\ op[a].kind \in Kinds /\ (op[a].kind # "restore" => op[a].of \in Profiles)
  BY <1>1 DEF Fit, Draws, Holding, Ahead, Kinds
<1> HIDE DEF o
<1>6. o.pc \notin Holding /\ o.pc # "claim"
  BY <1>3 DEF Holding, Ahead
<1>7. Fit(o)
  BY <1>3, <1>5, <1>6 DEF Fit, Draws
<1> QED BY <1>3, <1>4, <1>5, <1>6, <1>7

LEMMA DrawnTarget ==
  ASSUME Ops, NEW a \in Threads, NEW i \in Targets, Draw(a, i)
  PROVE  \E o \in Operations :
           /\ Begins(a, o) /\ Fit(o) /\ o.target = i /\ o.kind = op[a].kind /\ o.token = op[a].token /\ o.of = op[a].of
           /\ o.pc = "fail" \/ (o.pc = (IF op[a].kind = "clone" THEN "copy" ELSE "decrypt") /\ owner' = [owner EXCEPT ![i] = a])
           /\ o.pc = "fail" => UNCHANGED owner
<1>1. op[a] \in Operations /\ Fit(op[a]) /\ op[a].pc = "target"
  BY DEF Ops, OpsTyped, Fits, Draw, At
<1>2. PICK q \in {"fail", IF op[a].kind = "clone" THEN "copy" ELSE "decrypt"} :
        /\ op' = [op EXCEPT ![a].pc = q, ![a].target = i]
        /\ q = "fail" => UNCHANGED owner
        /\ q # "fail" => owner' = [owner EXCEPT ![i] = a]
  BY DEF Draw
<1> DEFINE o == [op[a] EXCEPT !.pc = q, !.target = i]
<1>3. /\ o \in Operations /\ o.pc = q /\ o.kind = op[a].kind /\ o.of = op[a].of /\ o.target = i
      /\ o.token = op[a].token
  BY <1>1 DEF Operations, Labels
<1>4. Begins(a, o)
  BY <1>2 DEF Begins, Ops, OpsTyped, Operations
<1>5. op[a].kind \in {"clone", "restore"} /\ op[a].token \in Tokens /\ (op[a].kind # "restore" => op[a].of \in Profiles)
  BY <1>1 DEF Fit, Holding, Ahead
<1> HIDE DEF o
<1>6. Fit(o)
  <2>1. CASE q = "fail"  BY <1>3, <1>5, <2>1 DEF Fit, Draws, Holding, Ahead, Kinds
  <2>2. CASE q = "copy" /\ op[a].kind = "clone"  BY <1>3, <1>5, <2>2 DEF Fit, Draws, Holding, Ahead, Kinds
  <2>3. CASE q = "decrypt" /\ op[a].kind = "restore"  BY <1>3, <1>5, <2>3 DEF Fit, Draws, Holding, Ahead, Kinds
  <2> QED BY <1>5, <2>1, <2>2, <2>3
<1> QED BY <1>2, <1>3, <1>4, <1>6

LEMMA Sealed ==
  ASSUME Ops, DisksTyped, NEW a \in Threads, At(a, "seal"),
         op' = [op EXCEPT ![a].pc = "finish", ![a].content = disk[op[a].of].content]
  PROVE  \E o \in Operations :
           /\ Begins(a, o) /\ Fit(o) /\ o.pc = "finish" /\ o.kind = "export" /\ o.token = op[a].token
           /\ o.of = op[a].of /\ o.target = None /\ o.content = disk[op[a].of].content /\ op[a].kind = "export"
<1>1. op[a] \in Operations /\ Fit(op[a]) /\ op[a].pc = "seal"
  BY DEF Ops, OpsTyped, Fits, At
<1>2. op[a].kind = "export" /\ op[a].of \in Profiles /\ op[a].token \in Tokens /\ op[a].target = None
  BY <1>1 DEF Fit, Holding, Ahead, Draws
<1>3. disk[op[a].of].content \in Nat
  BY <1>2 DEF DisksTyped, Storages, Ids
<1> DEFINE o == [op[a] EXCEPT !.pc = "finish", !.content = disk[op[a].of].content]
<1>4. /\ o \in Operations /\ o.pc = "finish" /\ o.kind = op[a].kind /\ o.of = op[a].of /\ o.target = op[a].target
      /\ o.token = op[a].token /\ o.content = disk[op[a].of].content
  BY <1>1, <1>3 DEF Operations, Labels
<1>5. Begins(a, o)
  BY DEF Begins, Ops, OpsTyped, Operations
<1> HIDE DEF o
<1>6. Fit(o)
  BY <1>2, <1>4 DEF Fit, Draws, Holding, Ahead, Kinds
<1> QED BY <1>2, <1>4, <1>5, <1>6

(* A preview enters its table.                                              *)
LEMMA PutOps ==
  ASSUME Typed, NEW a \in Threads, NEW k \in Kinds, Put(a, k) PROVE Ops'
<1>1. PICK t \in Tokens, S \in SUBSET Pending(Kinds) :
        /\ t \notin Used /\ Used' = Used \cup {t} /\ PreviewsTyped' /\ Drawn' /\ Bound'
        /\ \A u \in Used : Same(preview[u], preview'[u])
  BY Puts
<1>2. OpsTyped' /\ op'[a] = NoOp /\ Others(a)
  BY EndsHere DEF Put, Typed
<1>3. NoOp.pc \notin {"claim"} \cup Holding /\ Fit(NoOp)
  BY DEF NoOp, Fit, Holding, Ahead, Draws
<1>4. Fits'
  BY <1>2, <1>3 DEF Typed, Fits, Others
<1>5. Known'
  <2> SUFFICES ASSUME NEW b \in Threads, op'[b].pc \in {"claim"} \cup Holding
               PROVE  LET p == preview'[op'[b].token] IN
                        p.state # "unused" /\ p.kind = op'[b].kind /\ p.of = op'[b].of
    BY DEF Known
  <2>1. b # a /\ op'[b] = op[b]
    BY <1>2, <1>3 DEF Others
  <2>2. op[b].token \in Tokens
    BY <2>1, Kept DEF Typed, Fits, Fit
  <2>3. op[b].token \in Used /\ preview[op[b].token].kind = op[b].kind /\ preview[op[b].token].of = op[b].of
    BY <2>1, <2>2 DEF Typed, Known, Used
  <2>4. preview'[op[b].token].state # "unused"
    BY <1>1, <2>3 DEF Used
  <2> QED BY <1>1, <2>1, <2>3, <2>4 DEF Same
<1> QED BY <1>1, <1>2, <1>4, <1>5 DEF Ops

Requests(a) ==
  \E c \in Controls :
    (\E p \in Profiles : Preview(a, p, c)) \/ Upload(a, c) \/ (\E t \in Tokens : Commit(a, t, c))

\* What begins an operation has a step, and no target.
LEMMA Started ==
  ASSUME Ops, RowsTyped, NEW a \in Threads, Requests(a)
  PROVE  /\ op[a].pc = "idle"
         /\ \E o \in Operations :
              /\ Begins(a, o) /\ Fit(o) /\ o.pc \in {"look", "register", "claim"} /\ o.target = None
              /\ o.kind \in {"export", "restore"} => up
              /\ o.pc = "claim" =>
                   LET p == preview[o.token] IN p.state # "unused" /\ p.kind = o.kind /\ p.of = o.of
              /\ uploads' = uploads \/ (uploads' = uploads \cup {a} /\ o.pc = "look" /\ o.kind = "restore")
         /\ UNCHANGED <<row, storage, owner, preview, plain, artifacts, kept, up, ghosts>>
<1>1. PICK c \in Controls :
        (\E p \in Profiles : Preview(a, p, c)) \/ Upload(a, c) \/ (\E t \in Tokens : Commit(a, t, c))
  BY DEF Requests
<1>2. ASSUME NEW p \in Profiles, Preview(a, p, c)
      PROVE  \E k \in {"cookie", "clone", "export"}, next \in {"register", "look"} :
               (next = "look" => k # "cookie") /\ Ask(a, k, p, c, next) /\ (k = "export" => up)
  BY <1>2 DEF Preview, PreviewCookieImport, PreviewProfileClone, PreviewExport
<1>3. ASSUME NEW t \in Tokens, Commit(a, t, c)
      PROVE  \E k \in Kinds : \E seen :
               /\ preview[t].of \in Profiles \/ k = "restore" => seen \in RowRecords
               /\ Use(a, t, c, k, seen) /\ (k \in {"export", "restore"} => up)
  <2>1. NoRow \in RowRecords
    BY DEF NoRow, RowRecords
  <2>2. preview[t].of \in Profiles => row[preview[t].of] \in RowRecords
    BY DEF RowsTyped, Ids
  <2>3. CASE CommitCookieImport(a, t, c)  BY <2>1, <2>3, Kept DEF CommitCookieImport
  <2>4. CASE CommitProfileClone(a, t, c)  BY <2>2, <2>4, Kept DEF CommitProfileClone
  <2>5. CASE ExportBundle(a, t, c)  BY <2>2, <2>5, Kept DEF ExportBundle
  <2>6. CASE RestoreBundle(a, t, c)  BY <2>1, <2>6, Kept DEF RestoreBundle
  <2> QED BY <1>3, <2>3, <2>4, <2>5, <2>6 DEF Commit
<1>4. CASE \E p \in Profiles : Preview(a, p, c)
  <2>1. PICK p \in Profiles, k \in {"cookie", "clone", "export"}, next \in {"register", "look"} :
          (next = "look" => k # "cookie") /\ Ask(a, k, p, c, next) /\ (k = "export" => up)
    BY <1>2, <1>4
  <2>2. k \in Kinds \ {"restore"}  BY Kept
  <2>3. PICK o \in Operations : /\ Begins(a, o) /\ Fit(o) /\ o.pc = next /\ o.kind = k /\ o.target = None
                              /\ o.pc \notin Holding /\ o.pc # "claim"
    BY <2>1, <2>2, Asked
  <2> QED BY <2>1, <2>3 DEF Ask, At, files
<1>5. CASE Upload(a, c)
  <2>1. PICK o \in Operations : /\ Begins(a, o) /\ Fit(o) /\ o.pc = "look" /\ o.kind = "restore" /\ o.target = None
    BY <1>5, Uploaded
  <2> QED BY <1>5, <2>1 DEF Upload, At
<1>6. CASE \E t \in Tokens : Commit(a, t, c)
  <2>1. PICK t \in Tokens : Commit(a, t, c)  BY <1>6
  <2>3. PICK k \in Kinds : \E seen :
               /\ preview[t].of \in Profiles \/ k = "restore" => seen \in RowRecords
               /\ Use(a, t, c, k, seen) /\ (k \in {"export", "restore"} => up)
    BY <1>3, <2>1
  <2>4. PICK seen :
               /\ preview[t].of \in Profiles \/ k = "restore" => seen \in RowRecords
               /\ Use(a, t, c, k, seen) /\ (k \in {"export", "restore"} => up)
    BY <2>3
  <2>2. PICK o \in Operations :
           /\ Begins(a, o) /\ Fit(o) /\ o.pc = "claim" /\ o.kind = k /\ o.token = t /\ o.target = None
           /\ o.pc \notin Holding /\ preview[t].state # "unused" /\ preview[t].kind = k /\ preview[t].of = o.of
    BY <2>4, Committing
  <2> QED BY <2>2, <2>4 DEF Use, At, files
<1> QED BY <1>1, <1>4, <1>5, <1>6

LEMMA RequestsOps ==
  ASSUME Ops, RowsTyped, NEW a \in Threads, Requests(a) PROVE Ops'
<1>1. PICK o \in Operations :
        /\ Begins(a, o) /\ Fit(o) /\ o.pc \in {"look", "register", "claim"}
        /\ o.pc = "claim" =>
             LET p == preview[o.token] IN p.state # "unused" /\ p.kind = o.kind /\ p.of = o.of
  BY Started
<1>2. UNCHANGED preview
  BY Started
<1>3. o.pc \in {"claim"} \cup Holding => o.pc = "claim"
  BY <1>1 DEF Holding, Ahead
<1> QED BY <1>1, <1>2, <1>3, Arrival

LEMMA StepsOps ==
  ASSUME Typed, NEW a \in Threads, Step(a) PROVE Ops'
<1> Ops /\ DisksTyped
  BY DEF Ops, Typed
<1>1. op[a] \in Operations /\ Fit(op[a]) /\ PreviewsTyped
  BY DEF Ops, OpsTyped, Fits
<1>2. ASSUME NEW p, Follows(op[a], p), Goto(a, p), UNCHANGED preview PROVE Ops'
  BY <1>1, <1>2, Stays, GoesNext
<1>3. ASSUME Ends(a), UNCHANGED preview PROVE Ops'
  BY <1>1, <1>3, Stays, Stops
<1>4. ASSUME op[a].pc \in Holding PROVE op[a].token \in Tokens /\ preview[op[a].token].state # "unused"
  BY <1>1, <1>4 DEF Fit, Ops, Known
<1>5. ASSUME NEW o \in Operations, Begins(a, o), UNCHANGED preview, Fit(o),
             o.pc \in {"claim"} \cup Holding =>
               op[a].pc \in Holding /\ o.token = op[a].token /\ o.of = op[a].of /\ o.kind = op[a].kind
      PROVE  Ops'
  BY <1>5, Arrival DEF Ops, Known
<1>6. ASSUME NotBusy(op[a].token), op[a].pc \in Holding PROVE PreviewsTyped' /\ Later
  BY <1>1, <1>4, <1>6, Frees
<1>7. ASSUME Drop({op[a].token}), op[a].pc \in Holding PROVE PreviewsTyped' /\ Later
  <2>1. {op[a].token} \in SUBSET Tokens /\ \A t \in {op[a].token} : preview[t].state # "unused"
    BY <1>4, <1>7
  <2> QED BY <1>1, <1>7, <2>1, Drops
<1>8. ASSUME Ends(a), PreviewsTyped', Later PROVE Ops'
  BY <1>8, Stops
<1>9. ASSUME NEW p, Follows(op[a], p), Goto(a, p), PreviewsTyped', Later PROVE Ops'
  BY <1>9, GoesNext
<1>11. CASE Look(a)  BY <1>11, <1>2, <1>3 DEF Look, Follows, At
<1>12. CASE Fingerprint(a)
  <2>1. CASE Ends(a)  BY <1>12, <2>1, <1>3 DEF Fingerprint
  <2>2. CASE op' = [op EXCEPT ![a].pc = "register", ![a].content = disk[op[a].of].content]
    <3>1. PICK o \in Operations : Begins(a, o) /\ Fit(o) /\ o.pc \notin Holding /\ o.pc # "claim"
      BY <1>12, <2>2, Fingerprinted DEF Fingerprint
    <3> QED BY <1>12, <3>1, <1>5 DEF Fingerprint
  <2> QED BY <1>12, <2>1, <2>2 DEF Fingerprint
<1>13. CASE InspectUpload(a)
  <2>1. CASE Ends(a)  BY <1>13, <2>1, <1>3 DEF InspectUpload
  <2>2. CASE op' = [op EXCEPT ![a].pc = "register", ![a].content = stamp]
    <3>1. PICK o \in Operations : Begins(a, o) /\ Fit(o) /\ o.pc \notin Holding /\ o.pc # "claim"
      BY <1>13, <2>2, Fingerprinted DEF InspectUpload
    <3> QED BY <1>13, <3>1, <1>5 DEF InspectUpload
  <2> QED BY <1>13, <2>1, <2>2 DEF InspectUpload
<1>14. CASE RegisterImport(a) \/ RegisterClone(a) \/ RegisterExport(a) \/ RegisterRestore(a)
  BY <1>14, Kept, PutOps DEF RegisterImport, RegisterClone, RegisterExport, RegisterRestore
<1>15. CASE Claim(a)
  <2> DEFINE t == op[a].token  k == op[a].kind
  <2>1. op[a].pc = "claim" /\ t \in Tokens /\ preview[t].state # "unused"
    BY <1>1, <1>15 DEF Claim, At, Fit, Ops, Known
  <2>2. Dead(k) \in SUBSET Tokens /\ \A u \in Dead(k) : preview[u].state = "pending"
    BY DEF Dead, Pending
  <2>3. CASE Ends(a) /\ Drop({t})
    <3>1. {t} \in SUBSET Tokens /\ \A u \in {t} : preview[u].state # "unused"
      BY <2>1
    <3> HIDE DEF t
    <3> QED BY <1>1, <1>8, <2>3, <3>1, Drops
  <2>4. CASE Ends(a) /\ Drop(Dead(k))
    <3>1. \A u \in Dead(k) : preview[u].state # "unused"
      BY <2>2
    <3> HIDE DEF k
    <3> QED BY <1>1, <1>8, <2>2, <2>4, <3>1, Drops
  <2>5. CASE Marks(t, Dead(k)) /\ Goto(a, IF k = "restore" THEN "target" ELSE "check")
    <3>1. Follows(op[a], IF k = "restore" THEN "target" ELSE "check")
      BY <2>1 DEF Follows
    <3>2. PreviewsTyped' /\ Later
      <4> HIDE DEF t, k
      <4> QED BY <1>1, <2>1, <2>2, <2>5, Claims
    <3> QED BY <2>5, <3>1, <3>2, <1>9
  <2> QED BY <1>15, <2>3, <2>4, <2>5 DEF Claim, Marks
<1>16. CASE Check(a)
  <2>1. op[a].pc = "check" /\ op[a].pc \in Holding  BY <1>16 DEF Check, At, Holding, Ahead
  <2>2. CASE Goto(a, "lock") /\ UNCHANGED preview  BY <2>1, <2>2, <1>2 DEF Follows
  <2>3. CASE NotBusy(op[a].token) /\ Ends(a)  BY <2>1, <2>3, <1>6, <1>8
  <2>4. CASE Strand(a) /\ UNCHANGED preview  BY <2>4, <1>3 DEF Strand
  <2> QED BY <1>16, <2>2, <2>3, <2>4 DEF Check
<1>17. CASE Lock(a)
  <2>1. op[a].pc = "lock" /\ op[a].pc \in Holding  BY <1>17 DEF Lock, At, Holding, Ahead
  <2>2. CASE op[a].kind = "cookie" /\ Drop({op[a].token}) /\ Goto(a, "import")
    BY <2>1, <2>2, <1>7, <1>9 DEF Follows
  <2>3. CASE op[a].kind # "cookie" /\ Goto(a, "compare") /\ UNCHANGED preview
    BY <2>1, <2>3, <1>2 DEF Follows
  <2>4. CASE NotBusy(op[a].token) /\ Ends(a)  BY <2>1, <2>4, <1>6, <1>8
  <2>5. CASE UNCHANGED preview /\ Ends(a)  BY <2>5, <1>3
  <2> QED BY <1>17, <2>2, <2>3, <2>4, <2>5 DEF Lock, NoDrop, Strand
<1>18. CASE Import(a) \/ Mark(a)  BY <1>18, <1>2 DEF Import, Mark, Follows, At, MarkBootstrapSource
<1>19. CASE Compare(a) \/ BuildManifest(a)
  <2>1. op[a].pc \in {"compare", "manifest"} /\ op[a].pc \in Holding
    BY <1>19 DEF Compare, BuildManifest, At, Holding, Ahead
  <2>2. CASE Drop({op[a].token}) /\ Goto(a, "unlock")
    BY <2>1, <2>2, <1>7, <1>9 DEF Follows
  <2>3. CASE /\ op[a].pc = "compare" /\ UNCHANGED preview
             /\ Goto(a, IF op[a].kind = "clone" THEN "target" ELSE "manifest") \/ Goto(a, "fail")
    BY <2>1, <2>3, <1>2 DEF Follows
  <2>4. CASE op[a].pc = "manifest" /\ UNCHANGED preview /\ (Goto(a, "archive") \/ Goto(a, "fail"))
    BY <2>1, <2>4, <1>2 DEF Follows
  <2> QED BY <1>19, <2>2, <2>3, <2>4 DEF Compare, BuildManifest, At, NoDrop
<1>20. CASE \E i \in Targets : Draw(a, i)
  <2>1. PICK i \in Targets : Draw(a, i)  BY <1>20
  <2>2. op[a].pc \in Holding  BY <2>1 DEF Draw, At, Holding, Ahead
  <2>3. PICK o \in Operations : Begins(a, o) /\ Fit(o) /\ o.kind = op[a].kind /\ o.token = op[a].token /\ o.of = op[a].of
    BY <2>1, DrawnTarget
  <2> QED BY <2>1, <2>2, <2>3, <1>5 DEF Draw
<1>21. CASE Copy(a) \/ Unpack(a)  BY <1>21, <1>2 DEF Copy, Unpack, Stage, Follows, At
<1>22. CASE Decrypt(a) \/ Install(a)  BY <1>22, <1>2 DEF Decrypt, Install, Follows, At, Unreadable
<1>23. CASE InspectArchive(a)  BY <1>23, <1>2 DEF InspectArchive, Follows, At
<1>24. CASE CreateRow(a) \/ Archive(a)  BY <1>24, <1>2 DEF CreateRow, Archive, Follows, At
<1>25. CASE Finish(a)
  <2>1. op[a].pc = "finish" /\ op[a].pc \in Holding  BY <1>25 DEF Finish, At, Holding
  <2> QED BY <1>25, <2>1, <1>7, <1>9 DEF Finish, Follows
<1>26. CASE Seal(a)
  <2>1. CASE Goto(a, "fail")  BY <1>26, <2>1, <1>2 DEF Seal, Follows, At, Encrypt
  <2>2. CASE op' = [op EXCEPT ![a].pc = "finish", ![a].content = disk[op[a].of].content]
    <3>1. PICK o \in Operations :
            Begins(a, o) /\ Fit(o) /\ o.kind = "export" /\ o.token = op[a].token /\ o.of = op[a].of /\ op[a].kind = "export"
      BY <1>26, <2>2, Sealed DEF Seal, Encrypt
    <3>2. op[a].pc \in Holding  BY <1>26 DEF Seal, At, Holding, Ahead, Encrypt
    <3> QED BY <1>26, <3>1, <3>2, <1>5 DEF Seal, Encrypt
  <2> QED BY <1>26, <2>1, <2>2 DEF Seal, Encrypt
<1>27. CASE Fail(a)
  <2>1. op[a].pc = "fail" /\ op[a].pc \in Holding  BY <1>27 DEF Fail, At, Holding, Ahead
  <2> QED BY <1>27, <2>1, <1>6, <1>9 DEF Fail, Follows
<1>28. CASE Unlock(a)
  <2>1. CASE Ends(a)  BY <1>28, <2>1, <1>3 DEF Unlock
  <2>2. CASE op[a].target # None /\ Goto(a, "discard")  BY <1>28, <2>2, <1>2 DEF Unlock, Follows, At
  <2>3. CASE op[a].kind = "export" /\ Goto(a, "serve")
    <3>1. op[a].target = None  BY <1>1, <2>3 DEF Fit
    <3> QED BY <1>28, <2>3, <3>1, <1>2 DEF Unlock, Follows, At
  <2> QED BY <1>28, <2>1, <2>2, <2>3 DEF Unlock
<1>29. CASE Discard(a) \/ Serve(a)  BY <1>29, <1>3 DEF Discard, Serve
<1> QED
  BY <1>11, <1>12, <1>13, <1>14, <1>15, <1>16, <1>17, <1>18, <1>19, <1>20, <1>21, <1>22, <1>23, <1>24, <1>25,
     <1>26, <1>27, <1>28, <1>29 DEF Step

Edit(p) == UpdateProfile(p) \/ ArchiveOrRestore(p) \/ OpenSession(p) \/ CloseSession(p)

(* The process dies: no operation is left.                                  *)
LEMMA CrashOps ==
  ASSUME Ops, Crash
  PROVE  /\ Ops' /\ Later /\ \A a \in Threads : op'[a] = NoOp
         /\ \A t \in Tokens : /\ preview'[t].busy = preview[t].busy
                              /\ preview'[t].state = IF preview[t].state = "pending" THEN "gone" ELSE preview[t].state
<1> DEFINE S == {t \in Tokens : preview[t].state = "pending"}
<1>1. preview' = [t \in Tokens |-> IF t \in S THEN [preview[t] EXCEPT !.state = "gone"] ELSE preview[t]]
  BY DEF Crash
<1>2. /\ PreviewsTyped' /\ Later
      /\ \A t \in Tokens : /\ preview'[t].busy = preview[t].busy
                           /\ preview'[t].state = IF t \in S THEN "gone" ELSE preview[t].state
  BY <1>1 DEF Ops, PreviewsTyped, Previews, Later, Same
<1>3. NoOp \in Operations /\ NoOp.pc \notin {"claim"} \cup Holding /\ Fit(NoOp)
  BY DEF NoOp, NoRow, Operations, RowRecords, Labels, Fit, Holding, Ahead, Draws
<1>4. \A a \in Threads : op'[a] = NoOp
  BY DEF Crash
<1>5. OpsTyped' /\ Fits' /\ Known'
  BY <1>3, <1>4 DEF Crash, OpsTyped, Fits, Known
<1> QED BY <1>2, <1>4, <1>5, SameBound DEF Ops

LEMMA Cancels ==
  ASSUME Ops, NEW t \in Tokens, NEW c \in Controls, Cancel(t, c)
  PROVE  \E S \in SUBSET Tokens :
           /\ Drop(S) /\ \A u \in S : preview[u].state = "pending" /\ ~preview[u].busy
           /\ cancelled' = cancelled \/ (cancelled' = cancelled \cup {t} /\ t \in S)
           /\ UNCHANGED <<row, storage, owner, plain, artifacts, op, up, lost, commits>>
<1>1. PICK k \in {"cookie", "clone", "export", "restore"} : CancelPreview(t, c, k)
  BY DEF Cancel, CancelCookieImport, CancelProfileClone, CancelExport, CancelRestore
<1> DEFINE ours == t \in Pending(Kinds) \ Dead(k) /\ ~preview[t].busy /\ preview[t].control = c
           S == Dead(k) \cup (IF ours THEN {t} ELSE {})
<1>2. Drop(S) /\ cancelled' = IF ours THEN cancelled \cup {t} ELSE cancelled
  BY <1>1 DEF CancelPreview
<1>3. \A u \in Dead(k) : u \in Tokens /\ preview[u].state = "pending" /\ ~preview[u].busy
  BY DEF Dead, Pending
<1>4. ours => preview[t].state = "pending"
  BY DEF Pending
<1>5. S \in SUBSET Tokens /\ \A u \in S : preview[u].state = "pending" /\ ~preview[u].busy
  BY <1>3, <1>4
<1>6. UNCHANGED <<row, storage, owner, plain, artifacts, op, up, lost, commits>>
  BY <1>1 DEF CancelPreview
<1>7. cancelled' = cancelled \/ (cancelled' = cancelled \cup {t} /\ t \in S)
  BY <1>2
<1> QED BY <1>2, <1>5, <1>6, <1>7

LEMMA RestOps ==
  ASSUME Ops,
         \/ \E t \in Tokens : Expire(t) \/ \E c \in Controls : Cancel(t, c)
         \/ \E p \in Profiles : Edit(p)
         \/ CreateService
  PROVE  Ops' /\ UNCHANGED op /\ Later
<1>1. CASE \E t \in Tokens : Expire(t)
  <2>1. PICK t \in Tokens : Expire(t)  BY <1>1
  <2>2. PreviewsTyped' /\ Later  BY <2>1, Expires DEF Ops
  <2> QED BY <2>1, <2>2, Outside DEF Expire
<1>2. CASE \E t \in Tokens, c \in Controls : Cancel(t, c)
  <2>1. PICK S \in SUBSET Tokens : Drop(S) /\ (\A u \in S : preview[u].state # "unused") /\ op' = op
    BY <1>2, Cancels
  <2>2. PreviewsTyped' /\ Later  BY <2>1, Drops DEF Ops
  <2> QED BY <2>1, <2>2, Outside
<1>3. CASE (\E p \in Profiles : Edit(p)) \/ CreateService
  <2>1. op' = op /\ preview' = preview
    BY <1>3 DEF Edit, UpdateProfile, ArchiveOrRestore, OpenSession, CloseSession, CreateService, Sweep
  <2>2. PreviewsTyped' /\ Later  BY <2>1, Stays DEF Ops
  <2> QED BY <2>1, <2>2, Outside
<1> QED BY <1>1, <1>2, <1>3

\* The catalog, the storage, the locks, the files and the history.
Rest == RowsTyped /\ DisksTyped /\ OwnersTyped /\ FilesTyped /\ HistoryTyped

LEMMA RequestsRest ==
  ASSUME Rest, Ops, NEW a \in Threads, Requests(a) PROVE Rest'
<1>1. UNCHANGED <<row, storage, owner, preview, plain, artifacts, kept, up, ghosts>>
      /\ (uploads' = uploads \/ uploads' = uploads \cup {a})
  BY Started DEF Rest
<1>2. load' = [load EXCEPT !.requests = @ - 1] /\ load.requests > 0
  BY DEF Requests, Preview, PreviewCookieImport, PreviewProfileClone, PreviewExport, Ask, Upload, Commit,
     CommitCookieImport, CommitProfileClone, ExportBundle, RestoreBundle, Use, Arrives
<1> QED
  BY <1>1, <1>2 DEF Rest, RowsTyped, DisksTyped, OwnersTyped, FilesTyped, HistoryTyped, storage, ghosts

LEMMA StepsRest ==
  ASSUME Rest, Ops, Typed, NEW a \in Threads, Step(a) PROVE Rest'
<1>1. op[a] \in Operations /\ Fit(op[a])
  BY DEF Ops, OpsTyped, Fits
<1> USE DEF Rest, files, storage, ghosts
<1>2. ASSUME UNCHANGED row PROVE RowsTyped'  BY <1>2 DEF RowsTyped
<1>3. ASSUME UNCHANGED storage PROVE DisksTyped'  BY <1>3 DEF DisksTyped
<1>4. ASSUME UNCHANGED owner PROVE OwnersTyped'  BY <1>4 DEF OwnersTyped
<1>5. ASSUME UNCHANGED <<plain, artifacts>>, uploads' \subseteq uploads, kept' = kept \/ kept' \subseteq Sorts
      PROVE  FilesTyped'
  BY <1>5 DEF FilesTyped
<1>6. ASSUME UNCHANGED <<up, ghosts, load>> PROVE HistoryTyped'  BY <1>6 DEF HistoryTyped
<1>33. ASSUME NEW x \in Targets \cup Tokens, lost' = lost \cup {x}, UNCHANGED <<up, commits, cancelled, load>>
       PROVE  HistoryTyped'
  BY <1>33 DEF HistoryTyped
<1>34. ASSUME NEW S \in SUBSET Sorts, Delete(S) PROVE kept' \subseteq Sorts
  BY <1>34 DEF Delete, FilesTyped
<1>35. ASSUME NEW S, DeleteUploads(S) PROVE kept' \subseteq Sorts
  BY <1>35, <1>34 DEF DeleteUploads, Sorts
<1>7. ASSUME NEW S, Drop(S) PROVE uploads' \subseteq uploads /\ kept' \subseteq Sorts
  BY <1>7, <1>35 DEF Drop
<1>8. ASSUME NEW i \in Ids, NEW n \in Threads \cup {None}, owner' = [owner EXCEPT ![i] = n] PROVE OwnersTyped'
  BY <1>8 DEF OwnersTyped
<1>9. ASSUME NEW i \in Ids, NEW r \in Storages, disk' = [disk EXCEPT ![i] = r], UNCHANGED stamp PROVE DisksTyped'
  BY <1>9 DEF DisksTyped
<1>10. ASSUME commits' = [commits EXCEPT ![op[a].token] = @ + 1], UNCHANGED <<up, lost, cancelled, load>>
       PROVE  HistoryTyped'
  <2>1. PICK t : t = op[a].token  OBVIOUS
  <2>2. commits' = [commits EXCEPT ![t] = @ + 1]  BY <1>10, <2>1
  <2>3. commits \in [Tokens -> Nat]  BY DEF HistoryTyped
  <2>4. commits' \in [Tokens -> Nat]
    <3>1. CASE t \in Tokens
      <4>1. commits[t] + 1 \in Nat  BY <2>3, <3>1
      <4> QED BY <2>2, <2>3, <4>1
    <3>2. CASE t \notin Tokens
      <4>1. commits' = commits  BY <2>2, <2>3, <3>2
      <4> QED BY <2>3, <4>1
    <3> QED BY <3>1, <3>2
  <2> QED BY <1>10, <2>4 DEF HistoryTyped
<1>11. CASE Look(a) \/ Fingerprint(a)
  <2>1. op[a].of \in Ids  BY <1>1, <1>11 DEF Look, Fingerprint, At, Fit, Ids
  <2>2. OwnersTyped'  BY <1>11, <2>1, <1>4, <1>8 DEF Look, Fingerprint
  <2> QED BY <1>11, <2>2, <1>2, <1>3, <1>5, <1>6 DEF Look, Fingerprint
<1>12. CASE InspectUpload(a)
  <2>1. kept' \subseteq Sorts  BY <1>12, <1>34 DEF InspectUpload, Sorts
  <2> QED BY <1>12, <2>1, <1>2, <1>3, <1>4, <1>5, <1>6 DEF InspectUpload
<1>13. ASSUME NEW k \in Kinds, Put(a, k) PROVE Rest'
  <2>1. PICK t \in Tokens, S \in SUBSET Pending(Kinds) :
          uploads' = IF k = "restore" THEN (uploads \ (S \cup {a})) \cup {t} ELSE uploads \ S
    BY <1>13, Puts
  <2>3. kept' \subseteq Sorts  BY <1>13, <1>35 DEF Put
  <2>2. FilesTyped'  BY <1>13, <2>1, <2>3 DEF Put, FilesTyped
  <2> QED BY <1>13, <2>2, <1>2, <1>3, <1>4, <1>6 DEF Put
<1>14. CASE RegisterImport(a) \/ RegisterClone(a) \/ RegisterExport(a) \/ RegisterRestore(a)
  BY <1>13, <1>14, Kept DEF RegisterImport, RegisterClone, RegisterExport, RegisterRestore
<1>15. CASE Claim(a)
  <2>1. uploads' \subseteq uploads /\ kept' \subseteq Sorts  BY <1>15, <1>7, <1>35 DEF Claim
  <2> QED BY <1>15, <2>1, <1>2, <1>3, <1>4, <1>5, <1>6 DEF Claim
<1>16. CASE Check(a)
  <2>1. op[a].token \in Tokens  BY <1>1, <1>16 DEF Check, At, Fit, Holding, Ahead
  <2>2. HistoryTyped'  BY <1>16, <2>1, <1>6, <1>33 DEF Check, Strand
  <2> QED BY <1>16, <2>2, <1>2, <1>3, <1>4, <1>5 DEF Check
<1>17. CASE Lock(a)
  <2>1. op[a].of \in Ids  BY <1>1, <1>17 DEF Lock, At, Fit, Ids, Holding, Ahead
  <2>2. OwnersTyped'  BY <1>17, <2>1, <1>4, <1>8 DEF Lock
  <2>3. uploads' \subseteq uploads /\ (kept' = kept \/ kept' \subseteq Sorts)  BY <1>17, <1>7 DEF Lock, NoDrop
  <2>4. op[a].token \in Tokens  BY <1>1, <1>17 DEF Lock, At, Fit, Holding, Ahead
  <2>5. HistoryTyped'  BY <1>17, <2>4, <1>6, <1>33 DEF Lock, Strand
  <2>6. FilesTyped'  BY <1>17, <2>3, <1>5 DEF Lock
  <2> QED BY <1>17, <2>2, <2>5, <2>6, <1>2, <1>3 DEF Lock
<1>18. CASE Import(a)
  <2>1. DisksTyped'  BY <1>18 DEF Import, DisksTyped, Storages
  <2>2. HistoryTyped'  BY <1>18, <1>6, <1>10 DEF Import
  <2> QED BY <1>18, <2>1, <2>2, <1>2, <1>4, <1>5 DEF Import
<1>19. CASE Mark(a)
  <2>1. PICK p \in Profiles : p = op[a].of  BY <1>1, <1>19 DEF Mark, At, Fit, MarkBootstrapSource
  <2>2. UNCHANGED row \/ row' = [row EXCEPT ![p].version = @ + 1]  BY <1>19, <2>1 DEF Mark, MarkBootstrapSource
  <2>3. RowsTyped'  BY <2>2 DEF RowsTyped, RowRecords
  <2> QED BY <1>19, <2>3, <1>3, <1>4, <1>5, <1>6 DEF Mark, MarkBootstrapSource
<1>20. CASE Compare(a) \/ BuildManifest(a)
  <2>1. uploads' \subseteq uploads /\ (kept' = kept \/ kept' \subseteq Sorts)
    BY <1>20, <1>7 DEF Compare, BuildManifest, NoDrop
  <2> QED BY <1>20, <2>1, <1>2, <1>3, <1>4, <1>5, <1>6 DEF Compare, BuildManifest
<1>21. CASE \E i \in Targets : Draw(a, i)
  <2>1. PICK i \in Targets : Draw(a, i)  BY <1>21
  <2>2. OwnersTyped'  BY <2>1, <1>4, <1>8 DEF Draw, Ids
  <2>3. DisksTyped'  BY <2>1 DEF Draw, DisksTyped, Storages
  <2> QED BY <2>1, <2>2, <2>3, <1>2, <1>5, <1>6 DEF Draw
<1>22. CASE Copy(a) \/ Unpack(a)
  <2>4. CASE UNCHANGED <<row, storage, owner, preview, files, up, ghosts, load>>
    BY <2>4, <1>2, <1>3, <1>4, <1>5, <1>6
  <2> SUFFICES ASSUME ~UNCHANGED <<row, storage, owner, preview, files, up, ghosts, load>> PROVE Rest'
    BY <2>4
  <2>1. PICK c \in Nat : Stage(a, c)
    <3>1. Copy(a) => disk[op[a].of].content \in Nat
      BY <1>1 DEF Copy, At, Fit, DisksTyped, Storages, Ids, Holding, Ahead
    <3>2. Unpack(a) => preview[op[a].token].content \in Nat
      BY <1>1 DEF Unpack, At, Fit, Ops, PreviewsTyped, Previews, Holding, Ahead
    <3> QED BY <1>22, <3>1, <3>2 DEF Copy, Unpack
  <2>2. op[a].target \in Ids  BY <1>1, <1>22 DEF Copy, Unpack, At, Fit, Draws, Ids
  <2>3. DisksTyped'
    <3> DEFINE r == [dir |-> "staged", content |-> c]
    <3>1. r \in Storages  BY DEF Storages
    <3>2. UNCHANGED storage \/ (disk' = [disk EXCEPT ![op[a].target] = r] /\ UNCHANGED stamp)
      BY <2>1 DEF Stage
    <3> HIDE DEF r
    <3> QED BY <2>2, <3>1, <3>2, <1>3, <1>9
  <2> QED BY <2>1, <2>3, <1>2, <1>4, <1>5, <1>6 DEF Stage
<1>23. CASE Decrypt(a) \/ Archive(a)
  <2>1. FilesTyped'  BY <1>23 DEF Decrypt, Archive, FilesTyped, Unreadable
  <2> QED BY <1>23, <2>1, <1>2, <1>3, <1>4, <1>6 DEF Decrypt, Archive, Unreadable
<1>24. CASE InspectArchive(a)  BY <1>24, <1>2, <1>3, <1>4, <1>5, <1>6 DEF InspectArchive
<1>25. CASE Install(a)
  <2>1. DisksTyped'  BY <1>25 DEF Install, DisksTyped, Storages
  <2> QED BY <1>25, <2>1, <1>2, <1>4, <1>5, <1>6 DEF Install
<1>26. CASE CreateRow(a)
  <2>1. RowsTyped'  BY <1>26 DEF CreateRow, RowsTyped, RowRecords
  <2>2. HistoryTyped'  BY <1>26, <1>6, <1>10 DEF CreateRow
  <2> QED BY <1>26, <2>1, <2>2, <1>3, <1>4, <1>5 DEF CreateRow
<1>27. CASE Finish(a)  BY <1>27, <1>2, <1>3, <1>4, <1>5, <1>6, <1>7 DEF Finish
<1>28. CASE Seal(a)
  <2>3. kept' \subseteq Sorts  BY <1>28, <1>34 DEF Seal, Sorts
  <2>1. FilesTyped'  BY <1>28, <2>3 DEF Seal, FilesTyped, Encrypt
  <2>2. HistoryTyped'  BY <1>28, <1>6, <1>10 DEF Seal, Encrypt
  <2> QED BY <1>28, <2>1, <2>2, <1>2, <1>3, <1>4 DEF Seal, Encrypt
<1>29. CASE Fail(a)  BY <1>29, <1>2, <1>3, <1>4, <1>5, <1>6 DEF Fail
<1>30. CASE Unlock(a)
  <2>3. kept' \subseteq Sorts  BY <1>30, <1>34 DEF Unlock, Sorts
  <2>1. FilesTyped'  BY <1>30, <2>3 DEF Unlock, FilesTyped
  <2>2. OwnersTyped'  BY <1>30 DEF Unlock, OwnersTyped
  <2> QED BY <1>30, <2>1, <2>2, <1>2, <1>3, <1>6 DEF Unlock
<1>31. CASE Discard(a)
  <2>1. DisksTyped'  BY <1>31 DEF Discard, DisksTyped, Storages, NoDir
  <2>2. op[a].target \in Targets  BY <1>1, <1>31 DEF Discard, At, Fit, Draws
  <2>3. HistoryTyped'  BY <1>31, <2>2, <1>6, <1>33 DEF Discard
  <2> QED BY <1>31, <2>1, <2>3, <1>2, <1>4, <1>5 DEF Discard
<1>32. CASE Serve(a)
  <2>2. kept' \subseteq Sorts  BY <1>32, <1>34 DEF Serve, Sorts
  <2>1. FilesTyped'  BY <1>32, <2>2 DEF Serve, FilesTyped
  <2> QED BY <1>32, <2>1, <1>2, <1>3, <1>4, <1>6 DEF Serve
<1> QED
  BY <1>11, <1>12, <1>14, <1>15, <1>16, <1>17, <1>18, <1>19, <1>20, <1>21, <1>22, <1>23, <1>24, <1>25,
     <1>26, <1>27, <1>28, <1>29, <1>30, <1>31, <1>32 DEF Step

LEMMA OthersRest ==
  ASSUME Rest, Ops,
         \/ \E t \in Tokens : Expire(t) \/ \E c \in Controls : Cancel(t, c)
         \/ \E p \in Profiles : Edit(p)
         \/ Crash \/ CreateService
  PROVE  Rest'
<1> USE DEF Rest, files, storage, ghosts
<1>1. CASE \E t \in Tokens : Expire(t)
  BY <1>1 DEF Expire, RowsTyped, DisksTyped, OwnersTyped, FilesTyped, HistoryTyped
<1>2. CASE \E t \in Tokens, c \in Controls : Cancel(t, c)
  <2>1. PICK t \in Tokens, c \in Controls : Cancel(t, c)  BY <1>2
  <2>2. PICK S \in SUBSET Tokens :
           /\ Drop(S) /\ (cancelled' = cancelled \/ (cancelled' = cancelled \cup {t} /\ t \in S))
           /\ UNCHANGED <<row, storage, owner, plain, artifacts, op, up, lost, commits>>
    BY <2>1, Cancels
  <2>3. load' = [load EXCEPT !.requests = @ - 1] /\ load.requests > 0
    BY <2>1 DEF Cancel, CancelCookieImport, CancelProfileClone, CancelExport, CancelRestore, CancelPreview, Arrives
  <2>4. HistoryTyped'  BY <2>2, <2>3 DEF HistoryTyped
  <2>5. uploads' = uploads \ S  BY <2>2 DEF Drop
  <2>7. plain' = plain /\ artifacts' = artifacts  BY <2>2
  <2>8. kept' \subseteq Sorts  BY <2>2 DEF Drop, DeleteUploads, Delete, FilesTyped, Sorts
  <2>6. FilesTyped'  BY <2>5, <2>7, <2>8 DEF FilesTyped
  <2> QED BY <2>2, <2>4, <2>6 DEF RowsTyped, DisksTyped, OwnersTyped
<1>3. CASE \E p \in Profiles : Edit(p)
  <2>1. PICK p \in Profiles : Edit(p)  BY <1>3
  <2>2. HistoryTyped' /\ FilesTyped'
    BY <2>1 DEF Edit, UpdateProfile, ArchiveOrRestore, OpenSession, CloseSession, Edits, HistoryTyped, FilesTyped
  <2>3. RowsTyped'
    <3>1. row[p] \in RowRecords  BY DEF RowsTyped, Ids
    <3> QED BY <2>1, <3>1 DEF Edit, UpdateProfile, ArchiveOrRestore, OpenSession, CloseSession, RowsTyped, RowRecords
  <2>4. DisksTyped'
    BY <2>1 DEF Edit, UpdateProfile, ArchiveOrRestore, OpenSession, CloseSession, DisksTyped, Storages
  <2>5. OwnersTyped'
    BY <2>1 DEF Edit, UpdateProfile, ArchiveOrRestore, OpenSession, CloseSession, OwnersTyped
  <2> QED BY <2>2, <2>3, <2>4, <2>5
<1>4. CASE Crash
  <2>1. {op[a].target : a \in Threads} \ {None} \subseteq Targets
    BY DEF Ops, OpsTyped, Operations
  <2>2. lost' \subseteq Targets \cup Tokens /\ up' \in BOOLEAN /\ commits' = commits /\ cancelled' = cancelled
    BY <1>4, <2>1 DEF Crash, HistoryTyped
  <2>3. load' = [load EXCEPT !.crashes = @ - 1] /\ load.crashes > 0
    BY <1>4 DEF Crash
  <2>4. HistoryTyped'
    BY <2>2, <2>3 DEF HistoryTyped
  <2> QED BY <1>4, <2>4 DEF Crash, RowsTyped, DisksTyped, OwnersTyped, FilesTyped
<1>5. CASE CreateService
  <2>1. kept' \subseteq Sorts  BY <1>5 DEF CreateService, Sweep, FilesTyped, Sorts
  <2>2. FilesTyped'  BY <1>5, <2>1 DEF CreateService, Sweep, FilesTyped
  <2> QED BY <1>5, <2>2 DEF CreateService, RowsTyped, DisksTyped, OwnersTyped, HistoryTyped, Sweep
<1> QED BY <1>1, <1>2, <1>3, <1>4, <1>5

LEMMA Cases ==
  ASSUME Next
  PROVE  \/ \E a \in Threads : Requests(a) \/ Step(a)
         \/ \E t \in Tokens : Expire(t) \/ \E c \in Controls : Cancel(t, c)
         \/ \E p \in Profiles : Edit(p)
         \/ Crash \/ CreateService
  BY DEF Next, Requests, Edit

LEMMA NextTyped == Typed /\ [Next]_vars => Typed'
<1> SUFFICES ASSUME Typed, [Next]_vars PROVE Typed'
  OBVIOUS
<1>1. Ops /\ Rest
  BY DEF Typed, Ops, Rest
<1>2. ASSUME Ops', Rest' PROVE Typed'
  BY <1>2 DEF Typed, Ops, Rest
<1>3. CASE \E a \in Threads : Requests(a) \/ Step(a)
  BY <1>1, <1>2, <1>3, RequestsOps, RequestsRest, StepsOps, StepsRest DEF Rest
<1>4. CASE \E t \in Tokens : Expire(t) \/ \E c \in Controls : Cancel(t, c)
  BY <1>1, <1>2, <1>4, RestOps, OthersRest
<1>5. CASE (\E p \in Profiles : Edit(p)) \/ CreateService
  BY <1>1, <1>2, <1>5, RestOps, OthersRest
<1>6. CASE Crash
  BY <1>1, <1>2, <1>6, CrashOps, OthersRest
<1>7. CASE UNCHANGED vars
  <2>1. PreviewsTyped' /\ Later  BY <1>1, <1>7, Stays DEF Ops, vars
  <2>2. Ops'  BY <1>1, <1>7, <2>1, Outside DEF vars
  <2>3. Rest'
    BY <1>1, <1>7 DEF vars, storage, files, ghosts, Rest, RowsTyped, DisksTyped, OwnersTyped, FilesTyped, HistoryTyped
  <2> QED BY <1>2, <2>2, <2>3
<1> QED BY <1>3, <1>4, <1>5, <1>6, <1>7, Cases

-----------------------------------------------------------------------------
(* A preview takes effect once.                                             *)

(* Two operations never hold the same preview; one that is held is gone, or *)
(* is marked as in progress. The import of cookies has given it up.         *)
Alone ==
  \A a, b \in Threads : op[a].pc \in Holding /\ op[b].pc \in Holding /\ op[a].token = op[b].token => a = b
Held ==
  \A a \in Threads : op[a].pc \in Holding =>
    LET p == preview[op[a].token] IN p.state = "gone" \/ (p.state = "pending" /\ p.busy /\ op[a].pc # "import")

(* After the effect nobody holds the preview who might have another one; it *)
(* cannot be claimed. One that was cancelled has no effect, and no holder.  *)
Once ==
  \A t \in Tokens :
    /\ commits[t] \in {0, 1}
    /\ commits[t] = 1 =>
         /\ \A a \in Threads : op[a].token = t => op[a].pc \notin Ahead
         /\ preview[t].state = "gone" \/ (preview[t].state = "pending" /\ preview[t].busy)
    /\ t \in cancelled => /\ commits[t] = 0 /\ preview[t].state = "gone"
                          /\ \A a \in Threads : op[a].token = t => op[a].pc \notin Holding

Claimed == Alone /\ Held /\ Once

(* What a step of a does to the previews, unless it claims one.             *)
Continues(a) ==
  op'[a].pc \in Holding =>
    /\ op'[a].token = op[a].token /\ op[a].pc \in Ahead
    /\ op'[a].pc = "import" => preview'[op[a].token].state = "gone"
Releases(a) ==
  \A t \in Tokens : preview[t].state = "pending" /\ preview[t].busy =>
    \/ preview'[t].state = "gone" \/ (preview'[t].state = "pending" /\ preview'[t].busy)
    \/ op[a].token = t /\ op[a].pc \in Ahead /\ op'[a].pc \notin Holding /\ commits' = commits
Effects(a) ==
  \/ commits' = commits
  \/ /\ commits' = [commits EXCEPT ![op[a].token] = @ + 1]
     /\ op[a].pc \in Ahead /\ op'[a].pc \notin Ahead
     /\ op'[a].pc = "finish" \/ preview'[op[a].token].state = "gone"

LEMMA ClaimedOn ==
  ASSUME Typed, Typed', Claimed, NEW a \in Threads, Others(a), Later, Continues(a), Releases(a), Effects(a),
         cancelled' = cancelled
  PROVE  Claimed'
<1>1. \A b \in Threads : op[b].pc \in Holding => op[b].token \in Tokens
  BY DEF Typed, Fits, Fit
<1>2. Ahead \subseteq Holding
  BY DEF Holding
<1>3. \A b \in Threads : op'[b].pc \in Holding => op[b].pc \in Holding /\ op'[b].token = op[b].token
  BY <1>2 DEF Others, Continues
<1>4. Alone'
  BY <1>3 DEF Claimed, Alone
<1>5. Held'
  <2> SUFFICES ASSUME NEW b \in Threads, op'[b].pc \in Holding
               PROVE  LET p == preview'[op'[b].token] IN
                        p.state = "gone" \/ (p.state = "pending" /\ p.busy /\ op'[b].pc # "import")
    BY DEF Held
  <2> DEFINE t == op[b].token
  <2>1. op'[b].token = t /\ op[b].pc \in Holding /\ t \in Tokens
    BY <1>1, <1>3
  <2>2. preview[t].state = "gone" \/ (preview[t].state = "pending" /\ preview[t].busy /\ op[b].pc # "import")
    BY <2>1 DEF Claimed, Held
  <2>3. preview[t].state = "gone" => preview'[t].state = "gone"
    BY <2>1 DEF Later, Same
  <2>4. preview[t].state = "pending" /\ preview[t].busy =>
          preview'[t].state = "gone" \/ (preview'[t].state = "pending" /\ preview'[t].busy)
    <3>1. op[a].token = t /\ op[a].pc \in Ahead /\ op'[a].pc \notin Holding => FALSE
      BY <1>2, <2>1 DEF Claimed, Alone
    <3> QED BY <2>1, <3>1 DEF Releases
  <2>5. op'[b].pc = "import" => preview'[t].state = "gone"
    <3>1. CASE b = a  BY <2>1, <3>1 DEF Continues
    <3>2. CASE b # a  BY <2>2, <2>3, <3>2 DEF Others
    <3> QED BY <3>1, <3>2
  <2> QED BY <2>1, <2>2, <2>3, <2>4, <2>5
<1>6. ASSUME NEW t \in Tokens
      PROVE  /\ commits'[t] \in {0, 1}
             /\ commits'[t] = 1 =>
                  /\ \A b \in Threads : op'[b].token = t => op'[b].pc \notin Ahead
                  /\ preview'[t].state = "gone" \/ (preview'[t].state = "pending" /\ preview'[t].busy)
             /\ t \in cancelled' => /\ commits'[t] = 0 /\ preview'[t].state = "gone"
                                    /\ \A b \in Threads : op'[b].token = t => op'[b].pc \notin Holding
  <2> DEFINE Effect == commits' = [commits EXCEPT ![t] = @ + 1] /\ op[a].token = t /\ commits' # commits
  <2>1. commits \in [Tokens -> Nat]
    BY DEF Typed, HistoryTyped
  <2>2. commits'[t] = commits[t] \/ Effect
    BY <2>1 DEF Effects
  <2>3. /\ commits[t] \in {0, 1}
        /\ commits[t] = 1 =>
             /\ \A b \in Threads : op[b].token = t => op[b].pc \notin Ahead
             /\ preview[t].state = "gone" \/ (preview[t].state = "pending" /\ preview[t].busy)
        /\ t \in cancelled => /\ commits[t] = 0 /\ preview[t].state = "gone"
                              /\ \A b \in Threads : op[b].token = t => op[b].pc \notin Holding
    BY DEF Claimed, Once
  <2>4. preview[t].state = "gone" => preview'[t].state = "gone"
    BY DEF Later, Same
  <2>5. CASE commits'[t] = commits[t]
    <3>1. \A b \in Threads : op'[b].pc \in Ahead => op[b].pc \in Ahead /\ op'[b].token = op[b].token
      BY <1>2 DEF Others, Continues
    <3>2. commits[t] = 1 /\ preview[t].state = "pending" /\ preview[t].busy =>
            preview'[t].state = "gone" \/ (preview'[t].state = "pending" /\ preview'[t].busy)
      BY <2>3 DEF Releases
    <3> QED BY <1>3, <2>3, <2>4, <2>5, <3>1, <3>2
  <2>6. CASE Effect
    <3>1. /\ op[a].pc \in Ahead /\ op'[a].pc \notin Ahead
          /\ op'[a].pc = "finish" \/ preview'[t].state = "gone"
      BY <2>6 DEF Effects
    <3>2. commits[t] = 0 /\ commits'[t] = 1
      BY <2>1, <2>3, <2>6, <3>1
    <3>3. t \notin cancelled
      BY <1>2, <2>3, <2>6, <3>1
    <3>4. \A b \in Threads : op'[b].token = t => op'[b].pc \notin Ahead
      <4> SUFFICES ASSUME NEW b \in Threads, op'[b].token = t, op'[b].pc \in Ahead PROVE FALSE
        OBVIOUS
      <4>1. b # a /\ op'[b] = op[b]
        BY <3>1 DEF Others
      <4> QED BY <1>2, <2>6, <3>1, <4>1 DEF Claimed, Alone
    <3>5. preview'[t].state = "gone" \/ (preview'[t].state = "pending" /\ preview'[t].busy)
      <4>1. CASE op'[a].pc = "finish"
        <5>1. op'[a].pc \in Holding /\ op'[a].token = t
          BY <2>6, <4>1 DEF Holding, Continues
        <5> QED BY <1>5, <5>1 DEF Held
      <4> QED BY <3>1, <4>1
    <3> QED BY <3>2, <3>3, <3>4, <3>5
  <2> QED BY <2>2, <2>5, <2>6
<1>7. Once'
  BY <1>6 DEF Once
<1> QED BY <1>4, <1>5, <1>7 DEF Claimed

(* A preview is claimed while nobody holds it.                              *)
LEMMA ClaimClaimed ==
  ASSUME Typed, Typed', Claimed, NEW a \in Threads, Claim(a), Marks(op[a].token, Dead(op[a].kind)),
         op[a].token \in Pending(Kinds) \ Dead(op[a].kind), ~preview[op[a].token].busy,
         Goto(a, IF op[a].kind = "restore" THEN "target" ELSE "check")
  PROVE  Claimed'
<1> DEFINE t == op[a].token  S == Dead(op[a].kind)
<1>1. /\ t \in Tokens /\ t \notin S /\ preview[t].state = "pending" /\ ~preview[t].busy /\ op[a].pc = "claim"
      /\ S \in SUBSET Tokens /\ \A u \in S : preview[u].state = "pending" /\ ~preview[u].busy
      /\ commits' = commits /\ cancelled' = cancelled
  BY DEF Claim, At, Pending, Dead, ghosts
<1>2. /\ op'[a].token = t /\ op'[a].pc \in {"target", "check"} /\ Others(a)
  BY Goes DEF SameButPc, Labels, Typed
<1>3. /\ Later
      /\ \A u \in Tokens : /\ preview'[u].state = IF u \in S THEN "gone" ELSE preview[u].state
                           /\ u \notin S => (preview'[u].busy <=> preview[u].busy \/ u = t)
  <2> HIDE DEF S, t
  <2>1. Marks(t, S)  BY DEF S, t
  <2>2. PreviewsTyped /\ \A u \in S : preview[u].state = "pending"  BY <1>1 DEF Typed
  <2> QED BY <1>1, <2>1, <2>2, Claims
<1> HIDE DEF S
<1>4. \A b \in Threads : op[b].pc \in Holding => op[b].token \in Tokens \ {t}
  BY <1>1 DEF Typed, Fits, Fit, Claimed, Held
<1>5. Alone'
  BY <1>2, <1>4 DEF Claimed, Alone, Others
<1>6. Held'
  <2> SUFFICES ASSUME NEW b \in Threads, op'[b].pc \in Holding
               PROVE  LET p == preview'[op'[b].token] IN
                        p.state = "gone" \/ (p.state = "pending" /\ p.busy /\ op'[b].pc # "import")
    BY DEF Held
  <2>1. CASE b = a
    BY <1>1, <1>2, <1>3, <2>1
  <2>2. CASE b # a
    <3>1. op'[b] = op[b] /\ op[b].token \in Tokens  BY <1>2, <1>4, <2>2 DEF Others
    <3> QED BY <1>3, <3>1 DEF Claimed, Held
  <2> QED BY <2>1, <2>2
<1>7. Once'
  <2> SUFFICES ASSUME NEW u \in Tokens
               PROVE  /\ commits[u] \in {0, 1}
                      /\ commits[u] = 1 =>
                           /\ \A b \in Threads : op'[b].token = u => op'[b].pc \notin Ahead
                           /\ preview'[u].state = "gone" \/ (preview'[u].state = "pending" /\ preview'[u].busy)
                      /\ u \in cancelled => /\ commits[u] = 0 /\ preview'[u].state = "gone"
                                            /\ \A b \in Threads : op'[b].token = u => op'[b].pc \notin Holding
    BY <1>1 DEF Once
  <2>1. commits[t] = 0 /\ t \notin cancelled
    BY <1>1 DEF Claimed, Once
  <2>2. u # t => \A b \in Threads : op'[b].token = u => op'[b] = op[b]
    BY <1>2 DEF Others
  <2> QED BY <1>3, <2>1, <2>2 DEF Claimed, Once
<1> QED BY <1>5, <1>6, <1>7 DEF Claimed

(* A new preview has never been held.                                       *)
LEMMA PutClaimed ==
  ASSUME Typed, Typed', Claimed, NEW a \in Threads, NEW k \in Kinds, Put(a, k)
  PROVE  Claimed'
<1>1. PICK t \in Tokens, S \in SUBSET Pending(Kinds) :
        /\ t \notin Used /\ Used' = Used \cup {t} /\ PreviewsTyped' /\ Drawn' /\ Bound'
        /\ preview'[t].state = "pending" /\ preview'[t].kind = k /\ ~preview'[t].busy
        /\ \A u \in Used : /\ Same(preview[u], preview'[u]) /\ preview'[u].busy = preview[u].busy
                           /\ preview'[u].state = IF u \in S THEN "gone" ELSE preview[u].state
        /\ uploads' = IF k = "restore" THEN (uploads \ (S \cup {a})) \cup {t} ELSE uploads \ S
  BY Puts, ZenonT(60)
<1>2. op'[a] = NoOp /\ Others(a) /\ commits' = commits /\ cancelled' = cancelled
  BY EndsHere DEF Put, Typed, ghosts
<1>3. NoOp.pc \notin Holding /\ Ahead \subseteq Holding
  BY DEF NoOp, Holding, Ahead
<1>4. \A b \in Threads : op'[b].pc \in Holding => op'[b] = op[b]
  BY <1>2, <1>3 DEF Others
<1>5. \A b \in Threads : op[b].pc \in Holding => op[b].token \in Used
  BY DEF Typed, Fits, Fit, Known, Used
<1>6. Alone'
  BY <1>4 DEF Claimed, Alone
<1>7. Held'
  <2> SUFFICES ASSUME NEW b \in Threads, op'[b].pc \in Holding
               PROVE  LET p == preview'[op'[b].token] IN
                        p.state = "gone" \/ (p.state = "pending" /\ p.busy /\ op'[b].pc # "import")
    BY DEF Held
  <2>1. op'[b] = op[b] /\ op[b].token \in Used  BY <1>4, <1>5
  <2> QED BY <1>1, <2>1 DEF Claimed, Held, Same
<1>8. Once'
  <2> SUFFICES ASSUME NEW u \in Tokens
               PROVE  /\ commits[u] \in {0, 1}
                      /\ commits[u] = 1 =>
                           /\ \A b \in Threads : op'[b].token = u => op'[b].pc \notin Ahead
                           /\ preview'[u].state = "gone" \/ (preview'[u].state = "pending" /\ preview'[u].busy)
                      /\ u \in cancelled => /\ commits[u] = 0 /\ preview'[u].state = "gone"
                                            /\ \A b \in Threads : op'[b].token = u => op'[b].pc \notin Holding
    BY <1>2 DEF Once
  <2>1. /\ commits[u] \in {0, 1} /\ (u \notin Used => commits[u] = 0 /\ u \notin cancelled)
    BY DEF Claimed, Once, Used
  <2>2. CASE u \in Used
    BY <1>1, <1>3, <1>4, <2>2 DEF Claimed, Once
  <2> QED BY <2>1, <2>2
<1> QED BY <1>6, <1>7, <1>8 DEF Claimed

(* What the rest of the system does to the previews.                        *)
LEMMA RestClaimed ==
  ASSUME Typed, Typed', Claimed, UNCHANGED <<op, commits>>, Later,
         \A u \in Tokens : preview[u].state = "pending" =>
           preview'[u].state = "gone" \/ (preview'[u].state = "pending" /\ preview'[u].busy = preview[u].busy),
         \A u \in cancelled' \ cancelled : preview[u].state = "pending" /\ ~preview[u].busy /\ preview'[u].state = "gone"
  PROVE  Claimed'
<1>1. \A b \in Threads : op[b].pc \in Holding => op[b].token \in Tokens
  BY DEF Typed, Fits, Fit
<1>2. Alone'
  BY DEF Claimed, Alone
<1>3. Held'
  BY <1>1 DEF Claimed, Held, Later, Same
<1>4. Once'
  <2> SUFFICES ASSUME NEW u \in Tokens
               PROVE  /\ commits[u] \in {0, 1}
                      /\ commits[u] = 1 =>
                           /\ \A b \in Threads : op[b].token = u => op[b].pc \notin Ahead
                           /\ preview'[u].state = "gone" \/ (preview'[u].state = "pending" /\ preview'[u].busy)
                      /\ u \in cancelled' => /\ commits[u] = 0 /\ preview'[u].state = "gone"
                                             /\ \A b \in Threads : op[b].token = u => op[b].pc \notin Holding
    BY DEF Once
  <2>1. u \in cancelled' \ cancelled =>
          commits[u] = 0 /\ preview'[u].state = "gone" /\ \A b \in Threads : op[b].token = u => op[b].pc \notin Holding
    BY DEF Claimed, Once, Held
  <2> QED BY <2>1 DEF Claimed, Once, Later, Same
<1> QED BY <1>2, <1>3, <1>4 DEF Claimed

LEMMA Onward ==
  ASSUME NEW o, NEW p, Follows(o, p), o.pc # "claim"
  PROVE  /\ p \in Holding => o.pc \in Ahead
         /\ p = "import" => o.pc = "lock"
         /\ p # "claim"
  BY DEF Follows, Holding, Ahead

(* The previews after a step that leaves them alone, frees one or drops it.  *)
LEMMA Quiet ==
  ASSUME Typed, NEW a \in Threads, UNCHANGED preview PROVE Later /\ Releases(a)
<1>1. Later  BY Stays DEF Typed
<1>2. Releases(a)  BY DEF Releases
<1> QED BY <1>1, <1>2

LEMMA FreesOne ==
  ASSUME Typed, NEW a \in Threads, NotBusy(op[a].token), op[a].pc \in Ahead, op'[a].pc \notin Holding, UNCHANGED commits
  PROVE  Later /\ Releases(a)
<1>1. op[a].token \in Tokens
  BY DEF Typed, Fits, Fit, Holding
<1>2. Later /\ \A u \in Tokens \ {op[a].token} : preview'[u] = preview[u]
  BY <1>1, Frees DEF Typed
<1>3. Releases(a)
  BY <1>2 DEF Releases
<1> QED BY <1>2, <1>3

LEMMA DropsOne ==
  ASSUME Typed, NEW a \in Threads, Drop({op[a].token}), op[a].pc \in Holding
  PROVE  Later /\ Releases(a) /\ preview'[op[a].token].state = "gone"
<1> DEFINE S == {op[a].token}
<1>1. S \in SUBSET Tokens /\ \A t \in S : preview[t].state # "unused"
  BY DEF Typed, Fits, Fit, Known
<1>2. Drop(S) /\ op[a].token \in S  OBVIOUS
<1> HIDE DEF S
<1>3. Later /\ \A t \in Tokens : /\ preview'[t].busy = preview[t].busy
                                /\ preview'[t].state = IF t \in S THEN "gone" ELSE preview[t].state
  BY <1>1, <1>2, Drops DEF Typed
<1>4. Releases(a)
  BY <1>3 DEF Releases
<1> QED BY <1>1, <1>2, <1>3, <1>4

LEMMA StepsClaimed ==
  ASSUME Typed, Typed', Claimed, NEW a \in Threads, Step(a) PROVE Claimed'
<1> USE DEF ghosts
<1>1. ASSUME NEW p, Follows(op[a], p), op[a].pc # "claim", p # "import" \/ preview'[op[a].token].state = "gone", Goto(a, p)
      PROVE  Others(a) /\ Continues(a) /\ op'[a].pc = p
  <2>1. p \in Labels  BY <1>1 DEF Follows, Labels
  <2>2. SameButPc(op[a], op'[a], p) /\ Others(a)  BY <1>1, <2>1, Goes DEF Typed
  <2> QED BY <1>1, <2>2, Onward DEF Continues, SameButPc
<1>2. ASSUME Ends(a) PROVE Others(a) /\ Continues(a) /\ op'[a].pc \notin Holding
  <2>1. op'[a] = NoOp /\ Others(a)  BY <1>2, EndsHere DEF Typed
  <2>2. NoOp.pc \notin Holding  BY DEF NoOp, Holding, Ahead
  <2> QED BY <2>1, <2>2 DEF Continues
<1>3. ASSUME UNCHANGED <<commits, cancelled>>, Others(a), Continues(a), Releases(a), Later PROVE Claimed'
  BY <1>3, ClaimedOn DEF Effects
<1>4. ASSUME NEW p, Follows(op[a], p), op[a].pc \notin {"claim", "lock"}, Goto(a, p), UNCHANGED <<preview, commits, cancelled>>
      PROVE  Claimed'
  <2>1. p # "import"  BY <1>4 DEF Follows
  <2> QED BY <1>1, <1>3, <1>4, <2>1, Quiet
<1>5. ASSUME Ends(a), UNCHANGED <<preview, commits, cancelled>> PROVE Claimed'
  BY <1>2, <1>3, <1>5, Quiet
<1>6. ASSUME NotBusy(op[a].token), op[a].pc \in Ahead, UNCHANGED <<commits, cancelled>>,
             Ends(a) \/ (op[a].pc = "fail" /\ Goto(a, "unlock"))
      PROVE  Claimed'
  <2>1. Others(a) /\ Continues(a) /\ op'[a].pc \notin Holding
    <3>1. "unlock" \notin Holding  BY DEF Holding, Ahead
    <3> QED BY <1>1, <1>2, <1>6, <3>1 DEF Follows
  <2> QED BY <1>3, <1>6, <2>1, FreesOne
<1>7. ASSUME NEW p, Follows(op[a], p), op[a].pc \in Holding, Goto(a, p), Drop({op[a].token}), UNCHANGED <<commits, cancelled>>
      PROVE  Claimed'
  <2>1. Later /\ Releases(a) /\ preview'[op[a].token].state = "gone"
    BY <1>7, DropsOne
  <2>2. op[a].pc # "claim"  BY <1>7 DEF Holding, Ahead
  <2> QED BY <1>1, <1>3, <1>7, <2>1, <2>2
<1>8. ASSUME NEW o \in Operations, Begins(a, o), UNCHANGED <<preview, commits, cancelled>>,
             o.pc \in Holding => o.token = op[a].token /\ op[a].pc \in Ahead /\ o.pc # "import"
      PROVE  Claimed'
  <2>1. op'[a] = o /\ Others(a)  BY <1>8 DEF Begins, Others, Typed, OpsTyped
  <2> QED BY <1>3, <1>8, <2>1, Quiet DEF Continues
<1>11. CASE Look(a)  BY <1>11, <1>4, <1>5 DEF Look, Follows, At
<1>12. CASE Fingerprint(a) \/ InspectUpload(a)
  <2>1. CASE Ends(a)  BY <1>12, <2>1, <1>5 DEF Fingerprint, InspectUpload
  <2>2. CASE \/ At(a, "fingerprint") /\ op' = [op EXCEPT ![a].pc = "register", ![a].content = disk[op[a].of].content]
             \/ At(a, "look") /\ op[a].kind = "restore" /\ op' = [op EXCEPT ![a].pc = "register", ![a].content = stamp]
    <3>1. PICK o \in Operations : Begins(a, o) /\ o.pc \notin Holding
      BY <2>2, Fingerprinted DEF Typed, Ops
    <3> QED BY <1>12, <3>1, <1>8 DEF Fingerprint, InspectUpload
  <2> QED BY <1>12, <2>1, <2>2 DEF Fingerprint, InspectUpload
<1>14. CASE RegisterImport(a) \/ RegisterClone(a) \/ RegisterExport(a) \/ RegisterRestore(a)
  BY <1>14, Kept, PutClaimed DEF RegisterImport, RegisterClone, RegisterExport, RegisterRestore
<1>15. CASE Claim(a)
  <2> DEFINE t == op[a].token  k == op[a].kind
  <2>1. op[a].pc = "claim" /\ t \in Tokens /\ preview[t].state # "unused"
    BY <1>15 DEF Claim, At, Fit, Typed, Fits, Known
  <2>2. Dead(k) \in SUBSET Tokens /\ \A u \in Dead(k) : preview[u].state # "unused"
    BY DEF Dead, Pending
  <2>3. ASSUME NEW S \in SUBSET Tokens, \A u \in S : preview[u].state # "unused", Drop(S), Ends(a) PROVE Claimed'
    <3>1. Later /\ \A u \in Tokens : /\ preview'[u].busy = preview[u].busy
                                    /\ preview'[u].state = IF u \in S THEN "gone" ELSE preview[u].state
      BY <2>3, Drops DEF Typed
    <3>2. Releases(a)  BY <3>1 DEF Releases
    <3> QED BY <1>2, <1>3, <1>15, <2>3, <3>1, <3>2 DEF Claim
  <2>4. CASE Drop({t}) /\ Ends(a)
    <3>1. {t} \in SUBSET Tokens /\ \A u \in {t} : preview[u].state # "unused"  BY <2>1
    <3> HIDE DEF t
    <3> QED BY <2>3, <2>4, <3>1
  <2>5. CASE Drop(Dead(k)) /\ Ends(a)
    <3> HIDE DEF k
    <3> QED BY <2>2, <2>3, <2>5
  <2>6. CASE ~(Drop({t}) /\ Ends(a)) /\ ~(Drop(Dead(k)) /\ Ends(a))
    BY <1>15, <2>6, ClaimClaimed DEF Claim, Marks
  <2> QED BY <2>4, <2>5, <2>6
<1>16. CASE Check(a)
  <2>1. op[a].pc = "check" /\ op[a].pc \in Ahead  BY <1>16 DEF Check, At, Ahead
  <2>2. CASE Goto(a, "lock") /\ UNCHANGED preview  BY <1>16, <2>1, <2>2, <1>4 DEF Follows, Check
  <2>3. CASE NotBusy(op[a].token) /\ Ends(a)  BY <1>16, <2>1, <2>3, <1>6 DEF Check
  <2>4. CASE Strand(a) /\ UNCHANGED preview  BY <1>16, <2>4, <1>5 DEF Check, Strand
  <2> QED BY <1>16, <2>2, <2>3, <2>4 DEF Check
<1>17. CASE Lock(a)
  <2>1. op[a].pc = "lock" /\ op[a].pc \in Ahead /\ op[a].pc \in Holding  BY <1>17 DEF Lock, At, Holding, Ahead
  <2>2. UNCHANGED <<commits, cancelled>>  BY <1>17 DEF Lock
  <2>3. CASE op[a].kind = "cookie" /\ Drop({op[a].token}) /\ Goto(a, "import")
    BY <2>1, <2>2, <2>3, <1>7 DEF Follows
  <2>4. CASE op[a].kind # "cookie" /\ Goto(a, "compare") /\ UNCHANGED preview
    <3>1. Follows(op[a], "compare")  BY <2>1, <2>4 DEF Follows
    <3> QED BY <2>1, <2>2, <2>4, <3>1, <1>1, <1>3, Quiet
  <2>5. CASE NotBusy(op[a].token) /\ Ends(a)  BY <2>1, <2>2, <2>5, <1>6
  <2>6. CASE UNCHANGED preview /\ Ends(a)  BY <2>2, <2>6, <1>5
  <2> QED BY <1>17, <2>3, <2>4, <2>5, <2>6 DEF Lock, NoDrop, Strand
<1>18. CASE Import(a)
  <2>1. op[a].pc = "import" /\ op[a].pc \in Ahead  BY <1>18 DEF Import, At, Ahead
  <2>2. PICK p \in {"mark", "unlock"} : Goto(a, p)  BY <1>18 DEF Import
  <2>3. Follows(op[a], p) /\ p \notin Holding  BY <2>1 DEF Follows, Holding, Ahead
  <2>4. Others(a) /\ Continues(a) /\ op'[a].pc = p  BY <1>1, <2>1, <2>2, <2>3
  <2>5. Later /\ Releases(a) /\ preview' = preview /\ cancelled' = cancelled  BY <1>18, Quiet DEF Import
  <2>6. preview'[op[a].token].state = "gone"
    BY <2>1, <2>5 DEF Claimed, Held, Holding
  <2>7. Effects(a)
    <3>1. op'[a].pc \notin Ahead  BY <2>3, <2>4 DEF Holding
    <3> QED BY <1>18, <2>1, <2>6, <3>1 DEF Import, Effects
  <2> QED BY <2>4, <2>5, <2>7, ClaimedOn
<1>19. CASE Mark(a)  BY <1>19, <1>4 DEF Mark, Follows, At, MarkBootstrapSource
<1>20. CASE Compare(a) \/ BuildManifest(a)
  <2>1. op[a].pc \in {"compare", "manifest"} /\ op[a].pc \in Holding
    BY <1>20 DEF Compare, BuildManifest, At, Holding, Ahead
  <2>2. UNCHANGED <<commits, cancelled>>  BY <1>20 DEF Compare, BuildManifest
  <2>3. CASE Drop({op[a].token}) /\ Goto(a, "unlock")
    BY <2>1, <2>2, <2>3, <1>7 DEF Follows
  <2>4. CASE /\ op[a].pc = "compare" /\ UNCHANGED preview
             /\ Goto(a, IF op[a].kind = "clone" THEN "target" ELSE "manifest") \/ Goto(a, "fail")
    BY <2>2, <2>4, <1>4 DEF Follows
  <2>5. CASE op[a].pc = "manifest" /\ UNCHANGED preview /\ (Goto(a, "archive") \/ Goto(a, "fail"))
    BY <2>2, <2>5, <1>4 DEF Follows
  <2> QED BY <1>20, <2>3, <2>4, <2>5 DEF Compare, BuildManifest, At, NoDrop
<1>21. CASE \E i \in Targets : Draw(a, i)
  <2>1. PICK i \in Targets : Draw(a, i)  BY <1>21
  <2>2. op[a].pc \in Ahead  BY <2>1 DEF Draw, At, Ahead
  <2>3. PICK o \in Operations : Begins(a, o) /\ o.token = op[a].token /\ o.pc # "import"
    BY <2>1, DrawnTarget DEF Typed, Ops
  <2> QED BY <2>1, <2>2, <2>3, <1>8 DEF Draw
<1>22. CASE Copy(a) \/ Unpack(a)  BY <1>22, <1>4 DEF Copy, Unpack, Stage, Follows, At
<1>23. CASE Decrypt(a) \/ Install(a)  BY <1>23, <1>4 DEF Decrypt, Install, Follows, At, Unreadable
<1>24. CASE InspectArchive(a) \/ Archive(a)  BY <1>24, <1>4 DEF InspectArchive, Archive, Follows, At
<1>25. CASE CreateRow(a)
  <2>1. op[a].pc = "create" /\ op[a].pc \in Ahead  BY <1>25 DEF CreateRow, At, Ahead
  <2>2. CASE Goto(a, "fail") /\ UNCHANGED commits  BY <1>25, <2>1, <2>2, <1>4 DEF CreateRow, Follows
  <2>3. CASE commits' = [commits EXCEPT ![op[a].token] = @ + 1] /\ Goto(a, "finish")
    <3>1. Follows(op[a], "finish")  BY <2>1 DEF Follows
    <3>2. Others(a) /\ Continues(a) /\ op'[a].pc = "finish"  BY <1>1, <2>1, <2>3, <3>1
    <3>3. Later /\ Releases(a) /\ cancelled' = cancelled  BY <1>25, Quiet DEF CreateRow
    <3>4. Effects(a)  BY <2>1, <2>3, <3>2 DEF Effects, Ahead
    <3> QED BY <3>2, <3>3, <3>4, ClaimedOn
  <2> QED BY <1>25, <2>2, <2>3 DEF CreateRow
<1>26. CASE Finish(a)
  <2>1. op[a].pc = "finish" /\ op[a].pc \in Holding  BY <1>26 DEF Finish, At, Holding
  <2> QED BY <1>26, <2>1, <1>7 DEF Finish, Follows
<1>27. CASE Seal(a)
  <2>1. op[a].pc = "seal" /\ op[a].pc \in Ahead  BY <1>27 DEF Seal, At, Ahead, Encrypt
  <2>2. CASE Goto(a, "fail") /\ UNCHANGED commits  BY <1>27, <2>1, <2>2, <1>4 DEF Seal, Follows, Encrypt
  <2>3. CASE /\ commits' = [commits EXCEPT ![op[a].token] = @ + 1]
             /\ op' = [op EXCEPT ![a].pc = "finish", ![a].content = disk[op[a].of].content]
    <3>1. PICK o \in Operations : Begins(a, o) /\ o.pc = "finish" /\ o.token = op[a].token
      BY <1>27, <2>3, Sealed DEF Seal, Typed, Ops, Encrypt
    <3>2. op'[a] = o /\ Others(a)  BY <3>1 DEF Begins, Others, Typed, OpsTyped
    <3>3. Continues(a)  BY <2>1, <3>1, <3>2 DEF Continues
    <3>4. Later /\ Releases(a) /\ cancelled' = cancelled  BY <1>27, Quiet DEF Seal, Encrypt
    <3>5. Effects(a)  BY <2>1, <2>3, <3>1, <3>2 DEF Effects, Ahead
    <3> QED BY <3>2, <3>3, <3>4, <3>5, ClaimedOn
  <2> QED BY <1>27, <2>2, <2>3 DEF Seal, Encrypt
<1>28. CASE Fail(a)
  <2>1. op[a].pc = "fail" /\ op[a].pc \in Ahead  BY <1>28 DEF Fail, At, Ahead
  <2> QED BY <1>28, <2>1, <1>6 DEF Fail
<1>29. CASE Unlock(a)
  <2>1. op[a].pc = "unlock" /\ UNCHANGED <<preview, commits, cancelled>>  BY <1>29 DEF Unlock, At
  <2>2. CASE Ends(a)  BY <2>1, <2>2, <1>5
  <2>3. CASE op[a].target # None /\ Goto(a, "discard")  BY <2>1, <2>3, <1>4 DEF Follows
  <2>4. CASE op[a].kind = "export" /\ Goto(a, "serve")
    <3>1. op[a].target = None  BY <2>4 DEF Typed, Fits, Fit
    <3> QED BY <2>1, <2>4, <3>1, <1>4 DEF Follows
  <2> QED BY <1>29, <2>2, <2>3, <2>4 DEF Unlock
<1>30. CASE Discard(a) \/ Serve(a)  BY <1>30, <1>5 DEF Discard, Serve
<1> QED
  BY <1>11, <1>12, <1>14, <1>15, <1>16, <1>17, <1>18, <1>19, <1>20, <1>21, <1>22, <1>23, <1>24, <1>25,
     <1>26, <1>27, <1>28, <1>29, <1>30 DEF Step

LEMMA InitClaimed == ASSUME Init PROVE Claimed
<1>1. \A a \in Threads : op[a].pc \notin Holding
  BY DEF Init, NoOp, Holding, Ahead
<1>2. \A t \in Tokens : commits[t] = 0 /\ t \notin cancelled
  BY DEF Init
<1> QED BY <1>1, <1>2 DEF Claimed, Alone, Held, Once

LEMMA NextClaimed ==
  ASSUME Typed, Typed', Claimed, [Next]_vars PROVE Claimed'
<1>1. ASSUME NEW a \in Threads, Requests(a) PROVE Claimed'
  <2>1. PICK o \in Operations : Begins(a, o) /\ o.pc \in {"look", "register", "claim"}
    BY <1>1, Started DEF Typed, Ops
  <2>2. UNCHANGED <<preview, commits, cancelled>>
    BY <1>1, Started DEF Typed, Ops, ghosts
  <2>3. op'[a] = o /\ Others(a)
    BY <2>1 DEF Begins, Others, Typed, OpsTyped
  <2>4. Continues(a)
    BY <2>1, <2>3 DEF Continues, Holding, Ahead
  <2> QED BY <2>2, <2>3, <2>4, Quiet, ClaimedOn DEF Effects
<1>2. CASE \E a \in Threads : Requests(a) \/ Step(a)
  BY <1>1, <1>2, StepsClaimed
<1>3. CASE \E t \in Tokens : Expire(t)
  <2>1. PICK t \in Tokens : Expire(t)  BY <1>3
  <2>2. Later /\ \A u \in Tokens : preview'[u].busy = preview[u].busy /\ preview'[u].state = preview[u].state
    BY <2>1, Expires DEF Typed
  <2>3. UNCHANGED <<op, commits>> /\ cancelled' = cancelled
    BY <2>1 DEF Expire, ghosts
  <2> QED BY <2>2, <2>3, RestClaimed
<1>4. CASE \E t \in Tokens, c \in Controls : Cancel(t, c)
  <2>1. PICK t \in Tokens, c \in Controls : Cancel(t, c)  BY <1>4
  <2>2. PICK S \in SUBSET Tokens :
           /\ Drop(S) /\ \A u \in S : preview[u].state = "pending" /\ ~preview[u].busy
           /\ cancelled' = cancelled \/ (cancelled' = cancelled \cup {t} /\ t \in S)
           /\ UNCHANGED <<row, storage, owner, plain, artifacts, op, up, lost, commits>>
    BY <2>1, Cancels DEF Typed, Ops
  <2>3. Later /\ \A u \in Tokens : /\ preview'[u].busy = preview[u].busy
                                  /\ preview'[u].state = IF u \in S THEN "gone" ELSE preview[u].state
    <3>1. \A u \in S : preview[u].state # "unused"  BY <2>2
    <3> QED BY <2>2, <3>1, Drops DEF Typed
  <2>4. UNCHANGED <<op, commits>>  BY <2>2
  <2>5. \A u \in cancelled' \ cancelled : preview[u].state = "pending" /\ ~preview[u].busy /\ preview'[u].state = "gone"
    BY <2>2, <2>3
  <2> QED BY <2>3, <2>4, <2>5, RestClaimed
<1>5. CASE (\E p \in Profiles : Edit(p)) \/ CreateService \/ UNCHANGED vars
  <2>1. UNCHANGED <<op, commits>> /\ cancelled' = cancelled /\ preview' = preview
    BY <1>5 DEF Edit, UpdateProfile, ArchiveOrRestore, OpenSession, CloseSession, CreateService, ghosts, vars, Sweep
  <2>2. Later  BY <2>1, Stays DEF Typed
  <2> QED BY <2>1, <2>2, RestClaimed
<1>6. CASE Crash
  <2>1. /\ Later /\ \A a \in Threads : op'[a] = NoOp
        /\ \A t \in Tokens : preview'[t].state = IF preview[t].state = "pending" THEN "gone" ELSE preview[t].state
    BY <1>6, CrashOps DEF Typed, Ops
  <2>2. NoOp.pc \notin Holding /\ NoOp.pc \notin Ahead
    BY DEF NoOp, Holding, Ahead
  <2>3. commits' = commits /\ cancelled' = cancelled
    BY <1>6 DEF Crash
  <2> QED BY <2>1, <2>2, <2>3 DEF Claimed, Alone, Held, Once
<1> QED BY <1>2, <1>3, <1>4, <1>5, <1>6, Cases

LEMMA ClaimedHolds == Spec => [](Typed /\ Claimed)
<1>1. Init => Typed /\ Claimed
  BY InitTyped, InitClaimed
<1>2. Typed /\ Claimed /\ [Next]_vars => (Typed /\ Claimed)'
  BY NextTyped, NextClaimed
<1> QED BY <1>1, <1>2, PTL DEF Spec

(* The tables, the storage and the operations keep their types.             *)
THEOREM TypeCorrect == Spec => []TypeOK
<1>1. Typed => TypeOK
  BY DEF Typed, TypeOK
<1> QED BY <1>1, ClaimedHolds, PTL

(* A preview takes effect once at most, and never after it was cancelled,   *)
(* whatever expires, is evicted or dies while it is committed.              *)
THEOREM OneCommit == Spec => []CommittedOnce
<1>1. Claimed => CommittedOnce
  BY DEF Claimed, Once, CommittedOnce
<1> QED BY <1>1, ClaimedHolds, PTL

-----------------------------------------------------------------------------
(* What is transferred is what was previewed.                               *)

(* The steps under the process lock of the Profile, those of them after the *)
(* storage was compared, and those with a target that has no row yet.       *)
Locked(o) ==
  \/ o.pc \in {"fingerprint", "import", "mark", "compare", "copy", "manifest", "archive", "seal"}
  \/ (o.pc = "target" /\ o.kind = "clone") \/ (o.pc = "inspect" /\ o.kind = "export")
Compared(o) ==
  \/ o.pc \in {"copy", "manifest", "archive", "seal"}
  \/ (o.pc = "target" /\ o.kind = "clone") \/ (o.pc = "inspect" /\ o.kind = "export")
Staged(o) == o.pc \in {"install", "create"} \/ (o.pc = "finish" /\ o.kind # "export")
Drawing(o) == o.pc \in Draws \/ (o.pc = "inspect" /\ o.target # None)

Stored(a) ==
  LET o == op[a]  p == preview[o.token] IN
  /\ Locked(o) => owner[o.of] = a
  /\ Compared(o) => disk[o.of].content = p.content
  /\ Staged(o) => disk[o.target].content = p.content
  /\ o.pc = "finish" /\ o.kind = "export" => o.content = p.content
  /\ Drawing(o) => row[o.target].state = "none"
  /\ o.pc = "create" => disk[o.target].dir = "full"

Single == \A a, b \in Threads : op[a].target # None /\ op[a].target = op[b].target => a = b
Complete == \A i \in Targets : row[i].state # "none" => disk[i].dir = "full"

Storing == (\A a \in Threads : Stored(a)) /\ Single /\ Complete

(* The storage that a step of a may change: that of a Profile under its     *)
(* lock, or of an id that is no other operation's target.                   *)
Touches(a, i) ==
  \/ i \in Profiles /\ owner[i] = a
  \/ i \in Targets /\ \A b \in Threads \ {a} : op[b].target # i

Spares(a) ==
  /\ \A i \in Profiles : owner[i] \notin {None, a} => owner'[i] = owner[i]
  /\ \A i \in Ids : disk'[i] = disk[i] \/ Touches(a, i)
  /\ \A i \in Targets : row'[i] = row[i] \/ Touches(a, i)
Shows == \A t \in Used : preview'[t].content = preview[t].content

LEMMA Needs ==
  ASSUME Typed, NEW a \in Threads
  PROVE  /\ Locked(op[a]) => op[a].of \in Profiles
         /\ Compared(op[a]) => op[a].of \in Profiles /\ op[a].token \in Used
         /\ Staged(op[a]) => op[a].target \in Targets /\ op[a].token \in Used
         /\ op[a].pc = "finish" => op[a].token \in Used
         /\ Drawing(op[a]) => op[a].target \in Targets
         /\ op[a].pc = "create" => op[a].target \in Targets
         /\ op[a].target # None => op[a].target \in Targets
<1>1. op[a] \in Operations /\ Fit(op[a])
  BY DEF Typed, OpsTyped, Fits
<1>2. op[a].pc \in Holding => op[a].token \in Used
  BY <1>1 DEF Typed, Fit, Known, Used
<1>3. Compared(op[a]) \/ Staged(op[a]) \/ op[a].pc = "finish" => op[a].pc \in Holding
  BY DEF Compared, Staged, Holding, Ahead
<1>4. Locked(op[a]) \/ Compared(op[a]) => op[a].of \in Profiles
  BY <1>1 DEF Fit, Locked, Compared, Holding, Ahead
<1>5. op[a].target # None => op[a].target \in Targets
  BY <1>1 DEF Operations
<1>6. Staged(op[a]) \/ op[a].pc = "create" => op[a].target \in Targets
  BY <1>1 DEF Fit, Staged, Draws
<1>7. Drawing(op[a]) => op[a].target \in Targets
  BY <1>1, <1>5 DEF Fit, Drawing
<1> QED BY <1>2, <1>3, <1>4, <1>5, <1>6, <1>7

LEMMA StoringOn ==
  ASSUME Typed, Storing, NEW a \in Threads, Others(a), Shows, Spares(a), Stored(a)',
         op'[a].target # None => \A b \in Threads \ {a} : op[b].target # op'[a].target,
         \A i \in Targets : (row'[i] # row[i] \/ disk'[i] # disk[i]) => row'[i].state = "none" \/ disk'[i].dir = "full"
  PROVE  Storing'
<1>1. ASSUME NEW b \in Threads \ {a} PROVE Stored(b)'
  <2> DEFINE o == op[b]
  <2>1. op'[b] = o
    BY DEF Others
  <2>2. Stored(b)
    BY DEF Storing
  <2>3. o.of \in Profiles /\ owner[o.of] = b => owner'[o.of] = b /\ disk'[o.of] = disk[o.of]
    <3> SUFFICES ASSUME o.of \in Profiles, owner[o.of] = b PROVE owner'[o.of] = b /\ disk'[o.of] = disk[o.of]
      OBVIOUS
    <3>1. b \notin {None, a}  BY TransferAssumption
    <3>2. ~Touches(a, o.of)  BY <3>1, TransferAssumption DEF Touches
    <3> QED BY <3>1, <3>2 DEF Spares, Ids
  <2>4. o.target \in Targets => row'[o.target] = row[o.target] /\ disk'[o.target] = disk[o.target]
    <3> SUFFICES ASSUME o.target \in Targets PROVE row'[o.target] = row[o.target] /\ disk'[o.target] = disk[o.target]
      OBVIOUS
    <3>1. ~Touches(a, o.target)  BY TransferAssumption DEF Touches
    <3> QED BY <3>1 DEF Spares, Ids
  <2>5. o.token \in Used => preview'[o.token].content = preview[o.token].content
    BY DEF Shows
  <2>6. Compared(o) => Locked(o)
    BY DEF Compared, Locked
  <2> QED BY <2>1, <2>2, <2>3, <2>4, <2>5, <2>6, Needs DEF Stored
<1>2. Single'
  BY DEF Storing, Single, Others
<1>3. Complete'
  BY DEF Storing, Complete
<1> QED BY <1>1, <1>2, <1>3 DEF Storing

LEMMA RestStoring ==
  ASSUME Typed, Storing, UNCHANGED op, Shows,
         \A i \in Profiles : owner[i] \in Threads => owner'[i] = owner[i] /\ disk'[i] = disk[i],
         \A i \in Targets : row'[i] = row[i] /\ disk'[i] = disk[i]
  PROVE  Storing'
<1>1. ASSUME NEW b \in Threads PROVE Stored(b)'
  <2>1. op'[b] = op[b] /\ Stored(b) /\ (Compared(op[b]) => Locked(op[b]))
    BY DEF Storing, Compared, Locked
  <2> QED BY <2>1, Needs DEF Stored, Shows
<1>2. Single'  BY DEF Storing, Single
<1>3. Complete'  BY DEF Storing, Complete
<1> QED BY <1>1, <1>2, <1>3 DEF Storing

(* No step changes what a preview has shown.                                *)
LEMMA ShowsOn == ASSUME Later PROVE Shows
  BY DEF Later, Same, Shows, Used

LEMMA StepsShow == ASSUME Typed, NEW a \in Threads, Step(a) PROVE Shows
<1>1. ASSUME NEW S, Drop(S) PROVE Shows
  BY <1>1 DEF Drop, Shows, Used, Typed, PreviewsTyped, Previews
<1>2. ASSUME NEW t, NotBusy(t) PROVE Shows
  BY <1>2 DEF NotBusy, Shows, Used, Typed, PreviewsTyped, Previews
<1>3. ASSUME NEW k \in Kinds, Put(a, k) PROVE Shows
  <2>1. PICK t \in Tokens, S \in SUBSET Pending(Kinds) :
          \A u \in Used : Same(preview[u], preview'[u])
    BY <1>3, Puts
  <2> QED BY <2>1 DEF Same, Shows
<1>4. ASSUME NEW t, NEW S, Marks(t, S) PROVE Shows
  BY <1>4 DEF Marks, Shows, Used, Typed, PreviewsTyped, Previews
<1>5. ASSUME UNCHANGED preview PROVE Shows
  BY <1>5 DEF Shows, Used
<1>6. CASE RegisterImport(a) \/ RegisterClone(a) \/ RegisterExport(a) \/ RegisterRestore(a)
  BY <1>3, <1>6, Kept DEF RegisterImport, RegisterClone, RegisterExport, RegisterRestore
<1>7. CASE Claim(a)
  <2>1. Drop({op[a].token}) \/ Drop(Dead(op[a].kind)) \/ Marks(op[a].token, Dead(op[a].kind))
    BY <1>7 DEF Claim, Marks
  <2> QED BY <1>1, <1>4, <2>1
<1>8. CASE Check(a) \/ Lock(a) \/ Fail(a) \/ Finish(a)  BY <1>1, <1>2, <1>5, <1>8 DEF Check, Lock, Fail, Finish, NoDrop
<1>9. CASE Compare(a) \/ BuildManifest(a)  BY <1>1, <1>5, <1>9 DEF Compare, BuildManifest, NoDrop
<1>10. CASE Look(a) \/ Fingerprint(a) \/ InspectUpload(a) \/ Import(a) \/ Mark(a) \/ (\E i \in Targets : Draw(a, i))
  BY <1>5, <1>10 DEF Look, Fingerprint, InspectUpload, Import, Mark, Draw, files, MarkBootstrapSource
<1>11. CASE Copy(a) \/ Decrypt(a) \/ InspectArchive(a) \/ Unpack(a) \/ Install(a) \/ CreateRow(a)
  BY <1>5, <1>11 DEF Copy, Decrypt, InspectArchive, Unpack, Stage, Install, CreateRow, files, Unreadable
<1>12. CASE Archive(a) \/ Seal(a) \/ Unlock(a) \/ Discard(a) \/ Serve(a)
  BY <1>5, <1>12 DEF Archive, Seal, Unlock, Discard, Serve, files, Encrypt
<1> QED BY <1>6, <1>7, <1>8, <1>9, <1>10, <1>11, <1>12 DEF Step

(* Where an operation has nothing to rely on.                               *)
LEMMA Light ==
  ASSUME NEW a, op'[a].pc \in {"idle", "look", "register", "claim", "check", "lock", "fail", "unlock", "serve"}
  PROVE  Stored(a)'
  BY DEF Stored, Locked, Compared, Staged, Drawing, Draws

(* A step that leaves the storage, and the targets, alone.                  *)
LEMMA StoringHere ==
  ASSUME Typed, Storing, NEW a \in Threads, Step(a), UNCHANGED <<row, disk>>, Others(a), Stored(a)',
         op'[a].target \in {None, op[a].target},
         \A i \in Profiles : owner[i] \notin {None, a} => owner'[i] = owner[i]
  PROVE  Storing'
<1>1. Shows  BY StepsShow
<1>2. Spares(a)  BY DEF Spares
<1>3. op'[a].target # None => \A b \in Threads \ {a} : op[b].target # op'[a].target
  BY DEF Storing, Single
<1> QED BY <1>1, <1>2, <1>3, StoringOn

(* A step that sets the storage or the row of its target.                   *)
LEMMA StoringThere ==
  ASSUME Typed, Storing, NEW a \in Threads, Step(a), Others(a), Stored(a)', UNCHANGED owner,
         op[a].target \in Targets, op'[a].target \in {None, op[a].target},
         \A i \in Ids \ {op[a].target} : row'[i] = row[i] /\ disk'[i] = disk[i],
         row'[op[a].target].state = "none" \/ disk'[op[a].target].dir = "full"
  PROVE  Storing'
<1>1. Shows  BY StepsShow
<1>2. \A b \in Threads \ {a} : op[b].target # op[a].target
  BY TransferAssumption DEF Storing, Single, Ids
<1>3. Spares(a)  BY <1>2 DEF Spares, Touches, Ids
<1> QED BY <1>1, <1>2, <1>3, StoringOn DEF Ids

LEMMA StepsStoring ==
  ASSUME Typed, Typed', Storing, NEW a \in Threads, Step(a) PROVE Storing'
<1> USE DEF storage, files, ghosts
<1>1. op[a] \in Operations /\ Fit(op[a]) /\ Stored(a)
  BY DEF Typed, OpsTyped, Fits, Storing
<1>2. ASSUME NEW p, Follows(op[a], p), Goto(a, p)
      PROVE  SameButPc(op[a], op'[a], p) /\ Others(a)
  <2>1. p \in Labels  BY <1>2 DEF Follows, Labels
  <2> QED BY <1>2, <2>1, Goes DEF Typed
<1>3. ASSUME Ends(a) PROVE Others(a) /\ Stored(a)' /\ op'[a].target = None
  <2>1. op'[a] = NoOp /\ Others(a)  BY <1>3, EndsHere DEF Typed
  <2> QED BY <2>1, Light DEF NoOp
\* An operation that ends, or goes on to where it relies on nothing.
<1>4. ASSUME UNCHANGED <<row, disk>>, \A i \in Profiles : owner[i] \notin {None, a} => owner'[i] = owner[i],
             \/ Ends(a)
             \/ \E p \in {"check", "lock", "fail", "unlock", "serve"} : Follows(op[a], p) /\ Goto(a, p)
      PROVE  Storing'
  <2>1. CASE Ends(a)  BY <1>3, <1>4, <2>1, StoringHere
  <2>2. ASSUME NEW p \in {"check", "lock", "fail", "unlock", "serve"}, Follows(op[a], p), Goto(a, p) PROVE Storing'
    <3>1. SameButPc(op[a], op'[a], p) /\ Others(a)  BY <1>2, <2>2
    <3> QED BY <1>4, <2>2, <3>1, Light, StoringHere DEF SameButPc
  <2> QED BY <1>4, <2>1, <2>2
<1>5. ASSUME UNCHANGED <<row, disk, owner>>,
             \/ Ends(a)
             \/ \E p \in {"check", "lock", "fail", "unlock", "serve"} : Follows(op[a], p) /\ Goto(a, p)
      PROVE  Storing'
  BY <1>4, <1>5
\* One that goes on with what it had.
<1>6. ASSUME UNCHANGED <<row, disk, owner, preview>>, NEW p, Follows(op[a], p), Goto(a, p),
             op[a].pc \in {"import", "compare", "manifest", "decrypt", "inspect", "archive"},
             p \in {"manifest", "target", "archive"} => disk[op[a].of].content = preview[op[a].token].content
      PROVE  Storing'
  <2>1. SameButPc(op[a], op'[a], p) /\ Others(a)  BY <1>2, <1>6
  <2>2. Stored(a)'
    <3> USE <1>1, <1>6, <2>1 DEF Follows, SameButPc, Stored, Locked, Compared, Staged, Drawing, Draws, Fit
    <3>1. CASE op[a].pc \in {"import", "compare", "manifest"}  BY <3>1
    <3>2. CASE op[a].pc \in {"decrypt", "inspect"}  BY <3>2
    <3>3. CASE op[a].pc = "archive"  BY <3>3
    <3> QED BY <3>1, <3>2, <3>3
  <2> QED BY <1>6, <2>1, <2>2, StoringHere DEF SameButPc
<1>11. CASE Look(a)
  <2>1. CASE Ends(a) /\ UNCHANGED owner  BY <1>11, <2>1, <1>5 DEF Look
  <2>2. CASE owner[op[a].of] = None /\ owner' = [owner EXCEPT ![op[a].of] = a] /\ Goto(a, "fingerprint")
    <3>1. Follows(op[a], "fingerprint")  BY <1>11 DEF Look, At, Follows
    <3>2. SameButPc(op[a], op'[a], "fingerprint") /\ Others(a)  BY <1>2, <2>2, <3>1
    <3>3. op[a].of \in Profiles  BY <1>1, <1>11 DEF Look, At, Fit
    <3>4. owner'[op[a].of] = a /\ \A i \in Profiles : owner[i] \notin {None, a} => owner'[i] = owner[i]
      BY <2>2, <3>3 DEF Typed, OwnersTyped, Ids
    <3>5. Stored(a)'
      BY <3>2, <3>4 DEF SameButPc, Stored, Locked, Compared, Staged, Drawing, Draws
    <3> QED BY <1>11, <3>2, <3>4, <3>5, StoringHere DEF Look, SameButPc
  <2> QED BY <1>11, <2>1, <2>2 DEF Look
<1>12. CASE Fingerprint(a)
  <2>1. op[a].pc = "fingerprint" /\ owner' = [owner EXCEPT ![op[a].of] = None] /\ UNCHANGED <<row, disk>>
    BY <1>12 DEF Fingerprint, At
  <2>2. \A i \in Profiles : owner[i] \notin {None, a} => owner'[i] = owner[i]
    <3>1. owner[op[a].of] = a  BY <1>1, <2>1 DEF Stored, Locked
    <3> QED BY <2>1, <3>1 DEF Typed, OwnersTyped, Ids
  <2>3. CASE Ends(a)  BY <2>1, <2>2, <2>3, <1>4
  <2>4. CASE op' = [op EXCEPT ![a].pc = "register", ![a].content = disk[op[a].of].content]
    <3>1. PICK o \in Operations : Begins(a, o) /\ o.pc = "register" /\ o.target = None
      BY <1>12, <2>4, Fingerprinted DEF Fingerprint, Typed, Ops
    <3>2. op'[a] = o /\ Others(a)  BY <3>1 DEF Begins, Others, Typed, OpsTyped
    <3> QED BY <2>1, <2>2, <3>1, <3>2, Light, StoringHere
  <2> QED BY <1>12, <2>3, <2>4 DEF Fingerprint
<1>13. CASE InspectUpload(a)
  <2>1. CASE Ends(a)  BY <1>13, <2>1, <1>5 DEF InspectUpload
  <2>2. CASE op' = [op EXCEPT ![a].pc = "register", ![a].content = stamp]
    <3>1. PICK o \in Operations : Begins(a, o) /\ o.pc = "register" /\ o.target = None
      BY <1>13, <2>2, Fingerprinted DEF InspectUpload, Typed, Ops
    <3>2. op'[a] = o /\ Others(a)  BY <3>1 DEF Begins, Others, Typed, OpsTyped
    <3> QED BY <1>13, <3>1, <3>2, Light, StoringHere DEF InspectUpload
  <2> QED BY <1>13, <2>1, <2>2 DEF InspectUpload
<1>14. CASE RegisterImport(a) \/ RegisterClone(a) \/ RegisterExport(a) \/ RegisterRestore(a)
  BY <1>14, <1>5 DEF RegisterImport, RegisterClone, RegisterExport, RegisterRestore, Put
<1>15. CASE Claim(a)
  <2>1. op[a].pc = "claim" /\ UNCHANGED <<row, disk, owner>>  BY <1>15 DEF Claim, At
  <2>2. CASE Ends(a)  BY <2>1, <2>2, <1>5
  <2>3. CASE op[a].kind # "restore" /\ Goto(a, "check")  BY <2>1, <2>3, <1>5 DEF Follows
  <2>4. CASE op[a].kind = "restore" /\ Goto(a, "target")
    <3>1. SameButPc(op[a], op'[a], "target") /\ Others(a)  BY <2>1, <2>4, <1>2 DEF Follows
    <3>2. Stored(a)'
      BY <2>4, <3>1 DEF SameButPc, Stored, Locked, Compared, Staged, Drawing, Draws
    <3> QED BY <2>1, <3>1, <3>2, StoringHere DEF SameButPc
  <2> QED BY <1>15, <2>2, <2>3, <2>4 DEF Claim
<1>16. CASE Check(a)  BY <1>16, <1>5 DEF Check, At, Follows, Strand
<1>17. CASE Lock(a)
  <2>1. op[a].pc = "lock" /\ UNCHANGED <<row, disk>>  BY <1>17 DEF Lock, At
  <2>2. CASE Ends(a) /\ UNCHANGED owner  BY <2>1, <2>2, <1>5
  <2>3. ASSUME NEW p \in {"import", "compare"}, Follows(op[a], p), Goto(a, p),
               owner[op[a].of] = None, owner' = [owner EXCEPT ![op[a].of] = a]
        PROVE  Storing'
    <3>1. SameButPc(op[a], op'[a], p) /\ Others(a)  BY <1>2, <2>3
    <3>2. op[a].of \in Profiles  BY <1>1, <2>1 DEF Fit, Holding, Ahead
    <3>3. owner'[op[a].of] = a /\ \A i \in Profiles : owner[i] \notin {None, a} => owner'[i] = owner[i]
      BY <2>3, <3>2 DEF Typed, OwnersTyped, Ids
    <3>4. Stored(a)'
      BY <2>3, <3>1, <3>3 DEF SameButPc, Stored, Locked, Compared, Staged, Drawing, Draws
    <3> QED BY <2>1, <3>1, <3>3, <3>4, StoringHere DEF SameButPc
  <2> QED BY <1>17, <2>1, <2>2, <2>3 DEF Lock, Follows, Strand
<1>18. CASE Import(a)
  <2>1. op[a].pc = "import" /\ UNCHANGED <<row, owner, preview>>  BY <1>18 DEF Import, At
  <2>2. PICK p \in {"mark", "unlock"} : Goto(a, p)  BY <1>18 DEF Import
  <2>3. Follows(op[a], p)  BY <2>1 DEF Follows
  <2>4. SameButPc(op[a], op'[a], p) /\ Others(a)  BY <1>2, <2>2, <2>3
  <2>5. op[a].of \in Profiles /\ owner[op[a].of] = a /\ op[a].target = None
    BY <1>1, <2>1 DEF Fit, Stored, Locked, Holding, Ahead, Draws
  <2>6. Stored(a)'
    BY <2>1, <2>4, <2>5 DEF SameButPc, Stored, Locked, Compared, Staged, Drawing, Draws
  <2>7. \A i \in Ids \ {op[a].of} : disk'[i] = disk[i]
    BY <1>18 DEF Import, Typed, DisksTyped
  <2>8. Spares(a)  BY <2>1, <2>5, <2>7 DEF Spares, Touches
  <2>9. \A i \in Targets : row'[i] = row[i] /\ disk'[i] = disk[i]
    BY <2>1, <2>5, <2>7, TransferAssumption DEF Ids
  <2> QED BY <2>4, <2>5, <2>6, <2>8, <2>9, StepsShow, StoringOn DEF SameButPc
<1>19. CASE Mark(a)
  <2>1. op[a].pc = "mark" /\ UNCHANGED <<disk, owner>> /\ Goto(a, "unlock")  BY <1>19 DEF Mark, At, MarkBootstrapSource
  <2>2. SameButPc(op[a], op'[a], "unlock") /\ Others(a)  BY <1>2, <2>1 DEF Follows
  <2>3. op[a].of \in Profiles /\ op[a].target = None  BY <1>1, <2>1 DEF Fit, Draws
  <2>4. \A i \in Targets : row'[i] = row[i]
    BY <1>19, <2>3, TransferAssumption DEF Mark, Typed, RowsTyped, Ids, MarkBootstrapSource
  <2>5. Stored(a)'  BY <2>2, Light DEF SameButPc
  <2>6. Spares(a)  BY <2>1, <2>4 DEF Spares
  <2> QED BY <2>1, <2>2, <2>3, <2>4, <2>5, <2>6, StepsShow, StoringOn DEF SameButPc, Ids
<1>20. CASE Compare(a) \/ BuildManifest(a)
  <2>1. op[a].pc \in {"compare", "manifest"} /\ UNCHANGED <<row, disk, owner>>
    BY <1>20 DEF Compare, BuildManifest, At
  <2>2. CASE Goto(a, "unlock") \/ Goto(a, "fail")  BY <2>1, <2>2, <1>5 DEF Follows
  <2>3. ASSUME UNCHANGED preview, disk[op[a].of].content = preview[op[a].token].content, NEW p, Follows(op[a], p), Goto(a, p)
        PROVE  Storing'
    BY <1>6, <2>1, <2>3
  <2>4. CASE /\ op[a].pc = "compare" /\ UNCHANGED preview /\ disk[op[a].of].content = preview[op[a].token].content
             /\ Goto(a, IF op[a].kind = "clone" THEN "target" ELSE "manifest")
    <3>1. Follows(op[a], IF op[a].kind = "clone" THEN "target" ELSE "manifest")  BY <2>4 DEF Follows
    <3> QED BY <2>3, <2>4, <3>1
  <2>5. CASE op[a].pc = "manifest" /\ UNCHANGED preview /\ Goto(a, "archive")
    <3>1. disk[op[a].of].content = preview[op[a].token].content  BY <1>1, <2>5 DEF Stored, Compared
    <3> QED BY <2>3, <2>5, <3>1 DEF Follows
  <2> QED BY <1>20, <2>2, <2>4, <2>5 DEF Compare, BuildManifest, At, NoDrop
<1>21. CASE \E i \in Targets : Draw(a, i)
  <2>1. PICK i \in Targets : Draw(a, i)  BY <1>21
  <2>2. PICK o \in Operations :
           /\ Begins(a, o) /\ Fit(o) /\ o.target = i /\ o.kind = op[a].kind /\ o.token = op[a].token /\ o.of = op[a].of
           /\ o.pc = "fail" \/ (o.pc = (IF op[a].kind = "clone" THEN "copy" ELSE "decrypt") /\ owner' = [owner EXCEPT ![i] = a])
           /\ o.pc = "fail" => UNCHANGED owner
    BY <2>1, DrawnTarget DEF Typed, Ops
  <2>3. op'[a] = o /\ Others(a)  BY <2>2 DEF Begins, Others, Typed, OpsTyped
  <2>4. /\ op[a].pc = "target" /\ row[i].state = "none" /\ UNCHANGED <<row, preview>>
        /\ \A b \in Threads : op[b].target # i
        /\ \A j \in Ids \ {i} : disk'[j] = disk[j]
    BY <2>1 DEF Draw, At, Typed, DisksTyped
  <2>5. i \notin Profiles /\ i \in Ids  BY TransferAssumption DEF Ids
  <2>6. \A j \in Profiles : owner'[j] = owner[j]
    BY <2>2, <2>5 DEF Typed, OwnersTyped, Ids
  <2>7. Spares(a)  BY <2>4, <2>6 DEF Spares, Touches
  <2>8. Stored(a)'
    <3>1. CASE o.pc = "fail"  BY <2>3, <3>1, Light
    <3>2. CASE o.pc = "decrypt"
      BY <2>2, <2>3, <2>4, <3>2 DEF Stored, Locked, Compared, Staged, Drawing, Draws
    <3>3. CASE o.pc = "copy" /\ op[a].kind = "clone"
      <4>1. /\ op[a].of \in Profiles /\ owner[op[a].of] = a
            /\ disk[op[a].of].content = preview[op[a].token].content
        BY <1>1, <2>4, <3>3 DEF Fit, Stored, Locked, Compared, Holding, Ahead
      <4>2. owner'[op[a].of] = a /\ disk'[op[a].of] = disk[op[a].of]
        BY <2>4, <2>5, <2>6, <4>1 DEF Ids
      <4> QED BY <2>2, <2>3, <2>4, <3>3, <4>1, <4>2 DEF Stored, Locked, Compared, Staged, Drawing, Draws
    <3> QED BY <2>2, <3>1, <3>2, <3>3
  <2> QED BY <2>2, <2>3, <2>4, <2>7, <2>8, StepsShow, StoringOn DEF Ids
<1>22. CASE Copy(a) \/ Unpack(a)
  <2>1. op[a].pc \in {"copy", "unpack"} /\ UNCHANGED <<row, owner, preview>>
    BY <1>22 DEF Copy, Unpack, Stage, At
  <2>2. op[a].target \in Targets /\ row[op[a].target].state = "none"
    BY <1>1, <2>1 DEF Fit, Stored, Drawing, Draws
  <2>3. CASE Goto(a, "fail") /\ UNCHANGED disk  BY <2>1, <2>3, <1>5 DEF Follows
  <2>4. CASE /\ disk' = [disk EXCEPT ![op[a].target] = [dir |-> "staged", content |-> preview[op[a].token].content]]
             /\ Goto(a, "install")
    <3>1. SameButPc(op[a], op'[a], "install") /\ Others(a)  BY <1>2, <2>1, <2>4 DEF Follows
    <3>2. disk'[op[a].target].content = preview[op[a].token].content /\ \A i \in Ids \ {op[a].target} : disk'[i] = disk[i]
      BY <2>2, <2>4 DEF Typed, DisksTyped, Ids
    <3>3. Stored(a)'
      BY <2>1, <2>2, <3>1, <3>2 DEF SameButPc, Stored, Locked, Compared, Staged, Drawing, Draws
    <3> QED BY <2>1, <2>2, <3>1, <3>2, <3>3, StoringThere DEF SameButPc
  <2>5. Copy(a) => disk[op[a].of].content = preview[op[a].token].content
    BY <1>1 DEF Copy, At, Stored, Compared
  <2> QED BY <1>22, <2>3, <2>4, <2>5 DEF Copy, Unpack, Stage
<1>23. CASE Decrypt(a)
  <2>1. CASE Goto(a, "fail")  BY <1>23, <2>1, <1>5 DEF Decrypt, At, Follows, Unreadable
  <2>2. CASE Goto(a, "inspect")  BY <1>23, <2>2, <1>6 DEF Decrypt, At, Follows, Unreadable
  <2> QED BY <1>23, <2>1, <2>2 DEF Decrypt, Unreadable
<1>24. CASE InspectArchive(a)
  <2>1. op[a].pc = "inspect" /\ UNCHANGED <<row, disk, owner, preview>>  BY <1>24 DEF InspectArchive, At
  <2>2. CASE Goto(a, "fail")  BY <2>1, <2>2, <1>5 DEF Follows
  <2>3. CASE Goto(a, IF op[a].kind = "export" THEN "seal" ELSE "unpack")
    <3>1. PICK p \in {"seal", "unpack"} : p = (IF op[a].kind = "export" THEN "seal" ELSE "unpack")  OBVIOUS
    <3>2. Follows(op[a], p) /\ Goto(a, p)  BY <2>1, <2>3, <3>1 DEF Follows
    <3> QED BY <2>1, <3>1, <3>2, <1>6
  <2> QED BY <1>24, <2>2, <2>3 DEF InspectArchive
<1>25. CASE Archive(a)
  <2>1. op[a].pc = "archive" /\ UNCHANGED <<row, disk, owner, preview>>  BY <1>25 DEF Archive, At
  <2>2. CASE Goto(a, "fail")  BY <2>1, <2>2, <1>5 DEF Follows
  <2>3. CASE Goto(a, "inspect")  BY <2>1, <2>3, <1>6 DEF Follows
  <2> QED BY <1>25, <2>2, <2>3 DEF Archive
<1>26. CASE Install(a)
  <2>1. op[a].pc = "install" /\ UNCHANGED <<row, owner, preview>>  BY <1>26 DEF Install, At
  <2>2. /\ op[a].target \in Targets /\ row[op[a].target].state = "none"
        /\ disk[op[a].target].content = preview[op[a].token].content
    BY <1>1, <2>1 DEF Fit, Stored, Drawing, Staged, Draws
  <2>3. \A i \in Ids \ {op[a].target} : disk'[i] = disk[i]
    BY <1>26 DEF Install, Typed, DisksTyped
  <2>4. CASE disk' = [disk EXCEPT ![op[a].target].dir = "full"] /\ Goto(a, "create")
    <3>1. SameButPc(op[a], op'[a], "create") /\ Others(a)  BY <1>2, <2>1, <2>4 DEF Follows
    <3>2. disk'[op[a].target].content = preview[op[a].token].content /\ disk'[op[a].target].dir = "full"
      BY <2>2, <2>4 DEF Typed, DisksTyped, Storages, Ids
    <3>3. Stored(a)'
      BY <2>1, <2>2, <3>1, <3>2 DEF SameButPc, Stored, Locked, Compared, Staged, Drawing, Draws
    <3> QED BY <2>1, <2>2, <2>3, <3>1, <3>3, StoringThere DEF SameButPc
  <2>5. CASE Goto(a, "fail")
    <3>1. SameButPc(op[a], op'[a], "fail") /\ Others(a)  BY <1>2, <2>1, <2>5 DEF Follows
    <3>2. Stored(a)'  BY <3>1, Light DEF SameButPc
    <3> QED BY <2>1, <2>2, <2>3, <3>1, <3>2, StoringThere DEF SameButPc
  <2> QED BY <1>26, <2>4, <2>5 DEF Install
<1>27. CASE CreateRow(a)
  <2>1. op[a].pc = "create" /\ UNCHANGED <<disk, owner, preview>>  BY <1>27 DEF CreateRow, At
  <2>2. CASE Goto(a, "fail") /\ UNCHANGED row  BY <2>1, <2>2, <1>5 DEF Follows
  <2>3. CASE row' = [row EXCEPT ![op[a].target] = [state |-> "ready", version |-> 1]] /\ Goto(a, "finish")
    <3>1. SameButPc(op[a], op'[a], "finish") /\ Others(a)  BY <1>2, <2>1, <2>3 DEF Follows
    <3>2. /\ op[a].target \in Targets /\ disk[op[a].target].dir = "full" /\ op[a].kind # "export"
          /\ disk[op[a].target].content = preview[op[a].token].content
      BY <1>1, <2>1 DEF Fit, Stored, Staged, Draws
    <3>3. \A i \in Ids \ {op[a].target} : row'[i] = row[i]
      BY <2>3 DEF Typed, RowsTyped
    <3>4. Stored(a)'
      BY <2>1, <3>1, <3>2 DEF SameButPc, Stored, Locked, Compared, Staged, Drawing, Draws
    <3> QED BY <2>1, <3>1, <3>2, <3>3, <3>4, StoringThere DEF SameButPc
  <2> QED BY <1>27, <2>2, <2>3 DEF CreateRow
<1>28. CASE Finish(a) \/ Fail(a)  BY <1>28, <1>5 DEF Finish, Fail, At, Follows
<1>29. CASE Seal(a)
  <2>1. op[a].pc = "seal" /\ UNCHANGED <<row, disk, owner, preview>>  BY <1>29 DEF Seal, At, Encrypt
  <2>2. CASE Goto(a, "fail")  BY <2>1, <2>2, <1>5 DEF Follows
  <2>3. CASE op' = [op EXCEPT ![a].pc = "finish", ![a].content = disk[op[a].of].content]
    <3>1. PICK o \in Operations :
            /\ Begins(a, o) /\ o.pc = "finish" /\ o.kind = "export" /\ o.token = op[a].token /\ o.target = None
            /\ o.content = disk[op[a].of].content
      BY <1>29, <2>3, Sealed DEF Seal, Typed, Ops, Encrypt
    <3>2. op'[a] = o /\ Others(a)  BY <3>1 DEF Begins, Others, Typed, OpsTyped
    <3>3. disk[op[a].of].content = preview[op[a].token].content
      BY <1>1, <2>1 DEF Stored, Compared
    <3>4. Stored(a)'
      BY <2>1, <3>1, <3>2, <3>3 DEF Stored, Locked, Compared, Staged, Drawing, Draws
    <3> QED BY <2>1, <3>1, <3>2, <3>4, StoringHere
  <2> QED BY <1>29, <2>2, <2>3 DEF Seal, Encrypt
<1>30. CASE Unlock(a)
  <2>1. op[a].pc = "unlock" /\ UNCHANGED <<row, disk>>  BY <1>30 DEF Unlock, At
  <2>2. \A i \in Profiles : owner[i] \notin {None, a} => owner'[i] = owner[i]
    BY <1>30 DEF Unlock, Ids
  <2>3. CASE Ends(a)  BY <2>1, <2>2, <2>3, <1>4
  <2>4. CASE op[a].kind = "export" /\ Goto(a, "serve")
    <3>1. op[a].target = None  BY <1>1, <2>4 DEF Fit
    <3> QED BY <2>1, <2>2, <2>4, <3>1, <1>4 DEF Follows
  <2>5. CASE op[a].target # None /\ row[op[a].target].state = "none" /\ Goto(a, "discard")
    <3>1. SameButPc(op[a], op'[a], "discard") /\ Others(a)  BY <1>2, <2>1, <2>5 DEF Follows
    <3>2. Stored(a)'
      BY <2>1, <2>5, <3>1 DEF SameButPc, Stored, Locked, Compared, Staged, Drawing, Draws
    <3> QED BY <2>1, <2>2, <3>1, <3>2, StoringHere DEF SameButPc
  <2> QED BY <1>30, <2>3, <2>4, <2>5 DEF Unlock
<1>31. CASE Discard(a)
  <2>1. op[a].pc = "discard" /\ UNCHANGED <<row, owner>> /\ Ends(a)  BY <1>31 DEF Discard, At
  <2>2. op[a].target \in Targets /\ row[op[a].target].state = "none"
    BY <1>1, <2>1 DEF Fit, Stored, Drawing, Draws
  <2>3. \A i \in Ids \ {op[a].target} : disk'[i] = disk[i]
    BY <1>31 DEF Discard, Typed, DisksTyped
  <2> QED BY <2>1, <2>2, <2>3, <1>3, StoringThere
<1>32. CASE Serve(a)  BY <1>32, <1>5 DEF Serve
<1> QED
  BY <1>11, <1>12, <1>13, <1>14, <1>15, <1>16, <1>17, <1>18, <1>19, <1>20, <1>21, <1>22, <1>23, <1>24, <1>25,
     <1>26, <1>27, <1>28, <1>29, <1>30, <1>31, <1>32 DEF Step
LEMMA InitStoring == ASSUME Init PROVE Storing
<1>1. \A a \in Threads : op[a].pc = "idle" /\ op[a].target = None
  BY DEF Init, NoOp
<1>2. \A i \in Targets : row[i].state = "none"
  BY TransferAssumption DEF Init, Ids, NoRow
<1> QED
  BY <1>1, <1>2 DEF Storing, Stored, Single, Complete, Locked, Compared, Staged, Drawing, Draws

LEMMA NextStoring ==
  ASSUME Typed, Typed', Storing, [Next]_vars PROVE Storing'
<1>1. ASSUME NEW a \in Threads, Requests(a) PROVE Storing'
  <2>1. PICK o \in Operations : Begins(a, o) /\ o.pc \in {"look", "register", "claim"} /\ o.target = None
    BY <1>1, Started DEF Typed, Ops
  <2>2. row' = row /\ disk' = disk /\ owner' = owner /\ preview' = preview
    BY <1>1, Started DEF Typed, Ops, storage
  <2>3. op'[a] = o /\ Others(a)
    BY <2>1 DEF Begins, Others, Typed, OpsTyped
  <2>4. Stored(a)'
    BY <2>1, <2>3, Light
  <2>5. Shows /\ Spares(a)
    BY <2>2 DEF Shows, Spares
  <2> QED BY <2>1, <2>2, <2>3, <2>4, <2>5, StoringOn
<1>2. CASE \E a \in Threads : Requests(a) \/ Step(a)
  BY <1>1, <1>2, StepsStoring
<1>3. CASE \E t \in Tokens : Expire(t)
  <2>1. PICK t \in Tokens : Expire(t)  BY <1>3
  <2>2. Shows  BY <2>1, Expires, ShowsOn DEF Typed
  <2>3. op' = op /\ owner' = owner /\ row' = row /\ disk' = disk  BY <2>1 DEF Expire, storage
  <2> QED BY <2>2, <2>3, RestStoring
<1>4. CASE \E t \in Tokens, c \in Controls : Cancel(t, c)
  <2>1. PICK t \in Tokens, c \in Controls : Cancel(t, c)  BY <1>4
  <2>2. PICK S \in SUBSET Tokens :
           /\ Drop(S) /\ \A u \in S : preview[u].state = "pending"
           /\ UNCHANGED <<row, storage, owner, plain, artifacts, op, up, lost, commits>>
    BY <2>1, Cancels DEF Typed, Ops
  <2>3. \A u \in S : preview[u].state # "unused"  BY <2>2
  <2>4. Shows  BY <2>2, <2>3, Drops, ShowsOn DEF Typed
  <2>5. op' = op /\ owner' = owner /\ row' = row /\ disk' = disk  BY <2>2 DEF storage
  <2> QED BY <2>4, <2>5, RestStoring
<1>5. CASE (\E p \in Profiles : Edit(p)) \/ CreateService \/ UNCHANGED vars
  <2>1. op' = op /\ preview' = preview
    BY <1>5 DEF Edit, UpdateProfile, ArchiveOrRestore, OpenSession, CloseSession, CreateService, vars, Sweep
  <2>2. Shows  BY <2>1 DEF Shows
  <2>3. /\ \A i \in Profiles : owner[i] \in Threads => owner'[i] = owner[i] /\ disk'[i] = disk[i]
        /\ \A i \in Targets : row'[i] = row[i] /\ disk'[i] = disk[i]
    <3>1. CASE CreateService \/ UNCHANGED vars  BY <3>1 DEF CreateService, vars, storage, Sweep
    <3>2. ASSUME NEW p \in Profiles, Edit(p)
          PROVE  /\ \A i \in Profiles : owner[i] \in Threads => owner'[i] = owner[i] /\ disk'[i] = disk[i]
                 /\ \A i \in Targets : row'[i] = row[i] /\ disk'[i] = disk[i]
      <4>1. owner[p] \notin Threads \/ (owner' = owner /\ disk' = disk)
        BY <3>2, TransferAssumption DEF Edit, UpdateProfile, ArchiveOrRestore, OpenSession, CloseSession, storage
      <4>2. \A i \in Ids \ {p} : row'[i] = row[i] /\ disk'[i] = disk[i] /\ owner'[i] = owner[i]
        BY <3>2 DEF Edit, UpdateProfile, ArchiveOrRestore, OpenSession, CloseSession, storage,
           Typed, RowsTyped, DisksTyped, OwnersTyped
      <4> QED BY <4>1, <4>2, TransferAssumption DEF Ids
    <3> QED BY <1>5, <3>1, <3>2
  <2> QED BY <2>1, <2>2, <2>3, RestStoring
<1>6. CASE Crash
  <2>1. \A a \in Threads : op'[a] = NoOp  BY <1>6 DEF Crash
  <2>2. row' = row /\ disk' = disk  BY <1>6 DEF Crash, storage
  <2>3. \A a \in Threads : Stored(a)'  BY <2>1, Light DEF NoOp
  <2>4. Single'  BY <2>1 DEF Single, NoOp
  <2>5. Complete'  BY <2>2 DEF Storing, Complete
  <2> QED BY <2>3, <2>4, <2>5 DEF Storing
<1> QED BY <1>2, <1>3, <1>4, <1>5, <1>6, Cases

LEMMA StoringHolds == Spec => [](Typed /\ Storing)
<1>1. Init => Typed /\ Storing
  BY InitTyped, InitStoring
<1>2. Typed /\ Storing /\ [Next]_vars => (Typed /\ Storing)'
  BY NextTyped, NextStoring
<1> QED BY <1>1, <1>2, PTL DEF Spec

(* What was cloned, restored or exported is what the preview showed, and a  *)
(* Profile that a transfer registered has its whole storage.                *)
THEOREM Previewed == Spec => []TransferIsPreviewed
<1>1. ASSUME Typed, Storing PROVE TransferIsPreviewed
  <2>1. ASSUME NEW a \in Threads, op[a].pc = "finish"
        PROVE  preview[op[a].token].content =
                 IF op[a].kind = "export" THEN op[a].content ELSE disk[op[a].target].content
    BY <1>1, <2>1 DEF Storing, Stored, Staged
  <2> QED BY <1>1, <2>1 DEF TransferIsPreviewed, At, Storing, Complete
<1> QED BY <1>1, StoringHolds, PTL
-----------------------------------------------------------------------------
(* An operation that is over leaves nothing behind.                         *)

(* A preview in progress is held; a locked id has an operation at work; a   *)
(* bundle that was received has its preview, an archive and an artifact     *)
(* their operation; so has a directory without a row.                       *)
InUse(t) == preview[t].state = "pending" /\ preview[t].busy
Freed(t) == ~(preview'[t].state = "pending" /\ preview'[t].busy)
Busy == \A t \in Tokens : InUse(t) => t \in lost \/ \E a \in Threads : op[a].pc \in Holding /\ op[a].token = t

Resting == {"idle", "look", "register", "claim", "check", "lock", "discard", "serve"}
Owned(o, i) == o.pc \notin Resting /\ (o.pc = "fingerprint" => o.of = i)
Working == \A i \in Ids : owner[i] \in Threads => Owned(op[owner[i]], i)

Bundles == {"export", "restore"}
Packed == {"inspect", "unpack", "install", "create", "finish", "seal", "fail", "unlock"}
Serving == \A a \in Threads : op[a].kind \in Bundles => up
Receives(o) == o.pc \in {"look", "register"} /\ o.kind = "restore"
Received == up => \A x \in uploads : x \in Pending({"restore"}) \/ (x \in Threads /\ Receives(op[x]))
Unpacked == up => \A a \in plain : op[a].pc \in Packed /\ op[a].kind \in Bundles
Sent == up => \A a \in artifacts : op[a].pc \in {"finish", "unlock", "serve"} /\ op[a].kind = "export"

Tracked ==
  \A i \in Targets \ lost : disk[i].dir # "absent" /\ row[i].state = "none" => \E a \in Threads : op[a].target = i

(* Where an operation may end, and how one goes on.                         *)
Ending == {"look", "fingerprint", "register", "claim", "check", "lock", "unlock", "discard", "serve"}
Turns(o, n) ==
  /\ n.kind = o.kind /\ n.token = o.token /\ (n.target = o.target \/ o.pc = "target")
  /\ \/ Follows(o, n.pc)
     \/ o.pc \in {"look", "fingerprint"} /\ n.pc = "register"
     \/ o.pc = "target" /\ n.pc \in {"copy", "decrypt", "fail"}
     \/ o.pc = "seal" /\ n.pc = "finish"
Moves(a) == Others(a) /\ ((op'[a] = NoOp /\ op[a].pc \in Ending) \/ Turns(op[a], op'[a]))

LEMMA Moving == ASSUME Typed, NEW a \in Threads, Step(a) PROVE Moves(a)
<1>1. op[a] \in Operations /\ Fit(op[a])
  BY DEF Typed, OpsTyped, Fits
<1>2. ASSUME NEW p, Follows(op[a], p), Goto(a, p) PROVE Moves(a)
  <2>1. p \in Labels  BY <1>2 DEF Follows, Labels
  <2>2. SameButPc(op[a], op'[a], p) /\ Others(a)  BY <1>2, <2>1, Goes DEF Typed
  <2> QED BY <1>2, <2>2 DEF Moves, Turns, SameButPc
<1>3. ASSUME Ends(a), op[a].pc \in Ending PROVE Moves(a)
  BY <1>3, EndsHere DEF Moves, Typed
<1>4. ASSUME NEW o \in Operations, Begins(a, o) PROVE op'[a] = o /\ Others(a)
  BY <1>4 DEF Begins, Others, Typed, OpsTyped
<1>11. CASE Look(a)  BY <1>11, <1>2, <1>3 DEF Look, At, Follows, Ending
<1>12. CASE Fingerprint(a) \/ InspectUpload(a)
  <2>1. CASE Ends(a)  BY <1>12, <2>1, <1>3 DEF Fingerprint, InspectUpload, At, Ending
  <2>2. CASE \/ At(a, "fingerprint") /\ op' = [op EXCEPT ![a].pc = "register", ![a].content = disk[op[a].of].content]
             \/ At(a, "look") /\ op[a].kind = "restore" /\ op' = [op EXCEPT ![a].pc = "register", ![a].content = stamp]
    <3>1. PICK o \in Operations : Begins(a, o) /\ o.pc = "register" /\ o.kind = op[a].kind /\ o.target = None
      BY <2>2, Fingerprinted DEF Typed, Ops
    <3>2. op[a].target = None  BY <1>1, <2>2 DEF Fit, Draws, At
    <3>3. op'[a] = o /\ Others(a)  BY <3>1, <1>4
    <3>4. op'[a].token = op[a].token  BY <2>2 DEF Typed, OpsTyped, Operations
    <3> QED BY <2>2, <3>1, <3>2, <3>3, <3>4 DEF Moves, Turns, At
  <2> QED BY <1>12, <2>1, <2>2 DEF Fingerprint, InspectUpload
<1>14. CASE RegisterImport(a) \/ RegisterClone(a) \/ RegisterExport(a) \/ RegisterRestore(a)
  BY <1>14, <1>3 DEF RegisterImport, RegisterClone, RegisterExport, RegisterRestore, Put, At, Ending
<1>15. CASE Claim(a)  BY <1>15, <1>2, <1>3 DEF Claim, At, Follows, Ending
<1>16. CASE Check(a)  BY <1>16, <1>2, <1>3 DEF Check, At, Follows, Ending, Strand
<1>17. CASE Lock(a)  BY <1>17, <1>2, <1>3 DEF Lock, At, Follows, Ending, Strand
<1>18. CASE Import(a) \/ Mark(a)  BY <1>18, <1>2 DEF Import, Mark, At, Follows, MarkBootstrapSource
<1>20. CASE Compare(a) \/ BuildManifest(a)  BY <1>20, <1>2 DEF Compare, BuildManifest, At, Follows
<1>21. CASE \E i \in Targets : Draw(a, i)
  <2>1. PICK i \in Targets : Draw(a, i)  BY <1>21
  <2>2. PICK o \in Operations :
          /\ Begins(a, o) /\ o.kind = op[a].kind /\ o.token = op[a].token
          /\ o.pc = "fail" \/ o.pc = IF op[a].kind = "clone" THEN "copy" ELSE "decrypt"
    BY <2>1, DrawnTarget DEF Typed, Ops
  <2>3. op'[a] = o /\ Others(a)  BY <2>2, <1>4
  <2> QED BY <2>1, <2>2, <2>3 DEF Moves, Turns, Draw, At
<1>22. CASE Copy(a) \/ Unpack(a)  BY <1>22, <1>2 DEF Copy, Unpack, Stage, At, Follows
<1>23. CASE Decrypt(a) \/ Install(a)  BY <1>23, <1>2 DEF Decrypt, Install, At, Follows, Unreadable
<1>24. CASE InspectArchive(a)  BY <1>24, <1>2 DEF InspectArchive, At, Follows
<1>25. CASE CreateRow(a) \/ Archive(a)  BY <1>25, <1>2 DEF CreateRow, Archive, At, Follows
<1>27. CASE Finish(a) \/ Fail(a)  BY <1>27, <1>2 DEF Finish, Fail, At, Follows
<1>28. CASE Seal(a)
  <2>1. CASE Goto(a, "fail")  BY <1>28, <2>1, <1>2 DEF Seal, At, Follows, Encrypt
  <2>2. CASE op' = [op EXCEPT ![a].pc = "finish", ![a].content = disk[op[a].of].content]
    <3>1. PICK o \in Operations : /\ Begins(a, o) /\ o.pc = "finish" /\ o.kind = "export" /\ o.token = op[a].token
                                 /\ o.target = None /\ op[a].kind = "export"
      BY <1>28, <2>2, Sealed DEF Seal, Typed, Ops, Encrypt
    <3>2. op[a].target = None  BY <1>1, <3>1 DEF Fit
    <3>3. op'[a] = o /\ Others(a)  BY <3>1, <1>4
    <3> QED BY <1>28, <3>1, <3>2, <3>3 DEF Moves, Turns, Seal, At, Encrypt
  <2> QED BY <1>28, <2>1, <2>2 DEF Seal, Encrypt
<1>30. CASE Unlock(a)
  <2>1. op[a].pc = "unlock"  BY <1>30 DEF Unlock, At
  <2>2. CASE Ends(a)  BY <2>1, <2>2, <1>3 DEF Ending
  <2>3. CASE op[a].target # None /\ Goto(a, "discard")  BY <2>1, <2>3, <1>2 DEF Follows
  <2>4. CASE op[a].kind = "export" /\ Goto(a, "serve")
    <3>1. op[a].target = None  BY <1>1, <2>4 DEF Fit
    <3> QED BY <2>1, <2>4, <3>1, <1>2 DEF Follows
  <2> QED BY <1>30, <2>2, <2>3, <2>4 DEF Unlock
<1>31. CASE Discard(a) \/ Serve(a)  BY <1>31, <1>3 DEF Discard, Serve, At, Ending
<1> QED
  BY <1>11, <1>12, <1>14, <1>15, <1>16, <1>17, <1>18, <1>20, <1>21, <1>22, <1>23, <1>24, <1>25, <1>27, <1>28,
     <1>30, <1>31 DEF Step

(* Previews in progress.                                                    *)
LEMMA BusyOn ==
  ASSUME Busy, NEW a \in Threads, Others(a), lost \subseteq lost',
         op[a].pc \in Holding => \/ op'[a].pc \in Holding /\ op'[a].token = op[a].token
                                 \/ Freed(op[a].token) \/ op[a].token \in lost',
         \A t \in Tokens : InUse(t)' => InUse(t) \/ (op'[a].pc \in Holding /\ op'[a].token = t)
  PROVE  Busy'
<1> SUFFICES ASSUME NEW t \in Tokens, InUse(t)', t \notin lost'
             PROVE  \E b \in Threads : op'[b].pc \in Holding /\ op'[b].token = t
  BY DEF Busy
<1>1. CASE op'[a].pc \in Holding /\ op'[a].token = t  BY <1>1
<1>2. CASE InUse(t) /\ ~(op'[a].pc \in Holding /\ op'[a].token = t)
  <2>1. PICK b \in Threads : op[b].pc \in Holding /\ op[b].token = t  BY <1>2 DEF Busy
  <2>2. b # a  BY <1>2, <2>1 DEF InUse, Freed
  <2> QED BY <2>1, <2>2 DEF Others
<1> QED BY <1>1, <1>2

\* What is left behind stays on record.
LEMMA StepsLose == ASSUME NEW a \in Threads, Step(a) PROVE lost \subseteq lost'
<1> USE DEF ghosts
<1>1. CASE Look(a) \/ Fingerprint(a) \/ InspectUpload(a)  BY <1>1 DEF Look, Fingerprint, InspectUpload
<1>2. CASE RegisterImport(a) \/ RegisterClone(a) \/ RegisterExport(a) \/ RegisterRestore(a)
  BY <1>2 DEF RegisterImport, RegisterClone, RegisterExport, RegisterRestore, Put
<1>3. CASE Claim(a) \/ Check(a) \/ Lock(a)  BY <1>3 DEF Claim, Check, Lock, Strand
<1>4. CASE Import(a) \/ Mark(a) \/ Compare(a) \/ BuildManifest(a)  BY <1>4 DEF Import, Mark, Compare, BuildManifest
<1>5. CASE (\E i \in Targets : Draw(a, i)) \/ Copy(a) \/ Unpack(a) \/ Decrypt(a) \/ InspectArchive(a)
  BY <1>5 DEF Draw, Copy, Unpack, Stage, Decrypt, InspectArchive
<1>6. CASE Install(a) \/ CreateRow(a) \/ Finish(a) \/ Archive(a) \/ Seal(a)
  BY <1>6 DEF Install, CreateRow, Finish, Archive, Seal
<1>7. CASE Fail(a) \/ Unlock(a) \/ Discard(a) \/ Serve(a)  BY <1>7 DEF Fail, Unlock, Discard, Serve
<1> QED BY <1>1, <1>2, <1>3, <1>4, <1>5, <1>6, <1>7 DEF Step

LEMMA StepsBusy ==
  ASSUME Typed, Claimed, Busy, NEW a \in Threads, Step(a) PROVE Busy'
<1>1. op[a] \in Operations /\ Fit(op[a]) /\ Moves(a) /\ Others(a) /\ lost \subseteq lost'
  BY Moving, StepsLose DEF Typed, OpsTyped, Fits, Moves
<1>2. op[a].pc \in Holding => op[a].token \in Tokens
  BY <1>1 DEF Fit
<1>3. NoOp.pc \notin Holding  BY DEF NoOp, Holding, Ahead
<1>4. ASSUME UNCHANGED preview,
             op[a].pc \in Holding => op[a].pc = "import" \/ op'[a].pc \in Holding \/ op[a].token \in lost'
      PROVE  Busy'
  <2>1. \A t \in Tokens : InUse(t)' <=> InUse(t)  BY <1>4 DEF InUse
  <2>2. op[a].pc = "import" => Freed(op[a].token)
    BY <1>2, <1>4 DEF Claimed, Held, Holding, Ahead, Freed
  <2>3. op[a].pc \in Holding /\ op'[a].pc \in Holding => op'[a].token = op[a].token
    BY <1>1, <1>3 DEF Moves, Turns
  <2> QED BY <1>1, <1>4, <2>1, <2>2, <2>3, BusyOn
<1>5. ASSUME NotBusy(op[a].token), op[a].pc \in Holding PROVE Busy'
  <2>1. /\ ~preview'[op[a].token].busy /\ preview'[op[a].token].state = preview[op[a].token].state
        /\ \A u \in Tokens \ {op[a].token} : preview'[u] = preview[u]
    BY <1>2, <1>5, Frees DEF Typed
  <2>2. \A t \in Tokens : InUse(t)' => InUse(t)  BY <2>1 DEF InUse
  <2>3. Freed(op[a].token)  BY <2>1 DEF InUse, Freed
  <2> QED BY <1>1, <2>2, <2>3, BusyOn
<1>6. ASSUME NEW S \in SUBSET Tokens, Drop(S), \A t \in S : preview[t].state # "unused",
             op[a].pc \in Holding => op[a].token \in S
      PROVE  Busy'
  <2>1. \A t \in Tokens : /\ preview'[t].busy = preview[t].busy
                          /\ preview'[t].state = IF t \in S THEN "gone" ELSE preview[t].state
    BY <1>6, Drops DEF Typed
  <2>2. \A t \in Tokens : InUse(t)' => InUse(t)  BY <2>1 DEF InUse
  <2>3. op[a].pc \in Holding => Freed(op[a].token)  BY <1>6, <2>1 DEF Freed
  <2> QED BY <1>1, <2>2, <2>3, BusyOn
<1>7. ASSUME Drop({op[a].token}), op[a].pc \in Holding PROVE Busy'
  <2> DEFINE S == {op[a].token}
  <2>1. S \in SUBSET Tokens /\ op[a].token \in S /\ \A t \in S : preview[t].state # "unused"
    BY <1>2, <1>7 DEF Typed, Known
  <2>2. Drop(S)  BY <1>7
  <2> HIDE DEF S
  <2> QED BY <1>6, <2>1, <2>2
<1>8. ASSUME NEW k \in Kinds, Put(a, k) PROVE Busy'
  <2>1. PICK t \in Tokens, S \in SUBSET Pending(Kinds) :
           /\ t \notin Used /\ Used' = Used \cup {t} /\ PreviewsTyped' /\ Drawn' /\ Bound'
           /\ preview'[t].state = "pending" /\ preview'[t].kind = k /\ ~preview'[t].busy
           /\ \A u \in Used : /\ Same(preview[u], preview'[u]) /\ preview'[u].busy = preview[u].busy
                              /\ preview'[u].state = IF u \in S THEN "gone" ELSE preview[u].state
           /\ uploads' = IF k = "restore" THEN (uploads \ (S \cup {a})) \cup {t} ELSE uploads \ S
    BY <1>8, Puts, ZenonT(60)
  <2>2. op[a].pc \notin Holding  BY <1>8 DEF Put, At, Holding, Ahead
  <2>3. ASSUME NEW u \in Tokens, InUse(u)' PROVE InUse(u)
    <3>1. u \in Used \cup {t}  BY <2>1, <2>3 DEF Used, InUse
    <3>2. u # t  BY <2>1, <2>3 DEF InUse
    <3> QED BY <2>1, <2>3, <3>1, <3>2 DEF InUse
  <2> QED BY <1>1, <2>2, <2>3, BusyOn
<1>14. CASE RegisterImport(a) \/ RegisterClone(a) \/ RegisterExport(a) \/ RegisterRestore(a)
  BY <1>8, <1>14, Kept DEF RegisterImport, RegisterClone, RegisterExport, RegisterRestore
<1>15. CASE Claim(a)
  <2> DEFINE t == op[a].token  S == Dead(op[a].kind)
  <2>1. op[a].pc = "claim" /\ t \in Tokens /\ preview[t].state # "unused"
    BY <1>15 DEF Claim, At, Fit, Typed, Fits, Known
  <2>2. S \in SUBSET Tokens /\ \A u \in S : preview[u].state = "pending"
    BY DEF Dead, Pending
  <2>3. op[a].pc \notin Holding  BY <2>1 DEF Holding, Ahead
  <2>4. CASE Drop({t})
    <3> DEFINE T == {t}
    <3>1. T \in SUBSET Tokens /\ \A u \in T : preview[u].state # "unused"  BY <2>1
    <3>2. Drop(T)  BY <2>4
    <3> HIDE DEF T
    <3> QED BY <1>6, <2>3, <3>1, <3>2
  <2>5. CASE Drop(S)
    <3>1. \A u \in S : preview[u].state # "unused"  BY <2>2
    <3> HIDE DEF S
    <3> QED BY <1>6, <2>2, <2>3, <2>5, <3>1
  <2>6. CASE Marks(t, S) /\ Goto(a, IF op[a].kind = "restore" THEN "target" ELSE "check")
    <3>1. /\ op'[a].token = t /\ op'[a].pc \in {"target", "check"}
      BY <2>6, Goes DEF SameButPc, Labels, Typed
    <3>2. op'[a].pc \in Holding  BY <3>1 DEF Holding, Ahead
    <3>3. \A u \in Tokens : /\ preview'[u].state = IF u \in S THEN "gone" ELSE preview[u].state
                            /\ u \notin S => (preview'[u].busy <=> preview[u].busy \/ u = t)
      <4> HIDE DEF S, t
      <4> QED BY <2>1, <2>2, <2>6, Claims DEF Typed
    <3>4. \A u \in Tokens : InUse(u)' => InUse(u) \/ u = t
      BY <2>2, <3>3 DEF InUse
    <3> HIDE DEF S, t
    <3> QED BY <1>1, <2>3, <3>1, <3>2, <3>4, BusyOn
  <2> QED BY <1>15, <2>4, <2>5, <2>6 DEF Claim, Marks
<1>16. CASE Check(a)
  <2>1. op[a].pc \in Holding /\ op[a].pc = "check"  BY <1>16 DEF Check, At, Holding, Ahead
  <2>2. CASE Goto(a, "lock") /\ UNCHANGED preview
    <3>1. op'[a].pc = "lock"  BY <2>2, Goes DEF SameButPc, Labels, Typed
    <3> QED BY <2>2, <3>1, <1>4 DEF Holding, Ahead
  <2>3. CASE Strand(a) /\ UNCHANGED preview  BY <2>3, <1>4 DEF Strand
  <2> QED BY <1>16, <2>1, <2>2, <2>3, <1>5 DEF Check
<1>17. CASE Lock(a)
  <2>1. op[a].pc \in Holding /\ op[a].pc = "lock"  BY <1>17 DEF Lock, At, Holding, Ahead
  <2>2. CASE Goto(a, "compare") /\ UNCHANGED preview
    <3>1. op'[a].pc = "compare"  BY <2>2, Goes DEF SameButPc, Labels, Typed
    <3> QED BY <2>2, <3>1, <1>4 DEF Holding, Ahead
  <2>4. CASE Strand(a) /\ UNCHANGED preview  BY <2>4, <1>4 DEF Strand
  <2>3. \/ Drop({op[a].token}) \/ NotBusy(op[a].token)
        \/ (Goto(a, "compare") \/ Strand(a)) /\ UNCHANGED preview
    BY <1>17 DEF Lock, NoDrop
  <2> QED BY <2>1, <2>2, <2>3, <2>4, <1>5, <1>7
<1>20. CASE Compare(a) \/ BuildManifest(a)
  <2>1. op[a].pc \in Holding /\ op[a].pc \in {"compare", "manifest"}
    BY <1>20 DEF Compare, BuildManifest, At, Holding, Ahead
  <2>2. ASSUME NEW p \in {"target", "manifest", "archive", "fail"}, Goto(a, p), UNCHANGED preview PROVE Busy'
    <3>1. p \in Labels /\ p \in Holding  BY DEF Labels, Holding, Ahead
    <3>2. op'[a].pc = p  BY <2>2, <3>1, Goes DEF SameButPc, Typed
    <3> QED BY <2>2, <3>1, <3>2, <1>4
  <2>3. \/ Drop({op[a].token})
        \/ \E p \in {"target", "manifest", "archive", "fail"} : Goto(a, p) /\ UNCHANGED preview
    BY <1>20 DEF Compare, BuildManifest, NoDrop
  <2> QED BY <2>1, <2>2, <2>3, <1>7
<1>26. CASE Finish(a) \/ Fail(a)
  <2>1. op[a].pc \in Holding  BY <1>26 DEF Finish, Fail, At, Holding, Ahead
  <2> QED BY <1>26, <2>1, <1>5, <1>7 DEF Finish, Fail
\* The others leave the previews alone, and go on.
<1>30. ASSUME UNCHANGED preview,
              op[a].pc \in {"look", "fingerprint", "import", "mark", "target", "copy", "decrypt", "inspect", "unpack",
                            "install", "create", "archive", "seal", "unlock", "discard", "serve"}
       PROVE  Busy'
  <2>1. op[a].pc \in Holding => op[a].pc = "import" \/ op'[a].pc \in Holding
    <3>1. op[a].pc \in Holding => op[a].pc \notin Ending  BY <1>30 DEF Holding, Ahead, Ending
    <3> QED BY <1>1, <1>30, <3>1 DEF Moves, Turns, Follows, Holding, Ahead
  <2> QED BY <1>4, <1>30, <2>1
<1>31. CASE Look(a) \/ Fingerprint(a) \/ InspectUpload(a) \/ Import(a) \/ Mark(a)
  BY <1>30, <1>31 DEF Look, Fingerprint, InspectUpload, Import, Mark, At, MarkBootstrapSource
<1>32. CASE (\E i \in Targets : Draw(a, i)) \/ Copy(a) \/ Decrypt(a) \/ InspectArchive(a) \/ Unpack(a)
  BY <1>30, <1>32 DEF Draw, Copy, Decrypt, InspectArchive, Unpack, Stage, At, Unreadable
<1>33. CASE Install(a) \/ CreateRow(a) \/ Archive(a) \/ Seal(a)
  BY <1>30, <1>33 DEF Install, CreateRow, Archive, Seal, At, Encrypt
<1>34. CASE Unlock(a) \/ Discard(a) \/ Serve(a)
  BY <1>30, <1>34 DEF Unlock, Discard, Serve, At
<1> QED BY <1>14, <1>15, <1>16, <1>17, <1>20, <1>26, <1>31, <1>32, <1>33, <1>34 DEF Step
(* The locks.                                                               *)
LEMMA WorkingOn ==
  ASSUME Typed, Working, NEW a \in Threads, Others(a),
         \A i \in Ids : owner'[i] \in {owner[i], None, a},
         \A i \in Ids : owner'[i] = a => Owned(op'[a], i)
  PROVE  Working'
<1> SUFFICES ASSUME NEW i \in Ids, owner'[i] \in Threads PROVE Owned(op'[owner'[i]], i)
  BY DEF Working, Owned
<1>1. CASE owner'[i] = a  BY <1>1
<1>2. CASE owner'[i] # a
  <2>1. owner'[i] = owner[i]  BY <1>2, TransferAssumption
  <2>2. op'[owner[i]] = op[owner[i]]  BY <1>2, <2>1 DEF Others
  <2> QED BY <2>1, <2>2 DEF Working
<1> QED BY <1>1, <1>2

LEMMA StepsWorking ==
  ASSUME Typed, Working, NEW a \in Threads, Step(a) PROVE Working'
<1>1. op[a] \in Operations /\ Fit(op[a]) /\ Moves(a) /\ Others(a)
  BY Moving DEF Typed, OpsTyped, Fits, Moves
<1>2. \A i \in Ids : owner[i] = a => Owned(op[a], i)
  BY DEF Working
<1>3. a # None  BY TransferAssumption
\* An operation that holds a lock goes on holding it, or has none.
<1>4. ASSUME UNCHANGED owner, op[a].pc \in Resting \/ op'[a].pc \notin Resting \cup {"fingerprint"} PROVE Working'
  <2>1. \A i \in Ids : owner[i] = a => Owned(op'[a], i)  BY <1>2, <1>4 DEF Owned
  <2> QED BY <1>1, <1>4, <2>1, WorkingOn
<1>5. ASSUME UNCHANGED owner, op[a].pc \notin Resting \cup {"fingerprint", "unlock"} PROVE Working'
  <2>1. op[a].pc \notin Ending  BY <1>5 DEF Ending, Resting
  <2>2. op'[a].pc \notin Resting \cup {"fingerprint"}
    BY <1>1, <1>5, <2>1 DEF Moves, Turns, Follows, Resting
  <2> QED BY <1>4, <1>5, <2>2
<1>11. CASE Look(a)
  <2>1. op[a].pc = "look" /\ op[a].kind # "restore" /\ op[a].pc \in Resting  BY <1>11 DEF Look, At, Resting
  <2>2. CASE UNCHANGED owner  BY <1>4, <2>1, <2>2
  <2>3. CASE owner' = [owner EXCEPT ![op[a].of] = a] /\ Goto(a, "fingerprint")
    <3>1. op'[a].pc = "fingerprint" /\ op'[a].of = op[a].of
      BY <2>3, Goes DEF SameButPc, Labels, Typed
    <3>2. \A i \in Ids : owner'[i] = IF i = op[a].of THEN a ELSE owner[i]
      BY <2>3 DEF Typed, OwnersTyped
    <3>3. \A i \in Ids : owner[i] # a  BY <1>2, <2>1 DEF Owned
    <3>4. \A i \in Ids : owner'[i] = a => Owned(op'[a], i)  BY <3>1, <3>2, <3>3 DEF Owned, Resting
    <3> QED BY <1>1, <3>2, <3>4, WorkingOn
  <2> QED BY <1>11, <2>2, <2>3 DEF Look
<1>12. CASE Fingerprint(a)
  <2>1. op[a].pc = "fingerprint" /\ owner' = [owner EXCEPT ![op[a].of] = None]  BY <1>12 DEF Fingerprint, At
  <2>2. \A i \in Ids : owner'[i] = IF i = op[a].of THEN None ELSE owner[i]
    BY <2>1 DEF Typed, OwnersTyped
  <2>3. \A i \in Ids : owner'[i] # a  BY <1>2, <1>3, <2>1, <2>2 DEF Owned
  <2> QED BY <1>1, <2>2, <2>3, WorkingOn
<1>13. CASE InspectUpload(a) \/ Check(a) \/ Claim(a) \/ Discard(a) \/ Serve(a)
  <2>1. op[a].pc \in Resting /\ UNCHANGED owner
    BY <1>13 DEF InspectUpload, Check, Claim, Discard, Serve, At, Resting
  <2> QED BY <1>4, <2>1
<1>14. CASE RegisterImport(a) \/ RegisterClone(a) \/ RegisterExport(a) \/ RegisterRestore(a)
  <2>1. op[a].pc \in Resting /\ UNCHANGED owner
    BY <1>14 DEF RegisterImport, RegisterClone, RegisterExport, RegisterRestore, Put, At, Resting
  <2> QED BY <1>4, <2>1
<1>17. CASE Lock(a)
  <2>1. op[a].pc = "lock" /\ op[a].pc \in Resting  BY <1>17 DEF Lock, At, Resting
  <2>2. CASE UNCHANGED owner  BY <1>4, <2>1, <2>2
  <2>3. ASSUME NEW p \in {"import", "compare"}, owner' = [owner EXCEPT ![op[a].of] = a], Goto(a, p) PROVE Working'
    <3>0. p \in Labels  BY DEF Labels
    <3>1. op'[a].pc = p
      BY <2>3, <3>0, Goes DEF SameButPc, Typed
    <3>2. \A i \in Ids : owner'[i] \in {owner[i], a}
      BY <2>3 DEF Typed, OwnersTyped
    <3>3. \A i \in Ids : owner'[i] = a => Owned(op'[a], i)  BY <3>1 DEF Owned, Resting
    <3> QED BY <1>1, <3>2, <3>3, WorkingOn
  <2> QED BY <1>17, <2>2, <2>3 DEF Lock
<1>21. CASE \E i \in Targets : Draw(a, i)
  <2>1. PICK i \in Targets : Draw(a, i)  BY <1>21
  <2>2. op[a].pc = "target"  BY <2>1 DEF Draw, At
  <2>3. op'[a].pc \in {"copy", "decrypt", "fail"}
    BY <1>1, <2>2 DEF Moves, Turns, Follows, Ending
  <2>4. \A j \in Ids : owner'[j] \in {owner[j], a}
    BY <2>1 DEF Draw, Typed, OwnersTyped
  <2>5. \A j \in Ids : owner'[j] = a => Owned(op'[a], j)  BY <2>3 DEF Owned, Resting
  <2> QED BY <1>1, <2>4, <2>5, WorkingOn
<1>22. CASE Unlock(a)
  <2>1. \A i \in Ids : owner'[i] = IF owner[i] = a THEN None ELSE owner[i]  BY <1>22 DEF Unlock
  <2>2. \A i \in Ids : owner'[i] # a  BY <1>3, <2>1
  <2> QED BY <1>1, <2>1, <2>2, WorkingOn
<1>23. CASE Import(a) \/ Mark(a) \/ Compare(a) \/ BuildManifest(a) \/ Finish(a) \/ Fail(a)
  <2>1. op[a].pc \notin Resting \cup {"fingerprint", "unlock"} /\ UNCHANGED owner
    BY <1>23 DEF Import, Mark, Compare, BuildManifest, Finish, Fail, At, Resting, MarkBootstrapSource
  <2> QED BY <1>5, <2>1
<1>24. CASE Copy(a) \/ Decrypt(a) \/ InspectArchive(a) \/ Unpack(a) \/ Install(a) \/ CreateRow(a) \/ Archive(a) \/ Seal(a)
  <2>1. op[a].pc \notin Resting \cup {"fingerprint", "unlock"} /\ UNCHANGED owner
    BY <1>24 DEF Copy, Decrypt, InspectArchive, Unpack, Stage, Install, CreateRow, Archive, Seal, At, Resting, Unreadable, Encrypt
  <2> QED BY <1>5, <2>1
<1> QED BY <1>11, <1>12, <1>13, <1>14, <1>17, <1>21, <1>22, <1>23, <1>24 DEF Step

(* The files. A step that drops restores drops their bundles.               *)
Tidy == Serving /\ Received /\ Unpacked /\ Sent

(* A bundle that was received: what stays pending keeps it.                 *)
LEMMA ReceivedOn ==
  ASSUME Received, NEW a \in Threads, Others(a), up' = up,
         \A t \in Tokens : t \in uploads' /\ preview[t].state = "pending" =>
           preview'[t].state = "pending" /\ preview'[t].kind = preview[t].kind,
         \A x \in uploads' : x \in uploads \/ x \in Pending({"restore"})' \/ (x = a /\ Receives(op'[a])),
         a \in uploads' /\ Receives(op[a]) => Receives(op'[a]) \/ a \in Pending({"restore"})'
  PROVE  Received'
<1> SUFFICES ASSUME up, NEW x \in uploads'
             PROVE  x \in Pending({"restore"})' \/ (x \in Threads /\ Receives(op'[x]))
  BY DEF Received, Receives
<1>1. CASE x \in uploads
  <2>1. CASE x \in Pending({"restore"})
    <3>1. x \in Tokens /\ preview[x].state = "pending" /\ preview[x].kind = "restore"  BY <2>1 DEF Pending
    <3>2. preview'[x].state = "pending" /\ preview'[x].kind = "restore"  BY <3>1
    <3> QED BY <3>1, <3>2 DEF Pending
  <2>2. CASE x \in Threads /\ Receives(op[x])
    <3>1. CASE x = a  BY <2>2, <3>1
    <3>2. CASE x # a  BY <2>2, <3>2 DEF Others
    <3> QED BY <3>1, <3>2
  <2> QED BY <1>1, <2>1, <2>2 DEF Received
<1>2. CASE x \notin uploads  BY <1>2
<1> QED BY <1>1, <1>2

LEMMA StepsReceived ==
  ASSUME Typed, Received, NEW a \in Threads, Step(a), up' = up PROVE Received'
<1>1. op[a] \in Operations /\ Fit(op[a]) /\ Moves(a) /\ Others(a)
  BY Moving DEF Typed, OpsTyped, Fits, Moves
<1>2. ASSUME Later, uploads' = uploads, \A t \in Tokens : preview'[t].state = preview[t].state, ~Receives(op[a])
      PROVE  Received'
  <2>1. \A t \in Tokens : preview[t].state = "pending" => preview'[t].kind = preview[t].kind
    BY <1>2 DEF Later, Same
  <2> QED BY <1>1, <1>2, <2>1, ReceivedOn
<1>3. ASSUME preview' = preview, uploads' = uploads, ~Receives(op[a]) PROVE Received'
  BY <1>2, <1>3, Stays DEF Typed
<1>4. ASSUME NEW S \in SUBSET Tokens, Later, uploads' = uploads \ S, ~Receives(op[a]),
             \A t \in Tokens : preview'[t].state = IF t \in S THEN "gone" ELSE preview[t].state
      PROVE  Received'
  <2>1. \A t \in Tokens : t \in uploads' /\ preview[t].state = "pending" =>
           preview'[t].state = "pending" /\ preview'[t].kind = preview[t].kind
    BY <1>4 DEF Later, Same
  <2>2. \A x \in uploads' : x \in uploads  BY <1>4
  <2> QED BY <1>1, <1>4, <2>1, <2>2, ReceivedOn
<1>5. ASSUME NEW S \in SUBSET Tokens, \A t \in S : preview[t].state # "unused", Drop(S), ~Receives(op[a]) PROVE Received'
  <2>1. Later /\ \A t \in Tokens : preview'[t].state = IF t \in S THEN "gone" ELSE preview[t].state
    BY <1>5, Drops DEF Typed
  <2> QED BY <1>4, <1>5, <2>1 DEF Drop
<1>6. ASSUME Drop({op[a].token}), op[a].token \in Tokens, preview[op[a].token].state # "unused", ~Receives(op[a]) PROVE Received'
  <2> DEFINE S == {op[a].token}
  <2>1. S \in SUBSET Tokens /\ \A t \in S : preview[t].state # "unused"  BY <1>6
  <2>2. Drop(S)  BY <1>6
  <2> HIDE DEF S
  <2> QED BY <1>5, <1>6, <2>1, <2>2
<1>7. op[a].pc \in {"claim"} \cup Holding => op[a].token \in Tokens /\ preview[op[a].token].state # "unused"
  BY <1>1 DEF Fit, Typed, Known
<1>8. ASSUME NotBusy(op[a].token), op[a].pc \in Holding, uploads' = uploads, ~Receives(op[a]) PROVE Received'
  <2>1. /\ Later /\ preview'[op[a].token].state = preview[op[a].token].state
        /\ \A u \in Tokens \ {op[a].token} : preview'[u] = preview[u]
    BY <1>7, <1>8, Frees DEF Typed
  <2>2. \A t \in Tokens : preview'[t].state = preview[t].state  BY <2>1
  <2> QED BY <1>2, <1>8, <2>1, <2>2
<1>9. ASSUME NEW k \in Kinds, Put(a, k) PROVE Received'
  <2>1. PICK t \in Tokens, S \in SUBSET Pending(Kinds) :
           /\ t \notin Used /\ Used' = Used \cup {t} /\ PreviewsTyped' /\ Drawn' /\ Bound'
           /\ preview'[t].state = "pending" /\ preview'[t].kind = k /\ ~preview'[t].busy
           /\ \A u \in Used : /\ Same(preview[u], preview'[u]) /\ preview'[u].busy = preview[u].busy
                              /\ preview'[u].state = IF u \in S THEN "gone" ELSE preview[u].state
           /\ uploads' = IF k = "restore" THEN (uploads \ (S \cup {a})) \cup {t} ELSE uploads \ S
    BY <1>9, Puts, ZenonT(60)
  <2>2. op[a].kind = k  BY <1>9 DEF Put
  <2>3. k = "restore" => t \in Pending({"restore"})'  BY <2>1 DEF Pending
  <2>4. \A u \in Tokens : u \in uploads' /\ preview[u].state = "pending" =>
           preview'[u].state = "pending" /\ preview'[u].kind = preview[u].kind
    <3> SUFFICES ASSUME NEW u \in Tokens, u \in uploads', preview[u].state = "pending"
                 PROVE  preview'[u].state = "pending" /\ preview'[u].kind = preview[u].kind
      OBVIOUS
    <3>1. u \in Used  BY DEF Used
    <3>2. u # t  BY <2>1, <3>1
    <3>3. u \notin S  BY <2>1, <3>2
    <3> QED BY <2>1, <3>1, <3>3 DEF Same
  <2>5. \A x \in uploads' : x \in uploads \/ (x = t /\ k = "restore")  BY <2>1
  <2>6. a \in uploads' /\ Receives(op[a]) => a \in Pending({"restore"})'
    <3> SUFFICES ASSUME a \in uploads', Receives(op[a]) PROVE a \in Pending({"restore"})'
      OBVIOUS
    <3>1. k = "restore"  BY <2>2 DEF Receives
    <3>2. a = t  BY <2>1, <3>1
    <3> QED BY <2>3, <3>1, <3>2
  <2>7. \A x \in uploads' : x \in uploads \/ x \in Pending({"restore"})'  BY <2>3, <2>5
  <2> QED BY <1>1, <2>4, <2>6, <2>7, ReceivedOn
<1>11. CASE Look(a) \/ Fingerprint(a)
  <2>1. ~Receives(op[a]) /\ preview' = preview /\ uploads' = uploads
    BY <1>11 DEF Look, Fingerprint, Receives, At, files
  <2> QED BY <1>3, <2>1
<1>13. CASE InspectUpload(a)
  <2>1. op[a].pc = "look" /\ op[a].kind = "restore" /\ preview' = preview  BY <1>13 DEF InspectUpload, At
  <2>2. \A t \in Tokens : preview'[t] = preview[t]  BY <2>1
  <2>3. CASE op' = [op EXCEPT ![a].pc = "register", ![a].content = stamp] /\ UNCHANGED uploads
    <3>1. Receives(op'[a])  BY <2>1, <2>3 DEF Receives, Typed, OpsTyped, Operations
    <3> QED BY <1>1, <2>2, <2>3, <3>1, ReceivedOn
  <2>4. CASE uploads' = uploads \ {a}
    <3>1. a \notin uploads' /\ \A x \in uploads' : x \in uploads  BY <2>4
    <3> QED BY <1>1, <2>2, <3>1, ReceivedOn
  <2> QED BY <1>13, <2>3, <2>4 DEF InspectUpload
<1>14. CASE RegisterImport(a) \/ RegisterClone(a) \/ RegisterExport(a) \/ RegisterRestore(a)
  BY <1>9, <1>14, Kept DEF RegisterImport, RegisterClone, RegisterExport, RegisterRestore
<1>15. CASE Claim(a)
  <2> DEFINE t == op[a].token  S == Dead(op[a].kind)
  <2>1. op[a].pc = "claim" /\ t \in Tokens /\ preview[t].state # "unused" /\ ~Receives(op[a])
    BY <1>7, <1>15 DEF Claim, At, Receives
  <2>2. S \in SUBSET Tokens /\ (\A u \in S : preview[u].state = "pending") /\ \A u \in S : preview[u].state # "unused"
    BY DEF Dead, Pending
  <2>3. CASE Drop({t})  BY <1>6, <2>1, <2>3
  <2>4. CASE Drop(S)
    <3> HIDE DEF S
    <3> QED BY <1>5, <2>1, <2>2, <2>4
  <2>5. CASE Marks(t, S) /\ uploads' = uploads \ S
    <3> HIDE DEF S, t
    <3>1. /\ Later
          /\ \A u \in Tokens : preview'[u].state = IF u \in S THEN "gone" ELSE preview[u].state
      BY <2>1, <2>2, <2>5, Claims DEF Typed
    <3> QED BY <1>4, <2>1, <2>2, <2>5, <3>1
  <2> QED BY <1>15, <2>3, <2>4, <2>5 DEF Claim, Marks
<1>16. CASE Check(a) \/ Fail(a)
  <2>1. op[a].pc \in Holding /\ ~Receives(op[a]) /\ uploads' = uploads
    BY <1>16 DEF Check, Fail, At, Receives, Holding, Ahead, files
  <2> QED BY <1>3, <1>8, <1>16, <2>1 DEF Check, Fail
<1>17. CASE Lock(a)
  <2>1. op[a].pc \in Holding /\ ~Receives(op[a])  BY <1>17 DEF Lock, At, Receives, Holding, Ahead
  <2>2. \/ Drop({op[a].token})
        \/ uploads' = uploads /\ (preview' = preview \/ NotBusy(op[a].token))
    BY <1>17 DEF Lock, NoDrop
  <2> QED BY <1>3, <1>6, <1>7, <1>8, <2>1, <2>2
<1>18. CASE Compare(a) \/ BuildManifest(a) \/ Finish(a)
  <2>1. op[a].pc \in Holding /\ ~Receives(op[a])
    BY <1>18 DEF Compare, BuildManifest, Finish, At, Receives, Holding, Ahead
  <2>2. Drop({op[a].token}) \/ (uploads' = uploads /\ preview' = preview)
    BY <1>18 DEF Compare, BuildManifest, Finish, NoDrop
  <2> QED BY <1>3, <1>6, <1>7, <2>1, <2>2
<1>19. CASE Import(a) \/ Mark(a) \/ (\E i \in Targets : Draw(a, i)) \/ Copy(a) \/ Unpack(a) \/ Decrypt(a)
  <2>1. ~Receives(op[a]) /\ preview' = preview /\ uploads' = uploads
    BY <1>19 DEF Import, Mark, Draw, Copy, Unpack, Stage, Decrypt, Receives, At, files, Unreadable, MarkBootstrapSource
  <2> QED BY <1>3, <2>1
<1>20. CASE InspectArchive(a) \/ Install(a) \/ CreateRow(a) \/ Archive(a) \/ Seal(a)
  <2>1. ~Receives(op[a]) /\ preview' = preview /\ uploads' = uploads
    BY <1>20 DEF InspectArchive, Install, CreateRow, Archive, Seal, Receives, At, files, Encrypt
  <2> QED BY <1>3, <2>1
<1>21. CASE Unlock(a) \/ Discard(a) \/ Serve(a)
  <2>1. ~Receives(op[a]) /\ preview' = preview /\ uploads' = uploads
    BY <1>21 DEF Unlock, Discard, Serve, Receives, At, files
  <2> QED BY <1>3, <2>1
<1> QED BY <1>11, <1>13, <1>14, <1>15, <1>16, <1>17, <1>18, <1>19, <1>20, <1>21 DEF Step

(* The archive, and the artifact, of an operation at work.                  *)
LEMMA StepsUnpacked ==
  ASSUME Typed, Unpacked, NEW a \in Threads, Step(a), up' = up PROVE Unpacked'
<1>1. op[a] \in Operations /\ Fit(op[a]) /\ Moves(a) /\ Others(a)
  BY Moving DEF Typed, OpsTyped, Fits, Moves
<1>2. ASSUME \A b \in plain' : b # a => b \in plain,
             up /\ a \in plain' => op'[a].pc \in Packed /\ op'[a].kind \in Bundles
      PROVE  Unpacked'
  <2>1. plain \subseteq Threads  BY DEF Typed, FilesTyped
  <2> QED BY <1>1, <1>2, <2>1 DEF Unpacked, Others
<1>3. ASSUME plain' = plain, op[a].pc # "unlock" PROVE Unpacked'
  <2>1. ASSUME up, a \in plain PROVE op'[a].pc \in Packed /\ op'[a].kind \in Bundles
    <3>1. op[a].pc \in Packed \ {"unlock"} /\ op[a].kind \in Bundles  BY <1>3, <2>1 DEF Unpacked
    <3>2. op[a].pc \notin Ending  BY <3>1 DEF Packed, Ending
    <3>3. Turns(op[a], op'[a])  BY <1>1, <3>2 DEF Moves
    <3> QED BY <3>1, <3>3 DEF Turns, Follows, Packed, Bundles
  <2> QED BY <1>2, <1>3, <2>1
<1>4. ASSUME plain' \subseteq plain \ {a} PROVE Unpacked'
  BY <1>2, <1>4
<1>11. CASE Look(a) \/ Fingerprint(a) \/ InspectUpload(a) \/ Claim(a) \/ Check(a) \/ Lock(a) \/ Import(a) \/ Mark(a)
  BY <1>3, <1>11 DEF Look, Fingerprint, InspectUpload, Claim, Check, Lock, Import, Mark, At, files, MarkBootstrapSource
<1>12. CASE RegisterImport(a) \/ RegisterClone(a) \/ RegisterExport(a) \/ RegisterRestore(a)
  BY <1>3, <1>12 DEF RegisterImport, RegisterClone, RegisterExport, RegisterRestore, Put, At
<1>13. CASE Compare(a) \/ BuildManifest(a) \/ Finish(a) \/ Fail(a) \/ (\E i \in Targets : Draw(a, i))
  BY <1>3, <1>13 DEF Compare, BuildManifest, Finish, Fail, Draw, At, files
<1>14. CASE Copy(a) \/ Unpack(a) \/ InspectArchive(a) \/ Install(a) \/ CreateRow(a) \/ Discard(a) \/ Serve(a)
  BY <1>3, <1>14 DEF Copy, Unpack, Stage, InspectArchive, Install, CreateRow, Discard, Serve, At, files
<1>15. CASE Decrypt(a) \/ Archive(a)
  <2>1. op[a].kind \in Bundles /\ op[a].pc \in {"decrypt", "archive"} /\ plain' \subseteq plain \cup {a}
    BY <1>1, <1>15 DEF Decrypt, Archive, At, Fit, Bundles, Unreadable
  <2>2. op'[a].pc \in {"inspect", "fail"} /\ op'[a].kind = op[a].kind
    BY <1>1, <2>1 DEF Moves, Turns, Follows, Ending
  <2> QED BY <1>2, <2>1, <2>2 DEF Packed
<1>16. CASE Seal(a)  BY <1>4, <1>16 DEF Seal, Encrypt
<1>17. CASE Unlock(a)
  <2>1. CASE op[a].kind \in Bundles  BY <1>4, <1>17, <2>1 DEF Unlock, Bundles
  <2>2. CASE op[a].kind \notin Bundles
    <3>1. plain' = plain /\ (up => a \notin plain)  BY <1>17, <2>2 DEF Unlock, Bundles, Unpacked
    <3> QED BY <1>2, <3>1
  <2> QED BY <2>1, <2>2
<1> QED BY <1>11, <1>12, <1>13, <1>14, <1>15, <1>16, <1>17 DEF Step

LEMMA StepsSent ==
  ASSUME Typed, Sent, NEW a \in Threads, Step(a), up' = up PROVE Sent'
<1>1. op[a] \in Operations /\ Fit(op[a]) /\ Moves(a) /\ Others(a)
  BY Moving DEF Typed, OpsTyped, Fits, Moves
<1>2. ASSUME \A b \in artifacts' : b # a => b \in artifacts,
             up /\ a \in artifacts' => op'[a].pc \in {"finish", "unlock", "serve"} /\ op'[a].kind = "export"
      PROVE  Sent'
  <2>1. artifacts \subseteq Threads  BY DEF Typed, FilesTyped
  <2> QED BY <1>1, <1>2, <2>1 DEF Sent, Others
<1>3. ASSUME artifacts' = artifacts, op[a].pc \notin {"unlock", "serve"} PROVE Sent'
  <2>1. ASSUME up, a \in artifacts PROVE op'[a].pc = "unlock" /\ op'[a].kind = "export"
    <3>1. op[a].pc = "finish" /\ op[a].kind = "export"  BY <1>3, <2>1 DEF Sent
    <3> QED BY <1>1, <3>1 DEF Moves, Turns, Follows, Ending
  <2> QED BY <1>2, <1>3, <2>1
<1>11. CASE Look(a) \/ Fingerprint(a) \/ InspectUpload(a) \/ Claim(a) \/ Check(a) \/ Lock(a) \/ Import(a) \/ Mark(a)
  BY <1>3, <1>11 DEF Look, Fingerprint, InspectUpload, Claim, Check, Lock, Import, Mark, At, files, MarkBootstrapSource
<1>12. CASE RegisterImport(a) \/ RegisterClone(a) \/ RegisterExport(a) \/ RegisterRestore(a)
  BY <1>3, <1>12 DEF RegisterImport, RegisterClone, RegisterExport, RegisterRestore, Put, At
<1>13. CASE Compare(a) \/ BuildManifest(a) \/ Finish(a) \/ Fail(a) \/ (\E i \in Targets : Draw(a, i))
  BY <1>3, <1>13 DEF Compare, BuildManifest, Finish, Fail, Draw, At, files
<1>14. CASE Copy(a) \/ Unpack(a) \/ InspectArchive(a) \/ Install(a) \/ CreateRow(a) \/ Discard(a) \/ Decrypt(a) \/ Archive(a)
  BY <1>3, <1>14 DEF Copy, Unpack, Stage, InspectArchive, Install, CreateRow, Discard, Decrypt, Archive, At, files, Unreadable
<1>15. CASE Seal(a)
  <2>1. op[a].pc = "seal" /\ op[a].kind = "export"  BY <1>1, <1>15 DEF Seal, At, Fit, Encrypt
  <2>2. CASE UNCHANGED artifacts  BY <1>3, <2>1, <2>2
  <2>3. CASE artifacts' = artifacts \cup {a} /\ op' = [op EXCEPT ![a].pc = "finish", ![a].content = disk[op[a].of].content]
    <3>1. PICK o \in Operations : Begins(a, o) /\ o.pc = "finish" /\ o.kind = "export"
      BY <1>15, <2>3, Sealed DEF Seal, Typed, Ops, Encrypt
    <3>2. op'[a] = o  BY <3>1 DEF Begins, Typed, OpsTyped
    <3> QED BY <1>2, <2>3, <3>1, <3>2
  <2> QED BY <1>15, <2>2, <2>3 DEF Seal, Encrypt
<1>16. CASE Serve(a)  BY <1>2, <1>16 DEF Serve
<1>17. CASE Unlock(a)
  <2>1. op[a].pc = "unlock" /\ artifacts' = artifacts  BY <1>17 DEF Unlock, At
  <2>2. CASE ~(up /\ a \in artifacts)  BY <1>2, <2>1, <2>2
  <2>3. CASE up /\ a \in artifacts
    <3>1. op[a].kind = "export"  BY <2>3 DEF Sent
    <3>2. op[a].target = None  BY <1>1, <3>1 DEF Fit
    <3>3. Goto(a, "serve")  BY <1>17, <2>3, <3>1, <3>2 DEF Unlock
    <3>4. op'[a].pc = "serve" /\ op'[a].kind = "export"  BY <3>1, <3>3, Goes DEF SameButPc, Labels, Typed
    <3> QED BY <1>2, <2>1, <3>4
  <2> QED BY <2>2, <2>3
<1> QED BY <1>11, <1>12, <1>13, <1>14, <1>15, <1>16, <1>17 DEF Step

LEMMA StepsTidy ==
  ASSUME Typed, Tidy, NEW a \in Threads, Step(a) PROVE Tidy'
<1>1. op[a] \in Operations /\ Fit(op[a]) /\ Moves(a) /\ Others(a)
  BY Moving DEF Typed, OpsTyped, Fits, Moves
<1>2. NoOp.kind \notin Bundles  BY TransferAssumption, Kept DEF NoOp, Bundles
<1>3. up' = up
  BY DEF Step, Look, Fingerprint, InspectUpload, RegisterImport, RegisterClone, RegisterExport, RegisterRestore, Put,
     Claim, Check, Lock, Import, Mark, Compare, Draw, Copy, Unpack, Stage, Decrypt, InspectArchive, Install,
     CreateRow, Finish, BuildManifest, Archive, Seal, Fail, Unlock, Discard, Serve, Unreadable, Encrypt, MarkBootstrapSource
<1>4. Serving'
  BY <1>1, <1>2, <1>3 DEF Serving, Moves, Turns, Others, Tidy
<1> QED BY <1>3, <1>4, StepsReceived, StepsUnpacked, StepsSent DEF Tidy
(* The directories without a row.                                           *)
LEMMA TrackedOn ==
  ASSUME Typed, Tracked, NEW a \in Threads, Others(a), lost \subseteq lost',
         \A i \in Targets : (row'[i] # row[i] \/ disk'[i] # disk[i]) =>
           op'[a].target = i \/ disk'[i].dir = "absent" \/ row'[i].state # "none",
         op[a].target \in Targets =>
           \/ op'[a].target = op[a].target \/ op[a].target \in lost'
           \/ disk'[op[a].target].dir = "absent" \/ row'[op[a].target].state # "none"
  PROVE  Tracked'
<1> SUFFICES ASSUME NEW i \in Targets, i \notin lost', disk'[i].dir # "absent", row'[i].state = "none"
             PROVE  \E b \in Threads : op'[b].target = i
  BY DEF Tracked
<1>1. CASE row'[i] # row[i] \/ disk'[i] # disk[i]  BY <1>1
<1>2. CASE row'[i] = row[i] /\ disk'[i] = disk[i]
  <2>1. PICK b \in Threads : op[b].target = i  BY <1>2 DEF Tracked
  <2>2. CASE b = a  BY <2>1, <2>2
  <2>3. CASE b # a  BY <2>1, <2>3 DEF Others
  <2> QED BY <2>2, <2>3
<1> QED BY <1>1, <1>2

LEMMA StepsTracked ==
  ASSUME Typed, Tracked, NEW a \in Threads, Step(a) PROVE Tracked'
<1> USE DEF files, storage, ghosts
<1>1. op[a] \in Operations /\ Fit(op[a]) /\ Moves(a) /\ Others(a) /\ lost \subseteq lost'
  BY Moving, StepsLose DEF Typed, OpsTyped, Fits, Moves
\* Only where an operation unlocks or discards may it let its target go.
<1>2. op[a].pc \notin {"unlock", "discard"} /\ op[a].target \in Targets => op'[a].target = op[a].target
  <2> SUFFICES ASSUME op[a].pc \notin {"unlock", "discard"}, op[a].target \in Targets
               PROVE  op'[a].target = op[a].target
    OBVIOUS
  <2>1. op[a].target # None  BY TransferAssumption DEF Ids
  <2>2. op[a].pc \in Draws \cup {"inspect", "finish", "fail"}  BY <1>1, <2>1 DEF Fit
  <2>3. op[a].pc \notin Ending /\ op[a].pc # "target"  BY <2>2 DEF Draws, Ending
  <2> QED BY <1>1, <2>3 DEF Moves, Turns
<1>3. ASSUME UNCHANGED <<row, disk>>, op[a].pc \notin {"unlock", "discard"} PROVE Tracked'
  BY <1>1, <1>2, <1>3, TrackedOn
<1>4. ASSUME op[a].pc \notin {"unlock", "discard"}, op[a].target \in Targets,
             \A i \in Targets \ {op[a].target} : row'[i] = row[i] /\ disk'[i] = disk[i]
      PROVE  Tracked'
  BY <1>1, <1>2, <1>4, TrackedOn
<1>5. ASSUME op[a].pc \notin {"unlock", "discard"},
             \A i \in Targets : row'[i] = row[i] /\ disk'[i] = disk[i]
      PROVE  Tracked'
  BY <1>1, <1>2, <1>5, TrackedOn
<1>11. CASE Look(a) \/ Fingerprint(a) \/ InspectUpload(a) \/ Claim(a) \/ Check(a) \/ Lock(a)
  BY <1>3, <1>11 DEF Look, Fingerprint, InspectUpload, Claim, Check, Lock, At
<1>12. CASE RegisterImport(a) \/ RegisterClone(a) \/ RegisterExport(a) \/ RegisterRestore(a)
  BY <1>3, <1>12 DEF RegisterImport, RegisterClone, RegisterExport, RegisterRestore, Put, At
<1>13. CASE Compare(a) \/ BuildManifest(a) \/ Finish(a) \/ Fail(a) \/ Decrypt(a) \/ InspectArchive(a)
  BY <1>3, <1>13 DEF Compare, BuildManifest, Finish, Fail, Decrypt, InspectArchive, At, Unreadable
<1>14. CASE Archive(a) \/ Seal(a) \/ Serve(a)
  BY <1>3, <1>14 DEF Archive, Seal, Serve, At, Encrypt
<1>15. CASE Import(a) \/ Mark(a)
  <2>1. op[a].pc \in {"import", "mark"}  BY <1>15 DEF Import, Mark, At, MarkBootstrapSource
  <2>2. op[a].of \in Profiles  BY <1>1, <2>1 DEF Fit, Holding, Ahead
  <2>3. \A i \in Targets : i # op[a].of  BY <2>2, TransferAssumption
  <2>4. \A i \in Targets : row'[i] = row[i] /\ disk'[i] = disk[i]
    BY <1>15, <2>3 DEF Import, Mark, Typed, RowsTyped, DisksTyped, Ids, MarkBootstrapSource
  <2> QED BY <1>5, <2>1, <2>4
<1>16. CASE \E i \in Targets : Draw(a, i)
  <2>1. PICK i \in Targets : Draw(a, i)  BY <1>16
  <2>2. op[a].pc = "target"  BY <2>1 DEF Draw, At
  <2>3. PICK o \in Operations : Begins(a, o) /\ o.target = i
    BY <2>1, DrawnTarget DEF Typed, Ops
  <2>4. op'[a].target = i  BY <2>3 DEF Begins, Typed, OpsTyped
  <2>5. \A j \in Targets : row'[j] # row[j] \/ disk'[j] # disk[j] => j = i
    BY <2>1 DEF Draw, Typed, DisksTyped, Ids
  <2> QED BY <1>1, <1>2, <2>2, <2>4, <2>5, TrackedOn
<1>17. CASE Copy(a) \/ Unpack(a)
  <2>1. op[a].pc \in {"copy", "unpack"} /\ row' = row  BY <1>17 DEF Copy, Unpack, Stage, At
  <2>2. op[a].target \in Targets  BY <1>1, <2>1 DEF Fit, Draws
  <2>3. \A i \in Targets \ {op[a].target} : disk'[i] = disk[i]
    BY <1>17 DEF Copy, Unpack, Stage, Typed, DisksTyped, Ids
  <2> QED BY <1>4, <2>1, <2>2, <2>3
<1>18. CASE Install(a) \/ CreateRow(a)
  <2>1. op[a].pc \in {"install", "create"}  BY <1>18 DEF Install, CreateRow, At
  <2>2. op[a].target \in Targets  BY <1>1, <2>1 DEF Fit, Draws
  <2>3. \A i \in Targets \ {op[a].target} : row'[i] = row[i] /\ disk'[i] = disk[i]
    BY <1>18 DEF Install, CreateRow, Typed, RowsTyped, DisksTyped, Ids
  <2> QED BY <1>4, <2>1, <2>2, <2>3
<1>19. CASE Unlock(a)
  <2>1. row' = row /\ disk' = disk  BY <1>19 DEF Unlock
  <2>2. op[a].target \in Targets => op'[a].target = op[a].target \/ row'[op[a].target].state # "none"
    <3> SUFFICES ASSUME op[a].target \in Targets, row[op[a].target].state = "none" PROVE op'[a].target = op[a].target
      BY <2>1
    <3>1. op[a].target # None  BY TransferAssumption DEF Ids
    <3>2. Goto(a, "discard")  BY <1>19, <3>1 DEF Unlock
    <3> QED BY <3>2, Goes DEF SameButPc, Labels, Typed
  <2> QED BY <1>1, <2>1, <2>2, TrackedOn
<1>20. CASE Discard(a)
  <2>1. row' = row  BY <1>20 DEF Discard
  <2>2. op[a].target \in Targets  BY <1>1, <1>20 DEF Discard, At, Fit, Draws
  <2>3. CASE op[a].target \in lost' /\ disk' = disk
    BY <1>1, <2>1, <2>3, TrackedOn
  <2>4. CASE disk' = [disk EXCEPT ![op[a].target] = NoDir]
    <3>1. \A i \in Targets : disk'[i] = IF i = op[a].target THEN NoDir ELSE disk[i]
      BY <2>4 DEF Typed, DisksTyped, Ids
    <3>2. \A i \in Targets : disk'[i] # disk[i] => disk'[i].dir = "absent"  BY <3>1 DEF NoDir
    <3>3. disk'[op[a].target].dir = "absent"  BY <2>2, <3>1 DEF NoDir
    <3> QED BY <1>1, <2>1, <3>2, <3>3, TrackedOn
  <2> QED BY <1>20, <2>3, <2>4 DEF Discard
<1> QED
  BY <1>11, <1>12, <1>13, <1>14, <1>15, <1>16, <1>17, <1>18, <1>19, <1>20 DEF Step

Clean == Busy /\ Working /\ Tidy /\ Tracked

LEMMA InitClean == ASSUME Init PROVE Clean
<1>1. \A a \in Threads : op[a] = NoOp
  BY DEF Init
<1>2. NoOp.kind \notin Bundles
  BY TransferAssumption, Kept DEF NoOp, Bundles
<1>3. Busy
  BY DEF Init, NoPreview, Busy, InUse
<1>4. Working
  BY TransferAssumption DEF Init, Working
<1>5. Tidy
  BY <1>1, <1>2 DEF Init, Tidy, Serving, Received, Unpacked, Sent
<1>6. Tracked
  BY TransferAssumption DEF Init, Tracked, Ids, NoDir
<1> QED BY <1>3, <1>4, <1>5, <1>6 DEF Clean

(* A request that comes in, and the rest of the system.                     *)
LEMMA RequestsClean ==
  ASSUME Typed, Clean, NEW a \in Threads, Requests(a) PROVE Clean'
<1>1. PICK o \in Operations :
        /\ Begins(a, o) /\ o.pc \in {"look", "register", "claim"} /\ o.target = None
        /\ o.kind \in Bundles => up
        /\ uploads' = uploads \/ (uploads' = uploads \cup {a} /\ o.pc = "look" /\ o.kind = "restore")
  BY Started DEF Typed, Ops, Bundles
<1>2. /\ op[a].pc = "idle" /\ row' = row /\ disk' = disk /\ owner' = owner /\ preview' = preview
      /\ plain' = plain /\ artifacts' = artifacts /\ up' = up /\ lost' = lost
  BY Started DEF Typed, Ops, storage, ghosts
<1>3. op'[a] = o /\ Others(a)
  BY <1>1 DEF Begins, Others, Typed, OpsTyped
<1>4. Busy'
  <2>1. op[a].pc \notin Holding  BY <1>2 DEF Holding, Ahead
  <2>2. \A t \in Tokens : InUse(t)' => InUse(t)  BY <1>2 DEF InUse
  <2> QED BY <1>2, <1>3, <2>1, <2>2, BusyOn DEF Clean
<1>5. Working'
  <2>1. \A i \in Ids : owner[i] # a  BY <1>2 DEF Clean, Working, Owned, Resting
  <2> QED BY <1>2, <1>3, <2>1, WorkingOn DEF Clean
<1>6. Serving'
  BY <1>1, <1>2, <1>3 DEF Clean, Tidy, Serving, Others
<1>7. Received'
  <2>1. ~Receives(op[a])  BY <1>2 DEF Receives
  <2>2. \A x \in uploads' : x \in uploads \/ (x = a /\ Receives(op'[a]))  BY <1>1, <1>3 DEF Receives
  <2> QED BY <1>2, <1>3, <2>1, <2>2, ReceivedOn DEF Clean, Tidy
<1>8. Unpacked' /\ Sent'
  <2>1. op[a].pc \notin Packed \cup {"finish", "unlock", "serve"}  BY <1>2 DEF Packed
  <2>2. plain \subseteq Threads /\ artifacts \subseteq Threads  BY DEF Typed, FilesTyped
  <2> QED BY <1>2, <1>3, <2>1, <2>2 DEF Clean, Tidy, Unpacked, Sent, Others
<1>9. Tracked'
  <2>1. op[a].target \notin Targets
    <3>1. op[a].target = None  BY <1>2 DEF Typed, Fits, Fit, Draws
    <3> QED BY <3>1, TransferAssumption DEF Ids
  <2> QED BY <1>2, <1>3, <2>1, TrackedOn DEF Clean
<1> QED BY <1>4, <1>5, <1>6, <1>7, <1>8, <1>9 DEF Clean, Tidy

LEMMA RestClean ==
  ASSUME Typed, Clean, op' = op, lost' = lost, up' = up \/ (uploads' = {} /\ plain' = {} /\ artifacts' = {} /\ up'),
         up' = up => plain' = plain /\ artifacts' = artifacts /\ uploads' \subseteq uploads,
         \A t \in Tokens : InUse(t)' => InUse(t),
         \A t \in Tokens : t \in uploads' /\ preview[t].state = "pending" =>
           preview'[t].state = "pending" /\ preview'[t].kind = preview[t].kind,
         \A i \in Ids : owner'[i] \in {owner[i], None, "session"},
         \A i \in Targets : row'[i] = row[i] /\ disk'[i] = disk[i]
  PROVE  Clean'
<1>1. Busy'
  BY DEF Clean, Busy
<1>2. Working'
  BY TransferAssumption DEF Clean, Working, Owned
<1>3. Serving'
  BY DEF Clean, Tidy, Serving
<1>4. Received'
  <2> SUFFICES ASSUME up', NEW x \in uploads'
               PROVE  x \in Pending({"restore"})' \/ (x \in Threads /\ Receives(op'[x]))
    BY DEF Received, Receives
  <2>1. up /\ x \in uploads  OBVIOUS
  <2>2. CASE x \in Pending({"restore"})
    <3>1. x \in Tokens /\ preview[x].state = "pending" /\ preview[x].kind = "restore"  BY <2>2 DEF Pending
    <3>2. preview'[x].state = "pending" /\ preview'[x].kind = "restore"  BY <3>1
    <3> QED BY <3>1, <3>2 DEF Pending
  <2>3. CASE x \in Threads /\ Receives(op[x])  BY <2>3
  <2> QED BY <2>1, <2>2, <2>3 DEF Clean, Tidy, Received
<1>5. Unpacked' /\ Sent'
  BY DEF Clean, Tidy, Unpacked, Sent
<1>6. Tracked'
  BY DEF Clean, Tracked
<1> QED BY <1>1, <1>2, <1>3, <1>4, <1>5, <1>6 DEF Clean, Tidy

LEMMA NextClean ==
  ASSUME Typed, Claimed, Clean, [Next]_vars PROVE Clean'
<1> USE DEF storage, files, ghosts
<1>1. ASSUME NEW a \in Threads, Step(a) PROVE Clean'
  BY <1>1, StepsBusy, StepsWorking, StepsTidy, StepsTracked DEF Clean
<1>2. CASE \E a \in Threads : Requests(a) \/ Step(a)
  BY <1>1, <1>2, RequestsClean
<1>3. CASE \E t \in Tokens : Expire(t)
  <2>1. PICK t \in Tokens : Expire(t)  BY <1>3
  <2>2. /\ Later /\ \A u \in Tokens : preview'[u].busy = preview[u].busy /\ preview'[u].state = preview[u].state
    BY <2>1, Expires DEF Typed
  <2>3. \A u \in Tokens : InUse(u)' => InUse(u)  BY <2>2 DEF InUse
  <2>4. \A u \in Tokens : preview[u].state = "pending" => preview'[u].state = "pending" /\ preview'[u].kind = preview[u].kind
    BY <2>2 DEF Later, Same
  <2> QED BY <2>1, <2>3, <2>4, RestClean DEF Expire
<1>4. CASE \E t \in Tokens, c \in Controls : Cancel(t, c)
  <2>1. PICK t \in Tokens, c \in Controls : Cancel(t, c)  BY <1>4
  <2>2. PICK S \in SUBSET Tokens :
           /\ Drop(S) /\ \A u \in S : preview[u].state = "pending"
           /\ UNCHANGED <<row, storage, owner, plain, artifacts, op, up, lost, commits>>
    BY <2>1, Cancels DEF Typed, Ops
  <2>3. \A u \in S : preview[u].state # "unused"  BY <2>2
  <2>4. Later /\ \A u \in Tokens : /\ preview'[u].busy = preview[u].busy
                                  /\ preview'[u].state = IF u \in S THEN "gone" ELSE preview[u].state
    BY <2>2, <2>3, Drops DEF Typed
  <2>5. uploads' = uploads \ S  BY <2>2 DEF Drop
  <2>6. \A u \in Tokens : InUse(u)' => InUse(u)  BY <2>4 DEF InUse
  <2>7. \A u \in Tokens : u \in uploads' /\ preview[u].state = "pending" =>
          preview'[u].state = "pending" /\ preview'[u].kind = preview[u].kind
    BY <2>4, <2>5 DEF Later, Same
  <2>8. uploads' \subseteq uploads  BY <2>5
  <2> QED BY <2>2, <2>6, <2>7, <2>8, RestClean
<1>5. ASSUME NEW p \in Profiles, Edit(p) PROVE Clean'
  <2>1. op' = op /\ preview' = preview /\ up' = up /\ lost' = lost /\ uploads' = uploads /\ plain' = plain /\ artifacts' = artifacts
    BY <1>5 DEF Edit, UpdateProfile, ArchiveOrRestore, OpenSession, CloseSession
  <2>2. \A i \in Ids \ {p} : row'[i] = row[i] /\ disk'[i] = disk[i]
    BY <1>5 DEF Edit, UpdateProfile, ArchiveOrRestore, OpenSession, CloseSession, Typed, RowsTyped, DisksTyped
  <2>3. \A i \in Targets : i \in Ids \ {p}  BY TransferAssumption DEF Ids
  <2>4. \A i \in Ids : owner'[i] \in {owner[i], None, "session"}
    BY <1>5 DEF Edit, UpdateProfile, ArchiveOrRestore, OpenSession, CloseSession, Typed, OwnersTyped
  <2>5. \A t \in Tokens : InUse(t)' => InUse(t)  BY <2>1 DEF InUse
  <2> QED BY <2>1, <2>2, <2>3, <2>4, <2>5, RestClean
<1>6. CASE CreateService \/ UNCHANGED vars
  <2>1. /\ op' = op /\ preview' = preview /\ lost' = lost /\ row' = row /\ disk' = disk /\ owner' = owner
        /\ (up' = up /\ uploads' = uploads /\ plain' = plain /\ artifacts' = artifacts)
             \/ (up' # up /\ uploads' = {} /\ plain' = {} /\ artifacts' = {} /\ up')
    BY <1>6 DEF CreateService, vars, Sweep
  <2>2. \A t \in Tokens : InUse(t)' => InUse(t)  BY <2>1 DEF InUse
  <2> QED BY <2>1, <2>2, RestClean
<1>7. CASE Crash
  <2>1. /\ \A a \in Threads : op'[a] = NoOp
        /\ \A t \in Tokens : preview'[t].state = IF preview[t].state = "pending" THEN "gone" ELSE preview[t].state
    BY <1>7, CrashOps DEF Typed, Ops
  <2>2. Busy'  BY <2>1 DEF Busy, InUse
  <2>3. Working'  BY <1>7, TransferAssumption DEF Crash, Working
  <2>4. Tidy'
    <3>1. NoOp.kind \notin Bundles  BY TransferAssumption, Kept DEF NoOp, Bundles
    <3> QED BY <1>7, <2>1, <3>1 DEF Crash, Tidy, Serving, Received, Unpacked, Sent
  <2>5. Tracked'
    <3> SUFFICES ASSUME NEW i \in Targets, i \notin lost', disk'[i].dir # "absent", row'[i].state = "none" PROVE FALSE
      BY DEF Tracked
    <3>1. i # None  BY TransferAssumption DEF Ids
    <3>2. i \notin lost /\ \A a \in Threads : op[a].target # i  BY <1>7, <3>1 DEF Crash
    <3> QED BY <1>7, <3>2 DEF Crash, Clean, Tracked
  <2> QED BY <2>2, <2>3, <2>4, <2>5 DEF Clean
<1> QED BY <1>2, <1>3, <1>4, <1>5, <1>6, <1>7, Cases

LEMMA CleanEnds == ASSUME Typed, Clean PROVE EndedLeavesNothing
<1>1. \A i \in Ids : owner[i] \in Threads => op[owner[i]].pc # "idle"
  BY DEF Clean, Working, Owned, Resting
<1>2. \A t \in Pending(Kinds) : preview[t].busy => t \in lost \/ \E a \in Threads : op[a].token = t
  BY DEF Clean, Busy, InUse, Pending
<1>3. ASSUME up PROVE uploads \subseteq (Pending({"restore"}) \cup {a \in Threads : ~At(a, "idle")})
  BY <1>3 DEF Clean, Tidy, Received, Receives, At
<1>4. ASSUME up PROVE plain \cup artifacts \subseteq {a \in Threads : ~At(a, "idle")}
  BY <1>4 DEF Clean, Tidy, Unpacked, Sent, At, Packed, Typed, FilesTyped
<1> QED BY <1>1, <1>2, <1>3, <1>4 DEF EndedLeavesNothing, Clean, Tracked

(* Whatever step of it fails, an operation that is over has left no lock,   *)
(* no preview in progress, no temporary file and no directory without a     *)
(* row, but a preview whose commit could not read its row or use the lock's *)
(* file, and what could not be deleted.                                     *)
THEOREM LeavesNothing == Spec => []EndedLeavesNothing
<1>1. Init => Typed /\ Claimed /\ Clean
  BY InitTyped, InitClaimed, InitClean
<1>2. Typed /\ Claimed /\ Clean /\ [Next]_vars => (Typed /\ Claimed /\ Clean)'
  BY NextTyped, NextClaimed, NextClean
<1>3. Typed /\ Clean => EndedLeavesNothing
  BY CleanEnds
<1> QED BY <1>1, <1>2, <1>3, PTL DEF Spec
=============================================================================
