---------------------------- MODULE MigrationProofs ----------------------------
(***************************************************************************)
(* Theorems about the migration, for any products, paths and faults: its   *)
(* type, what a signal does to it, that it keeps the promise of Upgrade,   *)
(* what a rollback brings back, what a success leaves behind, which        *)
(* repositories it disables and in which order it upgrades. The            *)
(* steps still to do are the heart of the invariant: which steps a phase   *)
(* may have, that a migration being applied ends in its backup or its      *)
(* dist-upgrade, and that until then each product of the path is activated *)
(* or has its turn to come.                                                *)
(***************************************************************************)
EXTENDS Migration, SeqLemmas

(* The steps a phase may have.                                              *)
OnOne       == {"release", "upgrade", "cleanupRepos", "add", "remove", "downgrade", "readd"}
Final       == {"backup", "dist-upgrade"}
RollbackOps == {"base", "remove", "readd", "downgrade", "sync", "releasever"}
CheckOps    == {"patchCheck", "patch", "patchRecheck", "refresh", "check", "release",
                "checked", "reread", "fetch"} \cup RollbackOps
ApplyOps    == {"preSnapshot", "backup", "interruptible", "disableAll", "listServices",
                "upgrade", "remove", "cleanupRepos", "add", "dropUnmigrated", "refresh",
                "dist-upgrade"}
UndoOps     == {"restore"} \cup RollbackOps
LastOps     == {"check", "release", "checked"}
Allowed     == IF phase = "check" THEN CheckOps ELSE IF phase = "apply" THEN ApplyOps
               ELSE IF phase = "undo" THEN UndoOps ELSE LastOps
Steps(O)    == [op : O \ OnOne, on : {None}] \cup [op : O \cap OnOne, on : Product]

(* The type invariant, by the groups of variables.                          *)
LocalOK ==
    /\ packages \subseteq Product /\ listed \subseteq Product /\ broken \in BOOLEAN
    /\ services \subseteq Product \cup Foreign /\ repos \subseteq UserRepos
SavedOK == backup \in {None, Partial} \cup FilesType /\ snapshot \in {None} \cup FilesType
Results == {"none", "running", "ok", "failed", "rolledBack", "inconsistent", "abandoned",
            "killed"}
CommandOK ==
    /\ cmd \in {"migration", "rollback"} /\ flags \subseteq Flag /\ environ \in BOOLEAN
    /\ phase \in {"check", "apply", "undo", "last"}
    /\ interrupted \in {"no", "apply", "undo", "last"}
    /\ result \in Results /\ runs \in 0..MaxRuns
NotesOK ==
    /\ products \subseteq Product /\ missing \in BOOLEAN /\ path \in Seq(Product)
    /\ known \subseteq Product \cup Foreign /\ migrated \subseteq Product
    /\ backedUp \in BOOLEAN /\ upgraded \in BOOLEAN /\ unadded \subseteq Product
BoundsOK == pending \in BOOLEAN /\ faults \in 0..MaxFaults /\ patches \in 0..MaxPatches
DataOK   == act \subseteq Product /\ LocalOK /\ SavedOK /\ NotesOK /\ BoundsOK

(* What is still to do, and what a signal may find.                         *)
EndsIn(F, t)   == t # <<>> /\ \A i \in 1..Len(t) : t[i].op \in F <=> i = Len(t)
EndsInFinal(t) == EndsIn(Final, t)
TodoOK ==
    /\ todo \in Seq(Steps(Allowed))
    /\ result # "running" => todo = <<>>
    /\ result = "running" /\ phase = "apply" => EndsInFinal(todo)
SignalOK ==
    /\ result = "running" /\ phase = "check" => cmd = "migration"
    /\ interrupted # "no" => cmd = "migration" /\ phase # "check"
    /\ InterruptStops
    /\ interrupted = "apply" => phase \in {"apply", "undo"}
ControlOK == CommandOK /\ TodoOK /\ SignalOK
TypeInv   == DataOK /\ ControlOK

LEMMA TypeInvImplies ==
  TypeInv => TypeOK /\ InterruptStops
  BY DEF TypeInv, TypeOK, DataOK, ControlOK, LocalOK, SavedOK, CommandOK, NotesOK, BoundsOK,
         TodoOK, SignalOK, Results

-----------------------------------------------------------------------------
(* Products and steps.                                                      *)
LEMMA ProductFinite ==
  \A S \in SUBSET Product : IsFiniteSet(S)
  <1> DEFINE f == [z \in Names \X Versions |-> [name |-> z[1], version |-> z[2]]]
  <1>1. f \in [Names \X Versions -> Product]
    BY DEF Product
  <1>2. ASSUME NEW p \in Product PROVE \E z \in Names \X Versions : f[z] = p
    <2>1. p.name \in Names /\ p.version \in Versions /\ p = [name |-> p.name, version |-> p.version]
      BY DEF Product
    <2>2. <<p.name, p.version>> \in Names \X Versions
      BY <2>1
    <2>3. f[<<p.name, p.version>>] = p
      BY <2>1, <2>2
    <2> QED
      BY <2>2, <2>3
  <1>3. f \in Surjection(Names \X Versions, Product)
    <2> HIDE DEF f
    <2> QED
      BY <1>1, <1>2 DEF Surjection
  <1>4. IsFiniteSet(Names \X Versions)
    BY FiniteAssumption, FS_Product
  <1>5. IsFiniteSet(Product)
    <2> HIDE DEF f
    <2> QED
      BY <1>3, <1>4, FS_Surjection
  <1> QED
    BY <1>5, FS_Subset

LEMMA DoOK ==
  ASSUME NEW O, NEW op \in O
  PROVE  /\ op \notin OnOne => Just(op) \in Seq(Steps(O))
         /\ op \in OnOne => \A p \in Product : Do(op, p) \in Seq(Steps(O))
  BY DEF Do, Just, Steps

LEMMA DoElements ==
  \A op, p : /\ ToSet(Do(op, p)) = {[op |-> op, on |-> p]}
             /\ ToSet(Just(op)) = {[op |-> op, on |-> None]}
  BY ToSetOfOne DEF Do, Just

LEMMA OfSetOK ==
  ASSUME NEW O, NEW op \in O \cap OnOne, NEW S \in SUBSET Product
  PROVE  /\ OfSet(op, S) \in Seq(Steps(O))
         /\ ToSet(OfSet(op, S)) = {[op |-> op, on |-> p] : p \in S}
  <1> DEFINE s == SetToSeq(S)
             t == [i \in DOMAIN s |-> [op |-> op, on |-> s[i]]]
  <1>1. s \in Seq(S) /\ ToSet(s) = S
    BY ProductFinite, SetToSeqOK
  <1>2. Len(s) \in Nat /\ DOMAIN s = 1..Len(s) /\ \A i \in 1..Len(s) : s[i] \in S
    <2> HIDE DEF s
    <2> QED
      BY <1>1
  <1>3. S = {s[i] : i \in 1..Len(s)}
    BY <1>1, <1>2 DEF ToSet
  <1> HIDE DEF s
  <1>4. \A p \in S : [op |-> op, on |-> p] \in Steps(O)
    BY DEF Steps
  <1>5. t \in [1..Len(s) -> Steps(O)]
    BY <1>2, <1>4
  <1>6. t \in Seq(Steps(O)) /\ Len(t) = Len(s)
    BY <1>2, <1>5
  <1>7. ToSet(t) = {[op |-> op, on |-> p] : p \in S}
    BY <1>2, <1>3 DEF ToSet
  <1> QED
    BY <1>6, <1>7 DEF OfSet, s

LEMMA JoinSteps ==
  ASSUME NEW S, NEW s \in Seq(S), NEW t \in Seq(S)
  PROVE  s \o t \in Seq(S)
  OBVIOUS

LEMMA NoSteps ==
  ASSUME NEW S
  PROVE  <<>> \in Seq(S)
  OBVIOUS

LEMMA MoreSteps ==
  ASSUME NEW O, NEW P, O \subseteq P, NEW s \in Seq(Steps(O))
  PROVE  s \in Seq(Steps(P))
  <1>1. Steps(O) \subseteq Steps(P)
    BY DEF Steps
  <1> QED
    BY <1>1

LEMMA StepFields ==
  ASSUME NEW O, NEW s \in Steps(O)
  PROVE  s.op \in O /\ (s.op \in OnOne => s.on \in Product)
  BY DEF Steps

\* The first step to do, and the rest.
LEMMA HeadStep ==
  ASSUME TodoOK, todo # <<>>
  PROVE  /\ Head(todo) \in Steps(Allowed) /\ Tail(todo) \in Seq(Steps(Allowed))
         /\ Head(todo).op \in Allowed
         /\ Head(todo).op \in OnOne => On \in Product
         /\ ToSet(todo) = {Head(todo)} \cup ToSet(Tail(todo))
         /\ result = "running"
  <1>1. todo \in Seq(Steps(Allowed)) /\ result = "running"
    BY DEF TodoOK
  <1>2. Head(todo) \in Steps(Allowed) /\ Tail(todo) \in Seq(Steps(Allowed))
    BY <1>1, HeadAndTail
  <1> QED
    BY <1>1, <1>2, StepFields, ToSetOfTail DEF On

-----------------------------------------------------------------------------
(* The last step of a migration that is applied.                            *)
LEMMA OneFinal ==
  ASSUME NEW F, NEW f, f.op \in F
  PROVE  EndsIn(F, <<f>>)
  BY DEF EndsIn

LEMMA FinalAlone ==
  ASSUME NEW S, NEW t \in Seq(S), NEW F, EndsIn(F, t), Head(t).op \in F
  PROVE  Tail(t) = <<>>
  <1>1. Head(t) = t[1] /\ Tail(t) \in Seq(S) /\ Len(Tail(t)) = Len(t) - 1
    BY HeadAndTail DEF EndsIn
  <1>2. 1 \in 1..Len(t)
    BY DEF EndsIn
  <1>3. Len(t) = 1
    BY <1>1, <1>2 DEF EndsIn
  <1>4. Len(Tail(t)) = 0
    BY <1>1, <1>3
  <1> QED
    BY <1>1, <1>4, EmptySeq

LEMMA FinalKept ==
  ASSUME NEW S, NEW t \in Seq(S), NEW F, EndsIn(F, t), Head(t).op \notin F
  PROVE  EndsIn(F, Tail(t))
  <1>1. /\ Head(t) = t[1] /\ Tail(t) \in Seq(S) /\ Len(Tail(t)) = Len(t) - 1
        /\ \A i \in 1..Len(Tail(t)) : Tail(t)[i] = t[i + 1]
    BY HeadAndTail DEF EndsIn
  <1>2. Len(t) \in Nat /\ 1 \in 1..Len(t)
    BY DEF EndsIn
  <1>3. Len(t) # 1
    BY <1>1, <1>2 DEF EndsIn
  <1>4. Tail(t) # <<>>
    <2>1. Len(Tail(t)) # 0
      BY <1>1, <1>2, <1>3
    <2> QED
      BY <1>1, <2>1, EmptySeq
  <1>5. ASSUME NEW i \in 1..Len(Tail(t))
        PROVE  Tail(t)[i].op \in F <=> i = Len(Tail(t))
    <2>1. i + 1 \in 1..Len(t)
      BY <1>1, <1>2
    <2>2. t[i + 1].op \in F <=> i + 1 = Len(t)
      BY <2>1 DEF EndsIn
    <2>3. Tail(t)[i] = t[i + 1]
      BY <1>1
    <2>4. i = Len(Tail(t)) <=> i + 1 = Len(t)
      BY <1>1, <1>2
    <2> QED
      BY <2>2, <2>3, <2>4
  <1> QED
    BY <1>4, <1>5 DEF EndsIn

LEMMA FinalJoin ==
  ASSUME NEW F, NEW O, O \cap F = {}, NEW s \in Seq(Steps(O)),
         NEW S, NEW t \in Seq(S), EndsIn(F, t)
  PROVE  EndsIn(F, s \o t)
  <1>1. /\ Len(s \o t) = Len(s) + Len(t) /\ Len(s) \in Nat /\ Len(t) \in Nat
        /\ \A i \in 1..Len(s) : (s \o t)[i] = s[i]
        /\ \A i \in 1..Len(t) : (s \o t)[Len(s) + i] = t[i]
    OBVIOUS
  <1>2. \A i \in 1..Len(s) : s[i] \in Steps(O)
    OBVIOUS
  <1>3. \A i \in 1..Len(s) : s[i].op \notin F
    BY <1>2, StepFields
  <1>4. Len(t) # 0
    BY DEF EndsIn
  <1>5. s \o t # <<>>
    BY <1>1, <1>4
  <1>6. ASSUME NEW i \in 1..Len(s \o t)
        PROVE  (s \o t)[i].op \in F <=> i = Len(s \o t)
    <2>1. CASE i \in 1..Len(s)
      BY <1>1, <1>3, <1>4, <2>1
    <2>2. CASE i \notin 1..Len(s)
      <3>1. i - Len(s) \in 1..Len(t) /\ Len(s) + (i - Len(s)) = i
        BY <1>1, <2>2
      <3>2. (s \o t)[i] = t[i - Len(s)]
        BY <1>1, <3>1
      <3>3. t[i - Len(s)].op \in F <=> i - Len(s) = Len(t)
        BY <3>1 DEF EndsIn
      <3> QED
        BY <1>1, <3>1, <3>2, <3>3
    <2> QED
      BY <2>1, <2>2
  <1> QED
    BY <1>5, <1>6 DEF EndsIn

-----------------------------------------------------------------------------
(* The steps the operators return.                                          *)
LEMMA BeginOK ==
  ASSUME NEW c \in {"migration", "rollback"}, NEW f
  PROVE  Begin(c, f) \in Seq(Steps(IF c = "rollback" THEN UndoOps ELSE CheckOps))
  <1>1. CASE c = "rollback"
    <2>1. "base" \in UndoOps /\ "base" \notin OnOne
      BY DEF UndoOps, RollbackOps, OnOne
    <2> QED
      BY <1>1, <2>1, DoOK DEF Begin
  <1>2. CASE c = "migration"
    <2>1. /\ {"patchCheck", "refresh", "check", "fetch"} \subseteq CheckOps
          /\ {"patchCheck", "refresh", "check", "fetch"} \cap OnOne = {}
      BY DEF CheckOps, OnOne
    <2>2. /\ Just("patchCheck") \in Seq(Steps(CheckOps)) /\ Just("refresh") \in Seq(Steps(CheckOps))
          /\ Just("check") \in Seq(Steps(CheckOps)) /\ Just("fetch") \in Seq(Steps(CheckOps))
      BY <2>1, DoOK
    <2> DEFINE first == IF "selfUpdate" \in f THEN Just("patchCheck") ELSE <<>>
    <2>3. first \in Seq(Steps(CheckOps))
      BY <2>2, NoSteps
    <2> HIDE DEF first
    <2>4. first \o Just("refresh") \in Seq(Steps(CheckOps))
      BY <2>2, <2>3, JoinSteps
    <2>5. first \o Just("refresh") \o Just("check") \in Seq(Steps(CheckOps))
      BY <2>2, <2>4, JoinSteps
    <2>6. first \o Just("refresh") \o Just("check") \o Just("fetch") \in Seq(Steps(CheckOps))
      BY <2>2, <2>5, JoinSteps
    <2>7. Begin(c, f) = first \o Just("refresh") \o Just("check") \o Just("fetch")
      BY <1>2 DEF Begin, first
    <2> QED
      BY <1>2, <2>6, <2>7
  <1> QED
    BY <1>1, <1>2

LEMMA ChosenOK ==
  /\ Chosen \in Seq(Steps(ApplyOps)) /\ EndsInFinal(Chosen)
  /\ [op |-> "backup", on |-> None] \in ToSet(Chosen)
  /\ \A s \in ToSet(Chosen) : s.op \in {"preSnapshot", "backup"}
  <1> DEFINE first == IF Has("snapshots") THEN Just("preSnapshot") ELSE <<>>
  <1>1. /\ {"preSnapshot", "backup"} \subseteq ApplyOps /\ {"preSnapshot", "backup"} \cap OnOne = {}
        /\ "backup" \in Final /\ "preSnapshot" \notin Final
    BY DEF ApplyOps, OnOne, Final
  <1>2. Just("backup") \in Seq(Steps(ApplyOps)) /\ Just("preSnapshot") \in Seq(Steps(ApplyOps \ Final))
    BY <1>1, DoOK
  <1>3. first \in Seq(Steps(ApplyOps \ Final))
    BY <1>2, NoSteps
  <1>4. first \in Seq(Steps(ApplyOps))
    <2> HIDE DEF first
    <2> QED
      BY <1>3, MoreSteps
  <1>5. ToSet(first) \subseteq {[op |-> "preSnapshot", on |-> None]}
    BY DoElements, ToSetOfOne
  <1>6. EndsInFinal(Just("backup"))
    BY <1>1, OneFinal DEF Just, Do, EndsInFinal
  <1> HIDE DEF first
  <1>7. first \o Just("backup") \in Seq(Steps(ApplyOps))
    BY <1>2, <1>4, JoinSteps
  <1>8. EndsInFinal(first \o Just("backup"))
    <2>1. (ApplyOps \ Final) \cap Final = {}
      OBVIOUS
    <2> QED
      BY <1>2, <1>3, <1>6, <2>1, FinalJoin DEF EndsInFinal
  <1>9. ToSet(first \o Just("backup")) = ToSet(first) \cup {[op |-> "backup", on |-> None]}
    BY <1>2, <1>4, ToSetOfJoin, DoElements
  <1> QED
    BY <1>5, <1>7, <1>8, <1>9 DEF Chosen, first

Inner == ApplyOps \ Final
LEMMA InnerOps ==
  /\ Inner \cap Final = {} /\ Inner \subseteq ApplyOps
  /\ {"interruptible", "disableAll", "listServices", "dropUnmigrated", "refresh"} \subseteq Inner \ OnOne
  /\ {"upgrade", "remove", "cleanupRepos", "add"} \subseteq Inner \cap OnOne
  BY DEF Inner, ApplyOps, Final, OnOne

LEMMA MigrateProductOK ==
  ASSUME NEW p \in Product
  PROVE  /\ MigrateProduct(p) \in Seq(Steps(Inner))
         /\ [op |-> "upgrade", on |-> p] \in ToSet(MigrateProduct(p))
         /\ \A s \in ToSet(MigrateProduct(p)) : s.op = "upgrade" => s.on = p
         /\ ToSet(MigrateProduct(p)) = {[op |-> "upgrade", on |-> p], [op |-> "cleanupRepos", on |-> p],
                                        [op |-> "add", on |-> p], [op |-> "interruptible", on |-> None]}
  <1>1. /\ Do("upgrade", p) \in Seq(Steps(Inner)) /\ Do("cleanupRepos", p) \in Seq(Steps(Inner))
        /\ Do("add", p) \in Seq(Steps(Inner)) /\ Just("interruptible") \in Seq(Steps(Inner))
    BY InnerOps, DoOK
  <1> DEFINE two   == Do("upgrade", p) \o Do("cleanupRepos", p)
             three == two \o Do("add", p)
  <1>2. /\ two \in Seq(Steps(Inner))
        /\ ToSet(two) = ToSet(Do("upgrade", p)) \cup ToSet(Do("cleanupRepos", p))
    BY <1>1, ToSetOfJoin
  <1>3. three \in Seq(Steps(Inner)) /\ ToSet(three) = ToSet(two) \cup ToSet(Do("add", p))
    <2> HIDE DEF two
    <2> QED
      BY <1>1, <1>2, ToSetOfJoin
  <1>4. /\ MigrateProduct(p) \in Seq(Steps(Inner))
        /\ ToSet(MigrateProduct(p)) = ToSet(three) \cup ToSet(Just("interruptible"))
    <2>1. MigrateProduct(p) = three \o Just("interruptible")
      BY DEF MigrateProduct
    <2> HIDE DEF three
    <2> QED
      BY <1>1, <1>3, <2>1, ToSetOfJoin
  <1>5. ToSet(MigrateProduct(p)) = {[op |-> "upgrade", on |-> p], [op |-> "cleanupRepos", on |-> p],
                                    [op |-> "add", on |-> p], [op |-> "interruptible", on |-> None]}
    <2> HIDE DEF two, three
    <2> QED
      BY <1>2, <1>3, <1>4, DoElements
  <1>6. \A s \in ToSet(MigrateProduct(p)) : s.op = "upgrade" => s.on = p
    BY <1>5
  <1> QED
    BY <1>4, <1>5, <1>6

LEMMA applyMigrationOK ==
  ASSUME NEW m \in Seq(Product)
  PROVE  /\ applyMigration(m) \in Seq(Steps(ApplyOps)) /\ EndsInFinal(applyMigration(m))
         /\ \A p \in ToSet(m) : [op |-> "upgrade", on |-> p] \in ToSet(applyMigration(m))
         /\ \A s \in ToSet(applyMigration(m)) : s.op = "upgrade" => s.on \in ToSet(m)
         /\ \A s \in ToSet(applyMigration(m)) : s.op # "backup"
  <1> DEFINE all == IF "Leap" \in NamesIn(products) /\ "SLES" \in NamesIn({m[i] : i \in DOMAIN m})
                    THEN Just("disableAll") ELSE <<>>
             ss  == [i \in DOMAIN m |-> MigrateProduct(m[i])]
             a1 == Just("interruptible") \o all
             a2 == a1 \o Just("listServices")
             a3 == a2 \o FlattenSeq(ss)
             a4 == a3 \o Just("dropUnmigrated")
             a5 == a4 \o Just("refresh")
             a6 == a5 \o Just("interruptible")
             Quiet(t) == t \in Seq(Steps(Inner)) /\ \A s \in ToSet(t) : s.op # "upgrade"
  <1>1. /\ Quiet(Just("interruptible")) /\ Quiet(Just("listServices")) /\ Quiet(Just("disableAll"))
        /\ Quiet(Just("dropUnmigrated")) /\ Quiet(Just("refresh")) /\ Quiet(<<>>)
    BY InnerOps, DoOK, DoElements, ToSetOfOne, NoSteps
  <1>2. Quiet(all)
    BY <1>1
  <1> HIDE DEF all
  <1>3. Len(m) \in Nat /\ DOMAIN m = 1..Len(m) /\ \A i \in 1..Len(m) : m[i] \in Product
    OBVIOUS
  <1>4. ss \in Seq(Seq(Steps(Inner))) /\ Len(ss) = Len(m) /\ \A i \in 1..Len(m) : ss[i] = MigrateProduct(m[i])
    <2>1. ss \in [1..Len(m) -> Seq(Steps(Inner))]
      BY <1>3, MigrateProductOK
    <2> QED
      BY <1>3, <2>1
  <1> HIDE DEF ss
  <1>5. /\ FlattenSeq(ss) \in Seq(Steps(Inner))
        /\ ToSet(FlattenSeq(ss)) = UNION {ToSet(MigrateProduct(m[i])) : i \in 1..Len(m)}
    BY <1>4, FlattenOK
  <1>6. ToSet(m) = {m[i] : i \in 1..Len(m)}
    BY <1>3 DEF ToSet
  <1>7. /\ \A p \in ToSet(m) : [op |-> "upgrade", on |-> p] \in ToSet(FlattenSeq(ss))
        /\ \A s \in ToSet(FlattenSeq(ss)) : s.op = "upgrade" => s.on \in ToSet(m)
    <2>1. \A i \in 1..Len(m) : [op |-> "upgrade", on |-> m[i]] \in ToSet(FlattenSeq(ss))
      BY <1>3, <1>5, MigrateProductOK
    <2>2. ASSUME NEW s \in ToSet(FlattenSeq(ss)), s.op = "upgrade" PROVE s.on \in ToSet(m)
      <3>1. PICK i \in 1..Len(m) : s \in ToSet(MigrateProduct(m[i]))
        BY <1>5, <2>2
      <3>2. s.on = m[i]
        BY <1>3, <2>2, <3>1, MigrateProductOK
      <3> QED
        BY <1>6, <3>2
    <2> QED
      BY <1>6, <2>1, <2>2
  <1>8. a1 \in Seq(Steps(Inner)) /\ ToSet(a1) = ToSet(Just("interruptible")) \cup ToSet(all)
    BY <1>1, <1>2, ToSetOfJoin
  <1>9. a2 \in Seq(Steps(Inner)) /\ ToSet(a2) = ToSet(a1) \cup ToSet(Just("listServices"))
    <2> HIDE DEF a1
    <2> QED
      BY <1>1, <1>8, ToSetOfJoin
  <1>10. a3 \in Seq(Steps(Inner)) /\ ToSet(a3) = ToSet(a2) \cup ToSet(FlattenSeq(ss))
    <2> HIDE DEF a2
    <2> QED
      BY <1>5, <1>9, ToSetOfJoin
  <1>11. a4 \in Seq(Steps(Inner)) /\ ToSet(a4) = ToSet(a3) \cup ToSet(Just("dropUnmigrated"))
    <2> HIDE DEF a3
    <2> QED
      BY <1>1, <1>10, ToSetOfJoin
  <1>12. a5 \in Seq(Steps(Inner)) /\ ToSet(a5) = ToSet(a4) \cup ToSet(Just("refresh"))
    <2> HIDE DEF a4
    <2> QED
      BY <1>1, <1>11, ToSetOfJoin
  <1>13. a6 \in Seq(Steps(Inner)) /\ ToSet(a6) = ToSet(a5) \cup ToSet(Just("interruptible"))
    <2> HIDE DEF a5
    <2> QED
      BY <1>1, <1>12, ToSetOfJoin
  <1>14. applyMigration(m) = a6 \o Just("dist-upgrade")
    BY DEF applyMigration, all, ss
  <1>15. /\ \A p \in ToSet(m) : [op |-> "upgrade", on |-> p] \in ToSet(a6)
         /\ \A s \in ToSet(a6) : s.op = "upgrade" => s.on \in ToSet(m)
    <2> HIDE DEF a1, a2, a3, a4, a5, a6
    <2> QED
      BY <1>1, <1>2, <1>7, <1>8, <1>9, <1>10, <1>11, <1>12, <1>13
  <1>16. /\ Just("dist-upgrade") \in Seq(Steps(ApplyOps)) /\ EndsInFinal(Just("dist-upgrade"))
         /\ ToSet(Just("dist-upgrade")) = {[op |-> "dist-upgrade", on |-> None]}
    <2>1. "dist-upgrade" \in ApplyOps /\ "dist-upgrade" \notin OnOne /\ "dist-upgrade" \in Final
      BY DEF ApplyOps, OnOne, Final
    <2> QED
      BY <2>1, DoOK, DoElements, OneFinal DEF Just, Do, EndsInFinal
  <1> HIDE DEF a6
  <1>17. a6 \in Seq(Steps(ApplyOps))
    BY <1>13, InnerOps, MoreSteps
  <1>18. /\ applyMigration(m) \in Seq(Steps(ApplyOps))
         /\ ToSet(applyMigration(m)) = ToSet(a6) \cup ToSet(Just("dist-upgrade"))
    BY <1>14, <1>16, <1>17, ToSetOfJoin
  <1>19. EndsInFinal(applyMigration(m))
    BY <1>13, <1>14, <1>16, InnerOps, FinalJoin DEF EndsInFinal
  <1>20. \A s \in ToSet(a6) : s.op # "backup"
    <2>1. \A s \in ToSet(a6) : s \in Steps(Inner)
      BY <1>13, ElementsIn
    <2> QED
      BY <2>1, StepFields DEF Inner, Final
  <1> QED
    BY <1>15, <1>16, <1>18, <1>19, <1>20

LEMMA RefreshOK ==
  ASSUME act \subseteq Product, NEW p \in Product, NEW O, RollbackOps \subseteq O
  PROVE  Refresh(p) \in Seq(Steps(O))
  <1>1. {"remove", "readd"} \subseteq O \cap OnOne
    BY DEF RollbackOps, OnOne
  <1>2. Obsolete(p) \in SUBSET Product
    BY DEF Obsolete
  <1>3. /\ Do("remove", p) \in Seq(Steps(O)) /\ OfSet("remove", Obsolete(p)) \in Seq(Steps(O))
        /\ Do("readd", p) \in Seq(Steps(O))
    BY <1>1, <1>2, DoOK, OfSetOK
  <1>4. Do("remove", p) \o OfSet("remove", Obsolete(p)) \in Seq(Steps(O))
    BY <1>3, JoinSteps
  <1> QED
    BY <1>3, <1>4, JoinSteps DEF Refresh

LEMMA DowngradeExtensionsOK ==
  ASSUME NEW b \in Bases(Product), NEW O, "downgrade" \in O
  PROVE  /\ DowngradeExtensions(b) \in Seq(Steps(O))
         /\ ToSet(DowngradeExtensions(b)) =
               {[op |-> "downgrade", on |-> e] : e \in {x \in ToSet(Tree[b]) : x.name \in NamesIn(listed)}}
  <1> DEFINE t  == Tree[b]
             ss == [i \in DOMAIN t |-> IF t[i].name \in NamesIn(listed) THEN Do("downgrade", t[i]) ELSE <<>>]
             Tracked == {x \in ToSet(t) : x.name \in NamesIn(listed)}
  <1>1. t \in Seq(Product)
    BY ProductsAssumption DEF Bases
  <1> HIDE DEF t
  <1>2. Len(t) \in Nat /\ DOMAIN t = 1..Len(t) /\ \A i \in 1..Len(t) : t[i] \in Product
    BY <1>1
  <1>3. \A p \in Product : Do("downgrade", p) \in Seq(Steps(O))
    BY DoOK DEF OnOne
  <1>4. ss \in [1..Len(t) -> Seq(Steps(O))]
    BY <1>2, <1>3, NoSteps
  <1>5. ss \in Seq(Seq(Steps(O))) /\ Len(ss) = Len(t)
    BY <1>2, <1>4
  <1>6. \A i \in 1..Len(t) : ss[i] = IF t[i].name \in NamesIn(listed) THEN Do("downgrade", t[i]) ELSE <<>>
    BY <1>2
  <1>7. DowngradeExtensions(b) = FlattenSeq(ss)
    BY DEF DowngradeExtensions, t
  <1> HIDE DEF ss
  <1>8. /\ FlattenSeq(ss) \in Seq(Steps(O))
        /\ ToSet(FlattenSeq(ss)) = UNION {ToSet(ss[i]) : i \in 1..Len(t)}
    BY <1>5, FlattenOK
  <1>9. \A i \in 1..Len(t) : ToSet(ss[i]) = IF t[i].name \in NamesIn(listed)
                                          THEN {[op |-> "downgrade", on |-> t[i]]} ELSE {}
    BY <1>6, DoElements, ToSetOfOne
  <1>10. ToSet(t) = {t[i] : i \in 1..Len(t)}
    BY <1>2 DEF ToSet
  <1>11. ToSet(FlattenSeq(ss)) = {[op |-> "downgrade", on |-> e] : e \in Tracked}
    <2>1. ASSUME NEW s \in ToSet(FlattenSeq(ss)) PROVE \E e \in Tracked : s = [op |-> "downgrade", on |-> e]
      <3>1. PICK i \in 1..Len(t) : s \in ToSet(ss[i])
        BY <1>8, <2>1
      <3>2. CASE t[i].name \in NamesIn(listed)
        <4>1. ToSet(ss[i]) = {[op |-> "downgrade", on |-> t[i]]}
          BY <1>9, <3>2
        <4> QED
          BY <1>10, <3>1, <3>2, <4>1
      <3>3. CASE t[i].name \notin NamesIn(listed)
        <4>1. ToSet(ss[i]) = {}
          BY <1>9, <3>3
        <4> QED
          BY <3>1, <4>1
      <3> QED
        BY <3>2, <3>3
    <2>2. ASSUME NEW e \in Tracked PROVE [op |-> "downgrade", on |-> e] \in ToSet(FlattenSeq(ss))
      <3>1. PICK i \in 1..Len(t) : e = t[i] /\ t[i].name \in NamesIn(listed)
        BY <1>10, <2>2
      <3>2. [op |-> "downgrade", on |-> e] \in ToSet(ss[i])
        BY <1>9, <3>1
      <3> QED
        BY <1>8, <3>2
    <2> QED
      BY <2>1, <2>2
  <1> QED
    BY <1>7, <1>8, <1>11 DEF t

\* The path is a permutation of the list of the migration.
LEMMA SortOK ==
  ASSUME NEW m \in Seq(Product), NEW ids, NEW r \in sortMigrationProducts(m, ids)
  PROVE  r \in Seq(Product) /\ {r[i] : i \in DOMAIN r} = ToSet(m)
  <1>1. PICK f \in Bijection(DOMAIN m, DOMAIN m) : r = [k \in DOMAIN m |-> m[f[k]]]
    BY DEF sortMigrationProducts, InOrder
  <1>2. f \in [DOMAIN m -> DOMAIN m] /\ \A j \in DOMAIN m : \E k \in DOMAIN m : f[k] = j
    BY DEF Bijection, Surjection
  <1>3. Len(m) \in Nat /\ DOMAIN m = 1..Len(m) /\ \A i \in 1..Len(m) : m[i] \in Product
    OBVIOUS
  <1>4. DOMAIN r = DOMAIN m /\ \A k \in DOMAIN m : r[k] = m[f[k]]
    BY <1>1
  <1>5. r \in [1..Len(m) -> Product]
    BY <1>1, <1>2, <1>3
  <1>6. r \in Seq(Product)
    BY <1>3, <1>5
  <1>7. {r[i] : i \in DOMAIN r} = {m[j] : j \in DOMAIN m}
    BY <1>2, <1>4
  <1> QED
    BY <1>6, <1>7 DEF ToSet

-----------------------------------------------------------------------------
(* What the ways to go on do to the control.                                *)
\* The steps of an action that goes on: some of its phase, which keep the last step
\* of a migration in its place or bring the next one.
GoesWell(steps) ==
    /\ steps \in Seq(Steps(Allowed))
    /\ phase = "apply" =>
         \/ Head(todo).op \notin Final /\ steps \in Seq(Steps(Inner))
         \/ Head(todo).op \in Final /\ EndsInFinal(steps)

LEMMA ThenOK ==
  ASSUME ControlOK, todo # <<>>, NEW steps, GoesWell(steps), Then(steps)
  PROVE  ControlOK'
  <1>1. /\ todo' = steps \o Tail(todo)
        /\ UNCHANGED command
    BY DEF Then
  <1>2. CommandOK' /\ SignalOK'
    BY <1>1 DEF ControlOK, CommandOK, SignalOK, InterruptStops, command
  <1>3. Tail(todo) \in Seq(Steps(Allowed)) /\ result = "running" /\ todo \in Seq(Steps(Allowed))
    BY HeadStep DEF ControlOK, TodoOK
  <1>4. Allowed' = Allowed /\ result' = result /\ phase' = phase
    BY <1>1 DEF Allowed, command
  <1>5. todo' \in Seq(Steps(Allowed))
    BY <1>1, <1>3, JoinSteps DEF GoesWell
  <1>6. todo' \in Seq(Steps(Allowed))'
    BY <1>4, <1>5 DEF Steps
  <1>7. ASSUME phase = "apply" PROVE EndsInFinal(todo')
    <2>1. EndsInFinal(todo)
      BY <1>3, <1>7 DEF ControlOK, TodoOK
    <2>2. CASE Head(todo).op \notin Final /\ steps \in Seq(Steps(Inner))
      <3>1. EndsInFinal(Tail(todo))
        BY <1>3, <2>1, <2>2, FinalKept DEF EndsInFinal
      <3> QED
        BY <1>1, <1>3, <2>2, <3>1, InnerOps, FinalJoin DEF EndsInFinal
    <2>3. CASE Head(todo).op \in Final /\ EndsInFinal(steps)
      <3>1. Tail(todo) = <<>>
        BY <1>3, <2>1, <2>3, FinalAlone DEF EndsInFinal
      <3>2. steps \in Seq(Steps(Allowed))
        BY DEF GoesWell
      <3>3. steps \o <<>> = steps
        BY <3>2
      <3> QED
        BY <1>1, <2>3, <3>1, <3>3
    <2> QED
      BY <1>7, <2>2, <2>3 DEF GoesWell
  <1>8. TodoOK'
    BY <1>3, <1>4, <1>6, <1>7 DEF TodoOK, EndsInFinal, EndsIn
  <1> QED
    BY <1>2, <1>8 DEF ControlOK

LEMMA ThenNothing ==
  ASSUME ControlOK, todo # <<>>, Head(todo).op \notin Final, Then(<<>>)
  PROVE  ControlOK'
  <1>1. GoesWell(<<>>)
    BY NoSteps DEF GoesWell
  <1> QED
    BY <1>1, ThenOK

LEMMA ExitOK ==
  ASSUME ControlOK, result = "running", NEW r \in Results \ {"running"},
         r = "ok" => interrupted # "apply", Exit(r)
  PROVE  ControlOK'
  <1>1. /\ todo' = <<>> /\ result' = r
        /\ UNCHANGED <<cmd, flags, environ, phase, interrupted, runs, start>>
    BY DEF Exit
  <1>2. CommandOK' /\ SignalOK'
    BY <1>1 DEF ControlOK, CommandOK, SignalOK, InterruptStops
  <1>3. todo' \in Seq(Steps(Allowed))'
    BY <1>1
  <1> QED
    BY <1>1, <1>2, <1>3 DEF TodoOK, ControlOK

LEMMA ErrorOK ==
  ASSUME ControlOK, todo # <<>>, Error
  PROVE  ControlOK'
  <1>1. result = "running"
    BY DEF ControlOK, TodoOK
  <1>2. CASE phase = "apply"
    <2>1. /\ phase' = "undo" /\ todo' = Undo
          /\ UNCHANGED <<cmd, flags, environ, interrupted, runs, start, result>>
      BY <1>2 DEF Error
    <2>2. CommandOK' /\ SignalOK'
      BY <1>1, <1>2, <2>1 DEF ControlOK, CommandOK, SignalOK, InterruptStops
    <2>3. {"restore", "base"} \subseteq UndoOps \ OnOne
      BY DEF UndoOps, RollbackOps, OnOne
    <2>4. Just("restore") \in Seq(Steps(UndoOps)) /\ Just("base") \in Seq(Steps(UndoOps))
      BY <2>3, DoOK
    <2>5. todo' \in Seq(Steps(UndoOps))
      BY <2>1, <2>4, JoinSteps DEF Undo
    <2>6. Allowed' = UndoOps
      BY <2>1 DEF Allowed
    <2>7. todo' \in Seq(Steps(Allowed))'
      BY <2>5, <2>6 DEF Steps
    <2> QED
      BY <1>1, <2>1, <2>2, <2>7 DEF TodoOK, ControlOK
  <1>3. CASE phase # "apply"
    <2>1. "failed" \in Results \ {"running"} /\ Exit("failed")
      BY <1>3 DEF Results, Error
    <2> QED
      BY <1>1, <2>1, ExitOK
  <1> QED
    BY <1>2, <1>3

-----------------------------------------------------------------------------
(* Every action keeps the type invariant.                                   *)
LEMMA FaultyOK ==
  ASSUME BoundsOK, Faulty
  PROVE  BoundsOK'
  BY OptionsAssumption DEF BoundsOK, Faulty

LEMMA FilesOK ==
  ASSUME LocalOK
  PROVE  Files \in FilesType
  BY DEF LocalOK, Files, FilesType

\* What an action leaves alone keeps its type.
LEMMA Untouched ==
  /\ UNCHANGED local /\ LocalOK => LocalOK'
  /\ UNCHANGED saved /\ SavedOK => SavedOK'
  /\ UNCHANGED notes /\ NotesOK => NotesOK'
  /\ UNCHANGED bounds /\ BoundsOK => BoundsOK'
  BY DEF local, saved, notes, bounds, LocalOK, SavedOK, NotesOK, BoundsOK, FilesType

LEMMA InitType ==
  Init => TypeInv
  <1> SUFFICES ASSUME Init PROVE TypeInv
    OBVIOUS
  <1>1. act \subseteq Product /\ LocalOK
    BY ProductsAssumption DEF Init, LocalOK
  <1>2. SavedOK
    BY DEF Init, SavedOK
  <1>6. BoundsOK
    <2>1. pending \in {FALSE, MaxPatches > 0}
      BY DEF Init
    <2>2. pending \in BOOLEAN
      <3>1. (MaxPatches > 0) \in BOOLEAN
        OBVIOUS
      <3> QED
        BY <2>1, <3>1
    <2> QED
      BY <2>2, OptionsAssumption DEF Init, BoundsOK
  <1>5. NotesOK
    BY NoSteps DEF Init, NotesOK
  <1>3. CommandOK /\ SignalOK
    BY OptionsAssumption DEF Init, CommandOK, SignalOK, InterruptStops, Results
  <1>4. TodoOK
    BY DEF Init, TodoOK
  <1> QED
    BY <1>1, <1>2, <1>3, <1>4, <1>5, <1>6 DEF TypeInv, DataOK, ControlOK

LEMMA StartType ==
  ASSUME TypeInv, NEW c \in {"migration", "rollback"}, NEW f, f \subseteq Flag, Start(c, f)
  PROVE  TypeInv'
  <1>1. act' \subseteq Product /\ LocalOK' /\ SavedOK' /\ BoundsOK'
    BY Untouched DEF TypeInv, DataOK, Start, server
  <1>2. NotesOK'
    BY NoSteps DEF Start, Fresh, NotesOK
  <1>3. runs' \in 0..MaxRuns
    BY OptionsAssumption DEF Start, TypeInv, ControlOK, CommandOK
  <1>4. CommandOK'
    BY <1>3 DEF Start, Fresh, CommandOK, Results
  <1>5. SignalOK'
    BY DEF Start, Fresh, SignalOK, InterruptStops
  <1>6. Allowed' = IF c = "rollback" THEN UndoOps ELSE CheckOps
    BY DEF Start, Allowed
  <1>7. todo' \in Seq(Steps(IF c = "rollback" THEN UndoOps ELSE CheckOps))
    BY BeginOK DEF Start
  <1>8. todo' \in Seq(Steps(Allowed))'
    BY <1>6, <1>7 DEF Steps
  <1>9. TodoOK'
    BY <1>8 DEF Start, TodoOK
  <1> QED
    BY <1>1, <1>2, <1>4, <1>5, <1>9 DEF TypeInv, DataOK, ControlOK

\* An action at a step that is in todo.
LEMMA AtStep ==
  ASSUME TypeInv, NEW op, At(op)
  PROVE  /\ todo # <<>> /\ Head(todo).op = op /\ op \in Allowed
         /\ op \in OnOne => On \in Product
         /\ op \notin Final => Head(todo).op \notin Final
         /\ result = "running" /\ ControlOK
         /\ phase \in {"check", "apply", "undo", "last"}
  BY HeadStep DEF At, TypeInv, ControlOK, CommandOK

\* The phases a step can be done in.
LEMMA Phases ==
  ASSUME TypeInv, NEW op, At(op)
  PROVE  /\ op \in {"patchCheck", "patch", "patchRecheck", "reread", "fetch"} => phase = "check"
         /\ op \in {"check", "release", "checked"} => phase \in {"check", "last"}
         /\ op \in {"preSnapshot", "backup", "interruptible", "disableAll", "listServices", "upgrade",
                    "cleanupRepos", "add", "dropUnmigrated", "dist-upgrade"} => phase = "apply"
         /\ op \in {"base", "downgrade", "readd", "sync", "releasever"} => phase \in {"check", "undo"}
         /\ op = "restore" => phase = "undo"
  BY AtStep DEF Allowed, CheckOps, ApplyOps, UndoOps, LastOps, RollbackOps

\* The steps before the migration.
LEMMA LookupType ==
  ASSUME TypeInv, PatchCheck \/ Patch \/ PatchRecheck \/ RefreshRepos
                  \/ releasePackagesChecked \/ rereadProducts
  PROVE  TypeInv'
  <1>0. /\ act \subseteq Product /\ LocalOK /\ SavedOK /\ NotesOK /\ BoundsOK /\ ControlOK
    BY DEF TypeInv, DataOK
  <1>1. ASSUME UNCHANGED <<server, local, saved, notes, bounds>> PROVE DataOK'
    BY <1>0, <1>1, Untouched DEF DataOK, server
  <1>2. \A op \in {"patch", "patchRecheck", "base", "reread"} :
            phase = "check" => Just(op) \in Seq(Steps(Allowed))
    BY DoOK DEF Allowed, CheckOps, RollbackOps, OnOne
  <1>3. \A op \in {"patchCheck", "patch", "patchRecheck", "refresh", "checked", "reread"} : op \notin Final
    BY DEF Final
  <1>4. CASE PatchCheck
    <2>1. todo # <<>> /\ phase = "check" /\ Head(todo).op \notin Final
      BY <1>3, <1>4, AtStep, Phases DEF PatchCheck
    <2>2. GoesWell(<<>>) /\ GoesWell(Just("patch"))
      BY <1>2, <2>1, NoSteps DEF GoesWell
    <2> QED
      BY <1>0, <1>1, <1>4, <2>1, <2>2, ThenOK DEF PatchCheck, TypeInv
  <1>5. CASE Patch
    <2>1. todo # <<>> /\ phase = "check" /\ result = "running" /\ interrupted = "no"
      BY <1>0, <1>5, AtStep, Phases DEF Patch, ControlOK, SignalOK
    <2>2. GoesWell(Just("patchRecheck"))
      BY <1>2, <2>1 DEF GoesWell
    <2>3. ASSUME Then(Just("patchRecheck")) PROVE ControlOK'
      BY <1>0, <2>1, <2>2, <2>3, ThenOK
    <2>4. ASSUME Exit("failed") PROVE ControlOK'
      BY <1>0, <2>1, <2>4, ExitOK DEF Results
    <2>5. ControlOK'
      BY <1>5, <2>3, <2>4 DEF Patch
    <2>6. pending' \in BOOLEAN
      BY <1>5, Zenon DEF Patch
    <2>7. BoundsOK'
      BY <1>0, <1>5, <2>6 DEF Patch, BoundsOK
    <2>8. UNCHANGED <<server, local, saved, notes>>
      BY <1>5 DEF Patch
    <2> QED
      BY <1>0, <2>5, <2>7, <2>8, Untouched DEF TypeInv, DataOK, server
  <1>6. CASE PatchRecheck
    <2>1. /\ todo # <<>> /\ phase = "check" /\ result = "running"
          /\ cmd = "migration" /\ interrupted = "no"
      BY <1>0, <1>6, AtStep, Phases DEF PatchRecheck, ControlOK, SignalOK, CommandOK
    <2>2. ASSUME Exit("failed") PROVE ControlOK'
      BY <1>0, <2>1, <2>2, ExitOK DEF Results
    <2>3. ASSUME todo' = Begin(cmd, flags), environ' = FALSE,
                 UNCHANGED <<cmd, flags, phase, result, interrupted, runs, start>>
          PROVE  ControlOK'
      <3>1. CommandOK' /\ SignalOK'
        BY <1>0, <2>3 DEF ControlOK, CommandOK, SignalOK, InterruptStops
      <3>2. Allowed' = CheckOps
        BY <2>1, <2>3 DEF Allowed
      <3>3. todo' \in Seq(Steps(CheckOps))
        BY <2>1, <2>3, BeginOK
      <3>4. todo' \in Seq(Steps(Allowed))'
        BY <3>2, <3>3 DEF Steps
      <3> QED
        BY <2>1, <2>3, <3>1, <3>4 DEF ControlOK, TodoOK
    <2>4. ControlOK'
      BY <1>6, <2>2, <2>3 DEF PatchRecheck
    <2> QED
      BY <1>1, <1>6, <2>4 DEF PatchRecheck, TypeInv
  <1>7. CASE RefreshRepos
    <2>1. todo # <<>> /\ Head(todo).op \notin Final
      BY <1>3, <1>7, AtStep DEF RefreshRepos
    <2> QED
      BY <1>0, <1>1, <1>7, <2>1, ThenNothing DEF RefreshRepos, TypeInv
  <1>8. CASE releasePackagesChecked
    <2>1. todo # <<>> /\ phase \in {"check", "last"}
      BY <1>8, AtStep, Phases DEF releasePackagesChecked
    <2> DEFINE steps == IF missing /\ phase = "check" THEN Just("base") \o Just("reread") ELSE <<>>
    <2>2. steps \in Seq(Steps(Allowed))
      BY <1>2, NoSteps, JoinSteps
    <2>3. Then(steps)
      BY <1>8 DEF releasePackagesChecked
    <2> HIDE DEF steps
    <2>4. ControlOK'
      BY <1>0, <2>1, <2>2, <2>3, ThenOK DEF GoesWell
    <2> QED
      BY <1>1, <1>8, <2>4 DEF releasePackagesChecked, TypeInv
  <1>9. CASE rereadProducts
    <2>1. todo # <<>> /\ Head(todo).op \notin Final
      BY <1>3, <1>9, AtStep DEF rereadProducts
    <2> QED
      BY <1>0, <1>1, <1>9, <2>1, ThenNothing DEF rereadProducts, TypeInv
  <1> QED
    BY <1>4, <1>5, <1>6, <1>7, <1>8, <1>9

LEMMA checkSystemProductsType ==
  ASSUME TypeInv, checkSystemProducts
  PROVE  TypeInv'
  <1>1. todo # <<>> /\ phase \in {"check", "last"} /\ ControlOK /\ DataOK
    BY AtStep, Phases DEF checkSystemProducts, TypeInv
  <1> DEFINE missed == {p \in products' : ~environ \/ p.name \notin NamesIn(packages)}
  <1>2. products' \subseteq Product /\ missing' \in BOOLEAN
    BY <1>1 DEF checkSystemProducts, DataOK, LocalOK, SystemProducts
  <1>3. missed \in SUBSET Product
    BY <1>2
  <1>4. Then(OfSet("release", missed) \o Just("checked"))
    BY DEF checkSystemProducts
  <1> HIDE DEF missed
  <1>5. "release" \in Allowed \cap OnOne /\ "checked" \in Allowed \ OnOne
    BY <1>1 DEF Allowed, CheckOps, LastOps, OnOne
  <1>6. OfSet("release", missed) \o Just("checked") \in Seq(Steps(Allowed))
    BY <1>3, <1>5, OfSetOK, DoOK, JoinSteps
  <1>7. ControlOK'
    BY <1>1, <1>4, <1>6, ThenOK DEF GoesWell
  <1>8. UNCHANGED <<server, local, saved, bounds, path, known, migrated, backedUp, upgraded, unadded>>
    BY DEF checkSystemProducts
  <1>9. NotesOK'
    BY <1>1, <1>2, <1>8 DEF DataOK, NotesOK
  <1> QED
    BY <1>1, <1>7, <1>8, <1>9, Untouched DEF TypeInv, DataOK, server

LEMMA InstallReleasePackageType ==
  ASSUME TypeInv, InstallReleasePackage
  PROVE  TypeInv'
  <1>1. todo # <<>> /\ Head(todo).op \notin Final /\ ControlOK /\ DataOK
    BY AtStep DEF InstallReleasePackage, TypeInv, Final
  <1>2. ControlOK'
    BY <1>1, ThenNothing DEF InstallReleasePackage
  <1>3. \A n : Offered(n) \subseteq Product
    BY <1>1, OptionsAssumption DEF Offered, DataOK, LocalOK
  <1>4. packages' \subseteq Product /\ listed' \subseteq Product
    BY <1>1, <1>3 DEF InstallReleasePackage, DataOK, LocalOK, With
  <1>5. missing' \in BOOLEAN
    BY <1>1 DEF InstallReleasePackage, DataOK, NotesOK
  <1>6. faults' \in 0..MaxFaults
    BY <1>1, OptionsAssumption DEF InstallReleasePackage, DataOK, BoundsOK
  <1>7. UNCHANGED <<server, broken, services, repos, saved, products, path, known, migrated,
                   backedUp, upgraded, unadded, patches, pending>>
    BY DEF InstallReleasePackage
  <1>8. LocalOK'
    BY <1>1, <1>4, <1>7 DEF DataOK, LocalOK
  <1>9. NotesOK'
    BY <1>1, <1>5, <1>7 DEF DataOK, NotesOK
  <1>10. BoundsOK'
    BY <1>1, <1>6, <1>7 DEF DataOK, BoundsOK
  <1> QED
    BY <1>1, <1>2, <1>7, <1>8, <1>9, <1>10, Untouched DEF TypeInv, DataOK, server

LEMMA SelectType ==
  ASSUME TypeInv, selectMigration
  PROVE  TypeInv' /\ (path' = path \/ \E i \in DOMAIN Paths : Select(i))
  <1>1. /\ todo # <<>> /\ phase = "check" /\ result = "running" /\ ControlOK /\ DataOK
        /\ interrupted = "no" /\ cmd = "migration"
    BY AtStep, Phases DEF selectMigration, TypeInv, ControlOK, SignalOK
  <1>2. UNCHANGED <<server, local, saved, products, missing, known, migrated,
                   backedUp, upgraded, unadded, bounds>>
    BY DEF selectMigration
  <1>3. \/ UNCHANGED path /\ \E r \in {"failed", "ok"} : Exit(r)
        \/ \E i \in DOMAIN Paths : Select(i)
    BY DEF selectMigration, migrations, AllOffered
  <1>4. ASSUME UNCHANGED path, NEW r \in {"failed", "ok"}, Exit(r)
        PROVE  TypeInv'
    <2>1. ControlOK'
      BY <1>1, <1>4, ExitOK DEF Results
    <2>2. NotesOK'
      BY <1>1, <1>2, <1>4 DEF DataOK, NotesOK
    <2> QED
      BY <1>1, <1>2, <2>1, <2>2, Untouched DEF TypeInv, DataOK, server
  <1>5. ASSUME NEW i \in DOMAIN Paths, Select(i)
        PROVE  TypeInv'
    <2>1. Paths[i] \in [from : SUBSET Product, to : Seq(Product)]
      BY ProductsAssumption, ElementIn
    <2>2. path' \in Seq(Product)
      BY <1>5, <2>1, SortOK DEF Select
    <2>3. NotesOK'
      BY <1>1, <1>2, <2>2 DEF DataOK, NotesOK
    <2>4. /\ phase' = "apply" /\ todo' = Chosen
          /\ UNCHANGED <<cmd, flags, environ, result, interrupted, runs, start>>
      BY <1>5 DEF Select
    <2>5. CommandOK' /\ SignalOK'
      BY <1>1, <2>4 DEF ControlOK, CommandOK, SignalOK, InterruptStops
    <2>6. Allowed' = ApplyOps
      BY <2>4 DEF Allowed
    <2>7. todo' \in Seq(Steps(Allowed))'
      BY <2>4, <2>6, ChosenOK DEF Steps
    <2>8. EndsInFinal(todo')
      BY <2>4, ChosenOK
    <2>9. TodoOK'
      BY <1>1, <2>4, <2>7, <2>8 DEF TodoOK, EndsInFinal, EndsIn
    <2> QED
      BY <1>1, <1>2, <2>3, <2>5, <2>9, Untouched DEF TypeInv, DataOK, ControlOK, server
  <1> QED
    BY <1>3, <1>4, <1>5

\* The steps of the migration that have nothing but an outcome.
LEMMA ApplyType ==
  ASSUME TypeInv, CreatePreSnapshot \/ checkInterrupted \/ disableAllRepos \/ InstalledServices
                  \/ MigrationRemoveService \/ cleanupProductRepos \/ MigrationAddService
  PROVE  TypeInv'
  <1>0. /\ act \subseteq Product /\ LocalOK /\ SavedOK /\ NotesOK /\ BoundsOK /\ ControlOK
        /\ todo # <<>> /\ Head(todo).op \notin Final /\ result = "running"
    BY AtStep DEF TypeInv, DataOK, Final, CreatePreSnapshot, checkInterrupted, disableAllRepos,
                  InstalledServices, MigrationRemoveService, cleanupProductRepos, MigrationAddService
  <1>1. ASSUME Then(<<>>) \/ Error \/ Exit("abandoned") PROVE ControlOK'
    <2>1. CASE Then(<<>>)
      BY <1>0, <2>1, ThenNothing
    <2>2. CASE Error
      BY <1>0, <2>2, ErrorOK
    <2>3. CASE Exit("abandoned")
      BY <1>0, <2>3, ExitOK DEF Results
    <2> QED
      BY <1>1, <2>1, <2>2, <2>3
  <1>2. ASSUME UNCHANGED bounds \/ Faulty PROVE BoundsOK'
    BY <1>0, <1>2, FaultyOK, Untouched
  <1>3. CASE CreatePreSnapshot
    <2>1. ControlOK' /\ BoundsOK'
      BY <1>1, <1>2, <1>3 DEF CreatePreSnapshot
    <2>2. snapshot' \in {snapshot, Files} /\ backup' = backup
      BY <1>3 DEF CreatePreSnapshot
    <2>3. SavedOK'
      BY <1>0, <2>2, FilesOK DEF SavedOK, FilesType
    <2>4. UNCHANGED <<server, local, notes>>
      BY <1>3 DEF CreatePreSnapshot
    <2> QED
      BY <1>0, <2>1, <2>3, <2>4, Untouched DEF TypeInv, DataOK, server
  <1>4. CASE checkInterrupted
    <2>1. ControlOK'
      BY <1>1, <1>4 DEF checkInterrupted
    <2>2. UNCHANGED <<server, local, saved, notes, bounds>>
      BY <1>4 DEF checkInterrupted
    <2> QED
      BY <1>0, <2>1, <2>2, Untouched DEF TypeInv, DataOK, server
  <1>5. CASE disableAllRepos \/ cleanupProductRepos
    <2>1. ControlOK' /\ BoundsOK'
      BY <1>1, <1>2, <1>5 DEF disableAllRepos, cleanupProductRepos
    <2>2. repos' \subseteq repos
      BY <1>5 DEF disableAllRepos, cleanupProductRepos
    <2>3. UNCHANGED <<server, packages, broken, listed, services, saved, notes>>
      BY <1>5 DEF disableAllRepos, cleanupProductRepos
    <2>4. LocalOK'
      BY <1>0, <2>2, <2>3 DEF LocalOK
    <2> QED
      BY <1>0, <2>1, <2>3, <2>4, Untouched DEF TypeInv, DataOK, server
  <1>6. CASE InstalledServices
    <2>1. ControlOK' /\ BoundsOK'
      BY <1>1, <1>2, <1>6 DEF InstalledServices
    <2>2. known' \subseteq Product \cup Foreign
      BY <1>0, <1>6 DEF InstalledServices, LocalOK
    <2>3. UNCHANGED <<server, local, saved, products, missing, path, migrated,
                      backedUp, upgraded, unadded>>
      BY <1>6 DEF InstalledServices
    <2>4. NotesOK'
      BY <1>0, <2>2, <2>3 DEF NotesOK
    <2> QED
      BY <1>0, <2>1, <2>3, <2>4, Untouched DEF TypeInv, DataOK, server
  <1>7. CASE MigrationRemoveService \/ MigrationAddService
    <2>1. ControlOK' /\ BoundsOK'
      BY <1>1, <1>2, <1>7 DEF MigrationRemoveService, MigrationAddService
    <2>2. On \in Product
      BY <1>7, AtStep DEF MigrationRemoveService, MigrationAddService, OnOne
    <2>3. services' \subseteq Product \cup Foreign
      BY <1>0, <1>7, <2>2 DEF MigrationRemoveService, MigrationAddService, LocalOK
    <2>4. UNCHANGED <<server, packages, broken, listed, repos, saved, notes>>
      BY <1>7 DEF MigrationRemoveService, MigrationAddService
    <2>5. LocalOK'
      BY <1>0, <2>3, <2>4 DEF LocalOK
    <2> QED
      BY <1>0, <2>1, <2>4, <2>5, Untouched DEF TypeInv, DataOK, server
  <1> QED
    BY <1>3, <1>4, <1>5, <1>6, <1>7

LEMMA BackupType ==
  ASSUME TypeInv, Backup
  PROVE  TypeInv'
  <1>1. /\ todo # <<>> /\ Head(todo).op = "backup" /\ phase = "apply" /\ ControlOK /\ DataOK
    BY AtStep, Phases DEF Backup, TypeInv
  <1>2. path \in Seq(Product)
    BY <1>1 DEF DataOK, NotesOK
  <1>3. GoesWell(applyMigration(path))
    BY <1>1, <1>2, applyMigrationOK DEF GoesWell, Allowed, Final
  <1>4. ControlOK'
    BY <1>1, <1>3, ThenOK DEF Backup
  <1>5. BoundsOK'
    BY <1>1, FaultyOK, Untouched DEF Backup, DataOK
  <1>6. backup' \in {backup, Files, None, Partial} /\ snapshot' = snapshot
    BY DEF Backup
  <1>7. SavedOK'
    BY <1>1, <1>6, FilesOK DEF DataOK, SavedOK, FilesType
  <1>8. backedUp' \in BOOLEAN
    BY <1>1 DEF Backup, DataOK, NotesOK
  <1>9. UNCHANGED <<server, local, products, missing, path, known, migrated, upgraded, unadded>>
    BY DEF Backup
  <1>10. NotesOK'
    BY <1>1, <1>8, <1>9 DEF DataOK, NotesOK
  <1> QED
    BY <1>1, <1>4, <1>5, <1>7, <1>9, <1>10, Untouched DEF TypeInv, DataOK, server

LEMMA UpgradeProductType ==
  ASSUME TypeInv, UpgradeProduct
  PROVE  TypeInv'
  <1>1. /\ todo # <<>> /\ Head(todo).op \notin Final /\ phase = "apply" /\ ControlOK /\ DataOK
        /\ On \in Product
    BY AtStep, Phases DEF UpgradeProduct, TypeInv, OnOne, Final
  <1>2. Obsolete(On) \in SUBSET Product
    BY <1>1 DEF Obsolete, DataOK
  <1>3. OfSet("remove", Obsolete(On)) \in Seq(Steps(Inner))
    BY <1>2, InnerOps, OfSetOK
  <1>4. GoesWell(OfSet("remove", Obsolete(On)))
    BY <1>1, <1>3, InnerOps, MoreSteps DEF GoesWell, Allowed
  <1>5. ControlOK'
    BY <1>1, <1>4, ThenOK DEF UpgradeProduct
  <1>6. act' \subseteq Product /\ migrated' \subseteq Product
    BY <1>1, <1>2 DEF UpgradeProduct, DataOK, NotesOK
  <1>7. UNCHANGED <<local, saved, products, missing, path, known, backedUp, upgraded, unadded, bounds>>
    BY DEF UpgradeProduct
  <1>8. NotesOK'
    BY <1>1, <1>6, <1>7 DEF DataOK, NotesOK
  <1> QED
    BY <1>1, <1>5, <1>6, <1>7, <1>8, Untouched DEF TypeInv, DataOK

LEMMA dropUnmigratedType ==
  ASSUME TypeInv, dropUnmigrated
  PROVE  TypeInv'
  <1>1. /\ todo # <<>> /\ Head(todo).op \notin Final /\ phase = "apply" /\ ControlOK /\ DataOK
    BY AtStep, Phases DEF dropUnmigrated, TypeInv, Final
  <1>2. OfSet("remove", Unmigrated) \in Seq(Steps(Inner))
    BY InnerOps, OfSetOK DEF Unmigrated
  <1>3. GoesWell(OfSet("remove", Unmigrated))
    BY <1>1, <1>2, InnerOps, MoreSteps DEF GoesWell, Allowed
  <1>4. ControlOK'
    BY <1>1, <1>3, ThenOK DEF dropUnmigrated
  <1>5. UNCHANGED <<server, local, saved, notes, bounds>>
    BY DEF dropUnmigrated
  <1> QED
    BY <1>1, <1>4, <1>5, Untouched DEF TypeInv, DataOK, server

LEMMA upgradePackagesType ==
  ASSUME TypeInv, upgradePackages
  PROVE  TypeInv'
  <1>1. todo # <<>> /\ phase = "apply" /\ ControlOK /\ DataOK /\ result = "running"
    BY AtStep, Phases DEF upgradePackages, TypeInv
  <1>2. PICK code \in {"ok", "info", "commit", "error"} :
            /\ DistUpgrade(code)
            /\ IF code = "commit" THEN Exit("inconsistent")
               ELSE IF Stops(code) THEN Error
               ELSE /\ phase' = "last" /\ todo' = Just("check")
                    /\ UNCHANGED <<cmd, flags, environ, result, interrupted, runs, start>>
    BY DEF upgradePackages
  <1>3. UNCHANGED <<server, services, repos, saved, products, missing, path, known, migrated,
                   backedUp, unadded>>
    BY DEF upgradePackages
  <1>4. BoundsOK'
    BY <1>1, <1>2, FaultyOK, Untouched DEF DistUpgrade, DataOK
  <1>5. broken' \in BOOLEAN
    BY <1>2, Zenon DEF DistUpgrade
  <1>6. Ends(code) \in BOOLEAN
    BY <1>2 DEF Ends, Has
  <1>7. upgraded' \in BOOLEAN
    BY <1>2, <1>6, Zenon DEF DistUpgrade
  <1>8. NotesOK'
    BY <1>1, <1>3, <1>7 DEF DataOK, NotesOK
  <1>9. NewPackages \subseteq Product
    BY <1>1 DEF NewPackages, DataOK, NotesOK
  <1>10. \A S : Kept(S) \subseteq S
    BY DEF Kept
  <1>11. packages' \subseteq Product /\ listed' \subseteq Product
    BY <1>1, <1>2, <1>9, <1>10 DEF DistUpgrade, DataOK, LocalOK
  <1>12. LocalOK'
    BY <1>1, <1>3, <1>5, <1>11 DEF DataOK, LocalOK
  <1>13. DataOK'
    BY <1>1, <1>3, <1>4, <1>8, <1>12, Untouched DEF DataOK, server
  <1>14. CASE code = "commit"
    BY <1>1, <1>2, <1>13, <1>14, ExitOK DEF Results, TypeInv
  <1>15. CASE code # "commit" /\ Stops(code)
    BY <1>1, <1>2, <1>13, <1>15, ErrorOK DEF TypeInv
  <1>16. CASE code # "commit" /\ ~Stops(code)
    <2>1. /\ phase' = "last" /\ todo' = Just("check") /\ interrupted = "no"
          /\ UNCHANGED <<cmd, flags, environ, result, interrupted, runs, start>>
      BY <1>2, <1>16 DEF Stops
    <2>2. CommandOK' /\ SignalOK'
      BY <1>1, <2>1 DEF ControlOK, CommandOK, SignalOK, InterruptStops
    <2>3. Allowed' = LastOps
      BY <2>1 DEF Allowed
    <2>4. todo' \in Seq(Steps(LastOps))
      BY <2>1, DoOK DEF LastOps, OnOne
    <2>5. todo' \in Seq(Steps(Allowed))'
      BY <2>3, <2>4 DEF Steps
    <2> QED
      BY <1>1, <1>13, <2>1, <2>2, <2>5 DEF TypeInv, ControlOK, TodoOK
  <1> QED
    BY <1>14, <1>15, <1>16

\* The steps of a rollback.
LEMMA RollbackGoes ==
  ASSUME TypeInv, phase \in {"check", "undo"}
  PROVE  /\ RollbackOps \subseteq Allowed
         /\ \A steps \in Seq(Steps(Allowed)) : GoesWell(steps)
  BY DEF Allowed, CheckOps, UndoOps, GoesWell

LEMMA RestoreType ==
  ASSUME TypeInv, Restore
  PROVE  TypeInv'
  <1>1. todo # <<>> /\ Head(todo).op \notin Final /\ ControlOK /\ DataOK
    BY AtStep DEF Restore, TypeInv, Final
  <1>2. ControlOK'
    BY <1>1, ThenNothing DEF Restore
  <1>3. BoundsOK'
    BY <1>1, FaultyOK, Untouched DEF Restore, DataOK
  <1>4. /\ services' \in {services, {}, backup.services} /\ repos' \in {repos, {}, backup.repos}
        /\ listed' \in {listed, {}, backup.listed}
        /\ backup \in FilesType \/ (services' \in {services, {}} /\ repos' \in {repos, {}} /\ listed' \in {listed, {}})
    BY <1>1 DEF Restore, DataOK, SavedOK
  <1>5. services' \subseteq Product \cup Foreign /\ repos' \subseteq UserRepos /\ listed' \subseteq Product
    BY <1>1, <1>4 DEF FilesType, DataOK, LocalOK
  <1>6. UNCHANGED <<server, packages, broken, saved, notes>>
    BY DEF Restore
  <1>7. LocalOK'
    BY <1>1, <1>5, <1>6 DEF DataOK, LocalOK
  <1> QED
    BY <1>1, <1>2, <1>3, <1>6, <1>7, Untouched DEF TypeInv, DataOK, server

LEMMA DowngradeType ==
  ASSUME TypeInv, NEW p \in Product, Downgrade(p)
  PROVE  DataOK'
  <1>1. act' \subseteq Product
    BY DEF TypeInv, DataOK, Downgrade, Obsolete
  <1>2. UNCHANGED <<local, saved, notes, bounds>>
    BY DEF Downgrade
  <1> QED
    BY <1>1, <1>2, Untouched DEF TypeInv, DataOK

LEMMA RollbackType ==
  ASSUME TypeInv, RollbackBase \/ RollbackExtension \/ syncProducts \/ SetReleaseVersion
  PROVE  TypeInv'
  <1>0. /\ todo # <<>> /\ Head(todo).op \notin Final /\ phase \in {"check", "undo"}
        /\ ControlOK /\ DataOK
    BY AtStep, Phases DEF TypeInv, Final, RollbackBase, RollbackExtension, syncProducts, SetReleaseVersion
  <1>1. /\ RollbackOps \subseteq Allowed
        /\ \A steps \in Seq(Steps(Allowed)) : GoesWell(steps)
    BY <1>0, RollbackGoes
  <1>2. Just("sync") \in Seq(Steps(Allowed)) /\ Just("releasever") \in Seq(Steps(Allowed))
    BY <1>1, DoOK DEF RollbackOps, OnOne
  <1>3. \A p \in Product : Refresh(p) \in Seq(Steps(Allowed))
    BY <1>0, <1>1, RefreshOK DEF DataOK
  <1>4. CASE RollbackBase
    <2>1. CASE Bases(listed) = {} /\ Error /\ UNCHANGED <<server, local, saved, notes, bounds>>
      BY <1>0, <2>1, ErrorOK, Untouched DEF TypeInv, DataOK, server
    <2>2. ASSUME NEW b \in Bases(listed), Downgrade(b),
                 Then(Refresh(b) \o DowngradeExtensions(b) \o Just("sync"))
          PROVE  TypeInv'
      <3>1. b \in Bases(Product) /\ b \in Product
        BY <1>0 DEF Bases, DataOK, LocalOK
      <3>2. DowngradeExtensions(b) \in Seq(Steps(Allowed))
        BY <1>1, <3>1, DowngradeExtensionsOK DEF RollbackOps
      <3>3. Refresh(b) \o DowngradeExtensions(b) \in Seq(Steps(Allowed))
        BY <1>3, <3>1, <3>2, JoinSteps
      <3>4. Refresh(b) \o DowngradeExtensions(b) \o Just("sync") \in Seq(Steps(Allowed))
        BY <1>2, <3>3, JoinSteps
      <3>5. ControlOK'
        BY <1>0, <1>1, <2>2, <3>4, ThenOK
      <3> QED
        BY <2>2, <3>1, <3>5, DowngradeType DEF TypeInv
    <2> QED
      BY <1>4, <2>1, <2>2 DEF RollbackBase
  <1>5. CASE RollbackExtension
    <2>1. On \in Product
      BY <1>5, AtStep DEF RollbackExtension, OnOne
    <2>2. ControlOK'
      BY <1>0, <1>1, <1>3, <1>5, <2>1, ThenOK DEF RollbackExtension
    <2> QED
      BY <1>5, <2>1, <2>2, DowngradeType DEF TypeInv, RollbackExtension
  <1>6. CASE syncProducts
    <2>1. ControlOK'
      BY <1>0, <1>1, <1>2, <1>6, ThenOK DEF syncProducts
    <2>2. act' \subseteq Product /\ UNCHANGED <<local, saved, notes, bounds>>
      BY <1>0, <1>6 DEF syncProducts, Synchronized, DataOK
    <2> QED
      BY <1>0, <2>1, <2>2, Untouched DEF TypeInv, DataOK
  <1>7. CASE SetReleaseVersion
    <2>1. ControlOK'
      BY <1>0, <1>7, ThenNothing DEF SetReleaseVersion
    <2>2. UNCHANGED <<server, local, saved, notes, bounds>>
      BY <1>7 DEF SetReleaseVersion
    <2> QED
      BY <1>0, <2>1, <2>2, Untouched DEF TypeInv, DataOK, server
  <1> QED
    BY <1>4, <1>5, <1>6, <1>7

LEMMA ReaddServiceType ==
  ASSUME TypeInv, ReaddService
  PROVE  TypeInv'
  <1>1. /\ todo # <<>> /\ Head(todo).op \notin Final /\ ControlOK /\ DataOK /\ On \in Product
    BY AtStep DEF ReaddService, TypeInv, OnOne, Final
  <1>2. ControlOK'
    BY <1>1, ThenNothing DEF ReaddService
  <1>3. BoundsOK'
    BY <1>1, FaultyOK, Untouched DEF ReaddService, DataOK
  <1>4. services' \subseteq Product \cup Foreign /\ unadded' \subseteq Product
    BY <1>1 DEF ReaddService, DataOK, LocalOK, NotesOK
  <1>5. UNCHANGED <<server, packages, broken, listed, repos, saved, products, missing, path,
                   known, migrated, backedUp, upgraded>>
    BY DEF ReaddService
  <1>6. LocalOK' /\ NotesOK'
    BY <1>1, <1>4, <1>5 DEF DataOK, LocalOK, NotesOK
  <1> QED
    BY <1>1, <1>2, <1>3, <1>5, <1>6, Untouched DEF TypeInv, DataOK, server

\* The end of a command, and what happens around it.
LEMMA EndType ==
  ASSUME TypeInv, Finish \/ Fail \/ Kill
  PROVE  TypeInv'
  <1>0. DataOK /\ ControlOK
    BY DEF TypeInv
  <1>1. CASE Finish
    <2>1. result = "running" /\ todo = <<>>
      BY <1>1 DEF Finish
    <2>2. phase # "apply"
      BY <1>0, <2>1 DEF ControlOK, TodoOK, EndsInFinal, EndsIn
    <2>3. interrupted = "apply" => cmd = "migration" /\ phase = "undo"
      BY <1>0, <2>2 DEF ControlOK, SignalOK, CommandOK
    <2> DEFINE r == IF phase = "undo" /\ cmd = "migration" THEN "rolledBack" ELSE "ok"
    <2>4. r \in Results \ {"running"} /\ (r = "ok" => interrupted # "apply")
      BY <2>3 DEF Results
    <2>5. Exit(r) /\ UNCHANGED <<server, local, saved, notes, bounds>>
      BY <1>1 DEF Finish
    <2> HIDE DEF r
    <2> QED
      BY <1>0, <2>1, <2>4, <2>5, ExitOK, Untouched DEF TypeInv, DataOK, server
  <1>2. CASE Fail
    BY <1>0, <1>2, ErrorOK, FaultyOK, Untouched DEF Fail, TypeInv, DataOK, server
  <1>3. CASE Kill
    <2>1. ControlOK'
      BY <1>0, <1>3, ExitOK DEF Kill, Results
    <2>2. BoundsOK'
      BY <1>0, <1>3, OptionsAssumption DEF Kill, DataOK, BoundsOK
    <2> QED
      BY <1>0, <1>3, <2>1, <2>2, Untouched DEF Kill, TypeInv, DataOK, server
  <1> QED
    BY <1>1, <1>2, <1>3

LEMMA AroundType ==
  ASSUME TypeInv, Signal \/ Publish \/ BootSnapshot
  PROVE  TypeInv'
  <1>0. DataOK /\ ControlOK
    BY DEF TypeInv
  <1>1. CASE Signal
    <2>1. DataOK'
      BY <1>0, <1>1, Untouched DEF Signal, DataOK, server
    <2>2. /\ result = "running" /\ interrupted = "no" /\ cmd = "migration" /\ phase # "check"
          /\ interrupted' = phase
          /\ UNCHANGED <<todo, cmd, flags, environ, phase, result, runs>>
      BY <1>1 DEF Signal
    <2>3. CommandOK' /\ SignalOK'
      BY <1>0, <2>2 DEF ControlOK, CommandOK, SignalOK, InterruptStops
    <2>4. TodoOK'
      BY <1>0, <2>2 DEF ControlOK, TodoOK, EndsInFinal, Allowed, Steps
    <2> QED
      BY <2>1, <2>3, <2>4 DEF TypeInv, ControlOK
  <1>2. CASE Publish
    <2>1. UNCHANGED <<server, local, saved, command, notes, todo, faults>>
      BY <1>2 DEF Publish
    <2>2. BoundsOK'
      BY <1>0, <1>2, <2>1, OptionsAssumption DEF Publish, DataOK, BoundsOK
    <2>3. CommandOK' /\ SignalOK'
      BY <1>0, <2>1 DEF ControlOK, CommandOK, SignalOK, InterruptStops, command
    <2>4. TodoOK'
      BY <1>0, <2>1 DEF ControlOK, TodoOK, EndsInFinal, Allowed, Steps, command
    <2> QED
      BY <1>0, <2>1, <2>2, <2>3, <2>4, Untouched DEF TypeInv, ControlOK, DataOK, server
  <1>3. CASE BootSnapshot
    <2>1. snapshot \in FilesType
      BY <1>0, <1>3 DEF BootSnapshot, DataOK, SavedOK
    <2>2. LocalOK'
      BY <1>3, <2>1 DEF BootSnapshot, FilesType, LocalOK
    <2>3. SavedOK'
      BY <1>0, <1>3 DEF BootSnapshot, DataOK, SavedOK, FilesType
    <2>4. /\ UNCHANGED <<server, bounds, todo, cmd, flags, environ, phase, interrupted, runs>>
          /\ result' = "none" /\ result # "running"
          /\ upgraded' = FALSE
          /\ UNCHANGED <<products, missing, path, known, migrated, backedUp, unadded>>
      BY <1>3 DEF BootSnapshot
    <2>5. NotesOK'
      BY <1>0, <2>4 DEF DataOK, NotesOK
    <2>6. CommandOK' /\ SignalOK'
      BY <1>0, <2>4 DEF ControlOK, CommandOK, SignalOK, InterruptStops, Results
    <2>7. TodoOK'
      BY <1>0, <2>4 DEF ControlOK, TodoOK, EndsInFinal, Allowed, Steps
    <2> QED
      BY <1>0, <2>2, <2>3, <2>4, <2>5, <2>6, <2>7, Untouched DEF TypeInv, ControlOK, DataOK, server
  <1> QED
    BY <1>1, <1>2, <1>3

LEMMA StutterType ==
  ASSUME TypeInv, UNCHANGED vars
  PROVE  TypeInv'
  <1>1. UNCHANGED <<server, local, saved, command, notes, bounds, todo>>
    BY DEF vars
  <1>2. CommandOK' /\ SignalOK'
    BY <1>1 DEF TypeInv, ControlOK, CommandOK, SignalOK, InterruptStops, command
  <1>3. TodoOK'
    BY <1>1 DEF TypeInv, ControlOK, TodoOK, EndsInFinal, Allowed, Steps, command
  <1> QED
    BY <1>1, <1>2, <1>3, Untouched DEF TypeInv, ControlOK, DataOK, server

LEMMA NextType ==
  ASSUME TypeInv, [Next]_vars
  PROVE  TypeInv'
  <1>1. ASSUME Step PROVE TypeInv'
    BY <1>1, LookupType, checkSystemProductsType, InstallReleasePackageType, SelectType,
       ApplyType, BackupType, UpgradeProductType, dropUnmigratedType, upgradePackagesType,
       RestoreType, RollbackType, ReaddServiceType, EndType DEF Step
  <1>2. ASSUME NEW f \in FlagSets, Start("migration", f) PROVE TypeInv'
    BY <1>2, OptionsAssumption, StartType
  <1>3. ASSUME Start("rollback", {}) PROVE TypeInv'
    BY <1>3, StartType
  <1> QED
    BY <1>1, <1>2, <1>3, EndType, AroundType, StutterType DEF Next

-----------------------------------------------------------------------------
\* Every variable of the migration keeps its type, and what is to do is always made of
\* the steps of the phase (main, applyMigration, Rollback).
THEOREM TypeCorrect == Spec => []TypeOK
  <1>1. Spec => []TypeInv
    BY InitType, NextType, PTL DEF Spec
  <1> QED
    BY <1>1, TypeInvImplies, PTL

\* A signal that comes while the migration is applied keeps it from succeeding: no
\* step between the backup and the dist-upgrade is the last one, and the dist-upgrade
\* looks at the flag.
THEOREM SignalStops == Spec => []InterruptStops
  <1>1. Spec => []TypeInv
    BY InitType, NextType, PTL DEF Spec
  <1> QED
    BY <1>1, TypeInvImplies, PTL

-----------------------------------------------------------------------------
(* The promise of Upgrade.                                                  *)
PathOK ==
    /\ phase = "check" \/ cmd = "rollback" => path = <<>>
    /\ phase \in {"apply", "last"} => path # <<>>
    /\ \A p, q \in InPath : p # q => p.name # q.name /\ <<p.name, q.name>> \notin Renamed
UpgradedOK ==
    result = "running" => ~(upgraded /\ broken) /\ (phase \in {"check", "apply"} => ~upgraded)
\* Each product of the path is activated, is to be, or will be when the backup is made.
Upgrading(p) == [op |-> "upgrade", on |-> p]
BackingUp    == [op |-> "backup", on |-> None]
ComesOK ==
    /\ phase = "last" => InPath \subseteq act
    /\ phase = "apply" =>
         /\ \A s \in ToSet(todo) : s.op = "upgrade" => s.on \in InPath
         /\ result = "running" =>
              \A p \in InPath : p \in act \/ Upgrading(p) \in ToSet(todo) \/ BackingUp \in ToSet(todo)
PathInv == PathOK /\ UpgradedOK /\ ComesOK

\* What a step is for Upgrade.
Promise == [Abstract!Next]_(Abstract!uvars)

LEMMA PromiseQuiet ==
  ASSUME UNCHANGED <<path, act, result, upgraded>>, broken' = broken \/ ~upgraded
  PROVE  Promise
  BY DEF Promise, Abstract!uvars, InPath

LEMMA PromiseMoves ==
  ASSUME TypeInv, UNCHANGED <<path, result, upgraded, broken>>, result = "running",
         ~(upgraded /\ broken)
  PROVE  Promise
  <1>1. CASE path = <<>>
    BY <1>1 DEF Promise, Abstract!uvars
  <1>2. CASE path # <<>> /\ (InPath \subseteq act <=> (InPath \subseteq act)')
    BY <1>2 DEF Promise, Abstract!uvars, InPath
  <1>3. CASE path # <<>> /\ ~(InPath \subseteq act <=> (InPath \subseteq act)')
    BY <1>3 DEF Promise, Abstract!Next, Abstract!Register, InPath
  <1> QED
    BY <1>1, <1>2, <1>3

LEMMA PromiseEnds ==
  ASSUME UNCHANGED <<path, act, upgraded, broken>>, result = "running",
         result' \in {"ok", "failed", "rolledBack", "abandoned", "killed"},
         result' = "ok" => path = <<>> \/ InPath \subseteq act
  PROVE  Promise
  BY DEF Promise, Abstract!Next, Abstract!End, InPath

LEMMA NotApplyPath ==
  ASSUME PathInv, phase \in {"check", "undo", "last"},
         UNCHANGED <<phase, cmd, result, path, upgraded, broken>>, phase = "last" => act' = act
  PROVE  PathInv'
  BY DEF PathInv, PathOK, UpgradedOK, ComesOK, InPath

LEMMA ThenPath ==
  ASSUME TypeInv, PathInv, todo # <<>>, phase = "apply",
         NEW steps \in Seq(Steps(Allowed)), Then(steps), UNCHANGED <<act, path, upgraded, broken>>,
         Head(todo).op \notin {"upgrade", "backup"}, \A s \in ToSet(steps) : s.op # "upgrade"
  PROVE  PathInv'
  <1>1. /\ ToSet(todo) = {Head(todo)} \cup ToSet(Tail(todo)) /\ Tail(todo) \in Seq(Steps(Allowed))
        /\ result = "running"
    BY HeadStep DEF TypeInv, ControlOK
  <1>2. todo' = steps \o Tail(todo) /\ UNCHANGED <<cmd, phase, result>>
    BY DEF Then, command
  <1>3. ToSet(todo') = ToSet(steps) \cup ToSet(Tail(todo))
    BY <1>1, <1>2, ToSetOfJoin
  <1>4. PathOK' /\ UpgradedOK'
    BY <1>2 DEF PathInv, PathOK, UpgradedOK, InPath
  <1>5. \A p : Head(todo) # Upgrading(p) /\ Head(todo) # BackingUp
    BY DEF Upgrading, BackingUp
  <1>6. ASSUME NEW p \in InPath
        PROVE  p \in act \/ Upgrading(p) \in ToSet(todo') \/ BackingUp \in ToSet(todo')
    BY <1>1, <1>3, <1>5 DEF PathInv, ComesOK
  <1>7. \A s \in ToSet(todo') : s.op = "upgrade" => s.on \in InPath
    BY <1>1, <1>3 DEF PathInv, ComesOK
  <1>8. ComesOK'
    BY <1>2, <1>6, <1>7 DEF ComesOK, InPath, Upgrading, BackingUp, ToSet
  <1> QED
    BY <1>4, <1>8 DEF PathInv

LEMMA ExitPath ==
  ASSUME PathInv, NEW r \in Results \ {"running"}, Exit(r), UNCHANGED <<path, act>>
  PROVE  PathInv'
  <1>1. /\ todo' = <<>> /\ result' # "running" /\ UNCHANGED <<cmd, phase>>
    BY DEF Exit
  <1>2. PathOK' /\ UpgradedOK'
    BY <1>1 DEF PathInv, PathOK, UpgradedOK, InPath
  <1>3. ToSet(todo') = {}
    BY <1>1, ToSetOfOne
  <1>4. ComesOK'
    BY <1>1, <1>3 DEF PathInv, ComesOK, InPath, ToSet
  <1> QED
    BY <1>2, <1>4 DEF PathInv

LEMMA ErrorPath ==
  ASSUME PathInv, Error, UNCHANGED <<path, act>>, ~(upgraded' /\ broken')
  PROVE  PathInv'
  <1>1. CASE phase = "apply"
    BY <1>1 DEF Error, PathInv, PathOK, UpgradedOK, ComesOK, InPath
  <1>2. CASE phase # "apply"
    BY <1>2, ExitPath DEF Error, Results
  <1> QED
    BY <1>1, <1>2

LEMMA InitPath ==
  Init => PathInv /\ Abstract!Init
  BY DEF Init, PathInv, PathOK, UpgradedOK, ComesOK, InPath, Abstract!Init

LEMMA StartPath ==
  ASSUME TypeInv, NEW c \in {"migration", "rollback"}, NEW f, Start(c, f)
  PROVE  PathInv' /\ Promise
  <1>1. /\ path' = <<>> /\ upgraded' = FALSE /\ result' = "running" /\ result # "running"
        /\ phase' \in {"check", "undo"}
    BY DEF Start, Fresh
  <1>2. PathInv'
    BY <1>1 DEF PathInv, PathOK, UpgradedOK, ComesOK, InPath
  <1>3. Promise
    BY <1>1 DEF Promise, Abstract!Next, Abstract!Begin
  <1> QED
    BY <1>2, <1>3

LEMMA LookupPath ==
  ASSUME TypeInv, PathInv,
         PatchCheck \/ Patch \/ PatchRecheck \/ RefreshRepos \/ checkSystemProducts
         \/ InstallReleasePackage \/ releasePackagesChecked \/ rereadProducts
  PROVE  PathInv' /\ Promise
  <1>1. /\ UNCHANGED <<act, path, upgraded, broken>> /\ result = "running" /\ todo # <<>>
        /\ phase \in {"check", "last"} \/ RefreshRepos
    BY AtStep, Phases DEF PatchCheck, Patch, PatchRecheck, RefreshRepos, checkSystemProducts,
       InstallReleasePackage, releasePackagesChecked, rereadProducts, server, local, notes
  <1>2. CASE Exit("failed")
    <2>1. PathInv'
      BY <1>1, <1>2, ExitPath DEF Results
    <2>2. Promise
      BY <1>1, <1>2, PromiseEnds DEF Exit
    <2> QED
      BY <2>1, <2>2
  <1>3. CASE UNCHANGED <<cmd, phase, result>> /\ phase \in {"check", "last"}
    BY <1>1, <1>3, NotApplyPath, PromiseQuiet
  <1>4. CASE RefreshRepos
    <2>1. Then(<<>>) /\ At("refresh") /\ UNCHANGED <<cmd, phase, result>>
      BY <1>4 DEF RefreshRepos, Then, command
    <2>2. CASE phase = "apply"
      <3>1. \A s \in ToSet(<<>>) : s.op # "upgrade"
        BY ToSetOfOne
      <3>2. PathInv'
        BY <1>1, <2>1, <2>2, <3>1, NoSteps, ThenPath DEF At
      <3> QED
        BY <1>1, <2>1, <3>2, PromiseQuiet
    <2>3. CASE phase # "apply"
      <3>1. phase \in {"check", "undo", "last"}
        BY <2>1, <2>3, AtStep
      <3> QED
        BY <1>1, <2>1, <3>1, NotApplyPath, PromiseQuiet
    <2> QED
      BY <2>2, <2>3
  <1>5. RefreshRepos \/ Exit("failed") \/ UNCHANGED <<cmd, phase, result>>
    BY DEF PatchCheck, Patch, PatchRecheck, checkSystemProducts, InstallReleasePackage,
       releasePackagesChecked, rereadProducts, Then, command
  <1> QED
    BY <1>1, <1>2, <1>3, <1>4, <1>5

LEMMA SelectPath ==
  ASSUME TypeInv, PathInv, selectMigration
  PROVE  PathInv' /\ Promise
  <1>1. /\ phase = "check" /\ result = "running" /\ path = <<>> /\ ~upgraded /\ cmd = "migration"
        /\ UNCHANGED <<act, upgraded, broken>>
    BY AtStep, Phases DEF selectMigration, server, local, PathInv, PathOK, UpgradedOK,
       ControlOK, SignalOK
  <1>2. \/ UNCHANGED path /\ \E r \in {"failed", "ok"} : Exit(r)
        \/ \E i \in DOMAIN Paths : Select(i)
    BY DEF selectMigration, migrations, AllOffered
  <1>3. ASSUME UNCHANGED path, NEW r \in {"failed", "ok"}, Exit(r)
        PROVE  PathInv' /\ Promise
    <2>1. PathInv'
      BY <1>1, <1>3, ExitPath DEF Results
    <2>2. Promise
      BY <1>1, <1>3, PromiseEnds DEF Exit
    <2> QED
      BY <2>1, <2>2
  <1>4. ASSUME NEW i \in DOMAIN Paths, Select(i)
        PROVE  PathInv' /\ Promise
    <2>1. Paths[i] \in [from : SUBSET Product, to : Seq(Product)]
      BY ProductsAssumption, ElementIn
    <2>2. path' \in Seq(Product) /\ {path'[j] : j \in DOMAIN path'} = ToSet(Paths[i].to)
      BY <1>4, <2>1, SortOK DEF Select
    <2>3. (InPath)' = ToSet(Paths[i].to)
      BY <2>2 DEF InPath
    <2>4. /\ ToSet(Paths[i].to) # {}
          /\ \A p, q \in ToSet(Paths[i].to) : p # q => p.name # q.name /\ <<p.name, q.name>> \notin Renamed
      BY ListsAssumption DEF Apart
    <2>5. path' # <<>>
      BY <2>3, <2>4 DEF InPath
    <2>6. phase' = "apply" /\ todo' = Chosen /\ cmd' = cmd /\ result' = result
      BY <1>4 DEF Select
    <2>7. PathOK' /\ UpgradedOK'
      <3>1. PathOK'
        BY <1>1, <2>3, <2>4, <2>5, <2>6 DEF PathOK
      <3> QED
        BY <1>1, <2>6, <3>1 DEF UpgradedOK
    <2>8. BackingUp \in ToSet(todo') /\ \A s \in ToSet(todo') : s.op # "upgrade"
      BY <2>6, ChosenOK DEF BackingUp
    <2>9. ComesOK'
      BY <2>6, <2>8 DEF ComesOK, ToSet, BackingUp
    <2>10. Promise
      BY <1>1, <2>5, <2>6 DEF Promise, Abstract!Next, Abstract!Choose
    <2> QED
      BY <2>7, <2>9, <2>10 DEF PathInv
  <1> QED
    BY <1>2, <1>3, <1>4

LEMMA ApplyPath ==
  ASSUME TypeInv, PathInv,
         CreatePreSnapshot \/ checkInterrupted \/ disableAllRepos \/ InstalledServices
         \/ cleanupProductRepos \/ MigrationAddService \/ dropUnmigrated
  PROVE  PathInv' /\ Promise
  <1>1. /\ phase = "apply" /\ todo # <<>> /\ result = "running"
        /\ Head(todo).op \notin {"upgrade", "backup"}
        /\ UNCHANGED <<act, path, upgraded, broken>>
    BY AtStep, Phases DEF CreatePreSnapshot, checkInterrupted, disableAllRepos, InstalledServices,
       cleanupProductRepos, MigrationAddService, dropUnmigrated, server, local, notes
  <1>2. ~(upgraded /\ broken)
    BY <1>1 DEF PathInv, UpgradedOK
  <1>3. CASE Error
    <2>1. PathInv'
      BY <1>1, <1>2, <1>3, ErrorPath
    <2>2. Promise
      BY <1>1, <1>3, PromiseQuiet DEF Error
    <2> QED
      BY <2>1, <2>2
  <1>4. CASE Exit("abandoned")
    <2>1. PathInv'
      BY <1>1, <1>4, ExitPath DEF Results
    <2>2. Promise
      BY <1>1, <1>4, PromiseEnds DEF Exit
    <2> QED
      BY <2>1, <2>2
  <1>5. ASSUME NEW steps \in Seq(Steps(Allowed)), \A s \in ToSet(steps) : s.op # "upgrade", Then(steps)
        PROVE  PathInv' /\ Promise
    <2>1. result' = result
      BY <1>5 DEF Then, command
    <2> QED
      BY <1>1, <1>5, <2>1, ThenPath, PromiseQuiet
  <1>6. CASE Then(<<>>)
    <2>1. \A s \in ToSet(<<>>) : s.op # "upgrade"
      BY ToSetOfOne
    <2> QED
      BY <1>5, <1>6, <2>1, NoSteps
  <1>7. CASE dropUnmigrated
    <2>1. /\ OfSet("remove", Unmigrated) \in Seq(Steps(Inner))
          /\ ToSet(OfSet("remove", Unmigrated)) = {[op |-> "remove", on |-> p] : p \in Unmigrated}
      BY InnerOps, OfSetOK DEF Unmigrated
    <2>2. OfSet("remove", Unmigrated) \in Seq(Steps(Allowed))
      BY <1>1, <2>1, InnerOps, MoreSteps DEF Allowed
    <2> QED
      BY <1>5, <1>7, <2>1, <2>2 DEF dropUnmigrated
  <1> QED
    BY <1>3, <1>4, <1>6, <1>7 DEF CreatePreSnapshot, checkInterrupted, disableAllRepos,
       InstalledServices, cleanupProductRepos, MigrationAddService

LEMMA RemovePath ==
  ASSUME TypeInv, PathInv, MigrationRemoveService
  PROVE  PathInv' /\ Promise
  <1>1. /\ todo # <<>> /\ result = "running" /\ Head(todo).op \notin {"upgrade", "backup"}
        /\ UNCHANGED <<act, path, upgraded, broken>> /\ Then(<<>>)
        /\ phase \in {"check", "apply", "undo", "last"}
    BY AtStep DEF MigrationRemoveService, server, notes
  <1>2. UNCHANGED <<cmd, phase, result>>
    BY <1>1 DEF Then, command
  <1>3. \A s \in ToSet(<<>>) : s.op # "upgrade"
    BY ToSetOfOne
  <1>4. PathInv'
    BY <1>1, <1>2, <1>3, NoSteps, ThenPath, NotApplyPath
  <1> QED
    BY <1>1, <1>2, <1>4, PromiseQuiet

LEMMA BackupPath ==
  ASSUME TypeInv, PathInv, Backup
  PROVE  PathInv' /\ Promise
  <1>1. /\ phase = "apply" /\ todo # <<>> /\ result = "running" /\ Head(todo).op = "backup"
        /\ path \in Seq(Product) /\ TodoOK
        /\ UNCHANGED <<act, path, upgraded, broken>> /\ Then(applyMigration(path))
    BY AtStep, Phases DEF Backup, server, local, TypeInv, DataOK, NotesOK, ControlOK
  <1>2. /\ todo' = applyMigration(path) \o Tail(todo) /\ UNCHANGED <<cmd, phase, result>>
    BY <1>1 DEF Then, command
  <1>3. Tail(todo) = <<>>
    BY <1>1, FinalAlone DEF TodoOK, Final, EndsInFinal
  <1>4. applyMigration(path) \in Seq(Steps(ApplyOps))
    BY <1>1, applyMigrationOK
  <1>5. todo' = applyMigration(path)
    <2>1. applyMigration(path) \o <<>> = applyMigration(path)
      BY <1>4
    <2> QED
      BY <1>2, <1>3, <2>1
  <1>6. InPath = ToSet(path)
    BY DEF InPath, ToSet
  <1>7. /\ \A p \in InPath : Upgrading(p) \in ToSet(todo')
        /\ \A s \in ToSet(todo') : s.op = "upgrade" => s.on \in InPath
    BY <1>1, <1>5, <1>6, applyMigrationOK DEF Upgrading
  <1>8. ComesOK'
    BY <1>1, <1>2, <1>7 DEF ComesOK, InPath, ToSet, Upgrading
  <1>9. PathOK'
    <2>1. UNCHANGED <<path, cmd, phase>>
      BY <1>1, <1>2
    <2> QED
      BY <2>1 DEF PathInv, PathOK, InPath
  <1>10. UpgradedOK'
    BY <1>1, <1>2 DEF PathInv, UpgradedOK
  <1> QED
    BY <1>1, <1>2, <1>8, <1>9, <1>10, PromiseQuiet DEF PathInv

LEMMA UpgradePath ==
  ASSUME TypeInv, PathInv, UpgradeProduct
  PROVE  PathInv' /\ Promise
  <1>1. /\ phase = "apply" /\ todo # <<>> /\ result = "running" /\ Head(todo).op = "upgrade"
        /\ act \subseteq Product /\ TodoOK
        /\ UNCHANGED <<path, upgraded, broken>> /\ Then(OfSet("remove", Obsolete(On)))
        /\ act' = (act \ Obsolete(On)) \cup {On}
    BY AtStep, Phases DEF UpgradeProduct, local, TypeInv, DataOK, ControlOK
  <1> DEFINE steps == OfSet("remove", Obsolete(On))
  <1>2. todo' = steps \o Tail(todo) /\ UNCHANGED <<cmd, phase, result>>
    BY <1>1 DEF Then, command
  <1>3. Obsolete(On) \in SUBSET Product
    BY <1>1 DEF Obsolete
  <1>4. steps \in Seq(Steps(Inner)) /\ ToSet(steps) = {[op |-> "remove", on |-> p] : p \in Obsolete(On)}
    BY <1>3, InnerOps, OfSetOK
  <1> HIDE DEF steps
  <1>5. steps \in Seq(Steps(Allowed)) /\ \A s \in ToSet(steps) : s.op # "upgrade"
    BY <1>1, <1>4, InnerOps, MoreSteps DEF Allowed
  <1>6. /\ ToSet(todo) = {Head(todo)} \cup ToSet(Tail(todo)) /\ Tail(todo) \in Seq(Steps(Allowed))
    BY <1>1, HeadStep
  <1>7. ToSet(todo') = ToSet(steps) \cup ToSet(Tail(todo))
    BY <1>2, <1>5, <1>6, ToSetOfJoin
  <1>8. On \in InPath
    BY <1>1, <1>6 DEF PathInv, ComesOK, On
  <1>9. ASSUME NEW p \in InPath
        PROVE  p \in act' \/ Upgrading(p) \in ToSet(todo') \/ BackingUp \in ToSet(todo')
    <2>1. CASE p = On
      BY <1>1, <2>1
    <2>2. CASE p # On
      <3>1. p \notin Obsolete(On)
        BY <1>8, <2>2 DEF PathInv, PathOK, Obsolete
      <3>2. Head(todo) # Upgrading(p) /\ Head(todo) # BackingUp
        BY <1>1, <2>2 DEF Upgrading, BackingUp, On
      <3> QED
        BY <1>1, <1>6, <1>7, <3>1, <3>2 DEF PathInv, ComesOK
    <2> QED
      BY <2>1, <2>2
  <1>10. \A s \in ToSet(todo') : s.op = "upgrade" => s.on \in InPath
    BY <1>1, <1>5, <1>6, <1>7 DEF PathInv, ComesOK
  <1>11. ComesOK'
    BY <1>1, <1>2, <1>9, <1>10 DEF ComesOK, InPath, ToSet, Upgrading, BackingUp
  <1>12. PathOK'
    <2>1. UNCHANGED <<path, cmd, phase>>
      BY <1>1, <1>2
    <2> QED
      BY <2>1 DEF PathInv, PathOK, InPath
  <1>13. ~(upgraded /\ broken) /\ UpgradedOK'
    BY <1>1, <1>2 DEF PathInv, UpgradedOK
  <1> QED
    BY <1>1, <1>2, <1>11, <1>12, <1>13, PromiseMoves DEF PathInv

\* The dist-upgrade is the last step: by then each product of the path is activated.
LEMMA upgradePackagesPath ==
  ASSUME TypeInv, PathInv, upgradePackages
  PROVE  PathInv' /\ Promise
  <1>1. /\ phase = "apply" /\ todo # <<>> /\ result = "running" /\ Head(todo).op = "dist-upgrade"
        /\ TodoOK /\ UNCHANGED <<act, path>>
    BY AtStep, Phases DEF upgradePackages, server, TypeInv, ControlOK
  <1>2. PICK code \in {"ok", "info", "commit", "error"} :
            /\ DistUpgrade(code)
            /\ IF code = "commit" THEN Exit("inconsistent")
               ELSE IF Stops(code) THEN Error
               ELSE /\ phase' = "last" /\ todo' = Just("check")
                    /\ UNCHANGED <<cmd, flags, environ, result, interrupted, runs, start>>
    BY DEF upgradePackages
  <1>3. Tail(todo) = <<>>
    BY <1>1, FinalAlone DEF TodoOK, Final, EndsInFinal
  <1>4. ToSet(todo) = {Head(todo)}
    BY <1>1, <1>3, HeadStep, ToSetOfOne
  <1>5. InPath \subseteq act
    <2>1. \A p : Head(todo) # Upgrading(p) /\ Head(todo) # BackingUp
      BY <1>1 DEF Upgrading, BackingUp
    <2> QED
      BY <1>1, <1>4, <2>1 DEF PathInv, ComesOK
  <1>6. ~upgraded /\ path # <<>> /\ cmd # "rollback"
    BY <1>1 DEF PathInv, UpgradedOK, PathOK
  <1>7. /\ upgraded' = Ends(code) /\ broken' = (code = "commit" \/ (broken /\ code = "error"))
    BY <1>2 DEF DistUpgrade
  <1>8. Ends("commit") /\ ~Ends("error") /\ Ends(code) \in BOOLEAN
    BY <1>2 DEF Ends, Has
  <1>9. (InPath)' = InPath
    BY <1>1 DEF InPath
  <1>10. CASE code = "commit"
    <2>1. Exit("inconsistent")
      BY <1>2, <1>10
    <2>2. PathInv'
      BY <1>1, <2>1, ExitPath DEF Results
    <2>3. upgraded' /\ broken' /\ result' = "inconsistent"
      BY <1>7, <1>8, <1>10, <2>1 DEF Exit
    <2>4. Promise
      BY <1>1, <1>5, <1>6, <1>9, <2>3 DEF Promise, Abstract!Next, Abstract!Break
    <2> QED
      BY <2>2, <2>4
  <1>11. CASE code # "commit"
    <2>1. ~(upgraded' /\ broken')
      BY <1>7, <1>8, <1>11
    <2>2. result' = result
      BY <1>1, <1>2, <1>11 DEF Error
    <2>3. ASSUME ~Ends(code) PROVE Promise
      <3>1. upgraded \in BOOLEAN
        BY DEF TypeInv, DataOK, NotesOK
      <3>2. upgraded = FALSE /\ Ends(code) = FALSE
        BY <1>6, <1>8, <2>3, <3>1
      <3> QED
        BY <1>1, <1>7, <2>2, <3>2, PromiseQuiet
    <2>4. ASSUME Ends(code) PROVE Promise
      <3>1. upgraded' /\ ~broken'
        BY <1>7, <2>1, <2>4
      <3> QED
        BY <1>1, <1>5, <1>6, <1>9, <2>2, <3>1 DEF Promise, Abstract!Next, Abstract!Commit
    <2>5. CASE Stops(code)
      BY <1>1, <1>2, <1>11, <2>1, <2>3, <2>4, <2>5, ErrorPath
    <2>6. CASE ~Stops(code)
      <3>1. phase' = "last" /\ UNCHANGED <<cmd, result>>
        BY <1>2, <1>11, <2>6
      <3>2. PathOK' /\ UpgradedOK' /\ ComesOK'
        <4>1. PathOK'
          BY <1>1, <1>6, <1>9, <3>1 DEF PathInv, PathOK
        <4>2. UpgradedOK'
          BY <2>1, <3>1 DEF UpgradedOK
        <4>3. ComesOK'
          BY <1>1, <1>5, <1>9, <3>1 DEF ComesOK
        <4> QED
          BY <4>1, <4>2, <4>3
      <3> QED
        BY <2>3, <2>4, <3>2 DEF PathInv
    <2> QED
      BY <2>5, <2>6
  <1> QED
    BY <1>10, <1>11

LEMMA RollbackPath ==
  ASSUME TypeInv, PathInv,
         Restore \/ RollbackBase \/ RollbackExtension \/ ReaddService
         \/ syncProducts \/ SetReleaseVersion
  PROVE  PathInv' /\ Promise
  <1>1. /\ phase \in {"check", "undo"} /\ todo # <<>> /\ result = "running"
        /\ UNCHANGED <<path, upgraded, broken>>
    BY AtStep, Phases DEF Restore, RollbackBase, RollbackExtension, ReaddService, syncProducts,
       SetReleaseVersion, Downgrade, local, notes
  <1>2. ~(upgraded /\ broken)
    BY <1>1 DEF PathInv, UpgradedOK
  <1>3. \/ Exit("failed") /\ UNCHANGED act
        \/ UNCHANGED <<cmd, phase, result>>
    BY <1>1 DEF Restore, RollbackBase, RollbackExtension, ReaddService, syncProducts,
       SetReleaseVersion, Error, Then, command, server
  <1>4. CASE Exit("failed") /\ UNCHANGED act
    <2>1. PathInv'
      BY <1>1, <1>4, ExitPath DEF Results
    <2>2. Promise
      BY <1>1, <1>4, PromiseEnds DEF Exit
    <2> QED
      BY <2>1, <2>2
  <1>5. CASE UNCHANGED <<cmd, phase, result>>
    BY <1>1, <1>2, <1>5, NotApplyPath, PromiseMoves
  <1> QED
    BY <1>3, <1>4, <1>5

LEMMA EndPath ==
  ASSUME TypeInv, PathInv, Finish \/ Fail \/ Kill
  PROVE  PathInv' /\ Promise
  <1>1. /\ result = "running" /\ UNCHANGED <<act, path, upgraded, broken>>
        /\ phase \in {"check", "apply", "undo", "last"} /\ cmd \in {"migration", "rollback"}
    BY DEF Finish, Fail, Kill, server, local, notes, TypeInv, ControlOK, TodoOK, CommandOK
  <1>2. CASE Finish
    <2>1. phase # "apply"
      BY <1>1, <1>2 DEF Finish, TypeInv, ControlOK, TodoOK, EndsInFinal, EndsIn
    <2> DEFINE r == IF phase = "undo" /\ cmd = "migration" THEN "rolledBack" ELSE "ok"
    <2>2. r \in Results \ {"running"} /\ r \in {"ok", "rolledBack"} /\ Exit(r)
      BY <1>2 DEF Finish, Results
    <2>3. r = "ok" => path = <<>> \/ InPath \subseteq act
      BY <1>1, <2>1 DEF PathInv, PathOK, ComesOK
    <2> HIDE DEF r
    <2>4. PathInv'
      BY <1>1, <2>2, ExitPath
    <2>5. Promise
      BY <1>1, <2>2, <2>3, PromiseEnds DEF Exit
    <2> QED
      BY <2>4, <2>5
  <1>3. CASE Fail
    <2>1. ~(upgraded' /\ broken') /\ Error
      BY <1>1, <1>3 DEF PathInv, UpgradedOK, Fail
    <2>2. PathInv'
      BY <1>1, <2>1, ErrorPath
    <2>3. result' = result \/ result' = "failed"
      BY <2>1 DEF Error, Exit
    <2>4. Promise
      BY <1>1, <2>3, PromiseQuiet, PromiseEnds
    <2> QED
      BY <2>2, <2>4
  <1>4. CASE Kill
    <2>1. PathInv'
      BY <1>1, <1>4, ExitPath DEF Kill, Results
    <2>2. Promise
      BY <1>1, <1>4, PromiseEnds DEF Kill, Exit
    <2> QED
      BY <2>1, <2>2
  <1> QED
    BY <1>2, <1>3, <1>4

LEMMA AroundPath ==
  ASSUME TypeInv, PathInv, Signal \/ Publish \/ BootSnapshot \/ UNCHANGED vars
  PROVE  PathInv' /\ Promise
  <1>1. CASE BootSnapshot
    <2>1. /\ UNCHANGED <<act, path, cmd, phase, todo>> /\ upgraded' = FALSE
          /\ result # "running" /\ result' = "none"
      BY <1>1 DEF BootSnapshot, server
    <2>2. PathInv'
      BY <2>1 DEF PathInv, PathOK, UpgradedOK, ComesOK, InPath, ToSet
    <2>3. Promise
      BY <2>1 DEF Promise, Abstract!Next, Abstract!Boot, InPath
    <2> QED
      BY <2>2, <2>3
  <1>2. CASE Signal \/ Publish \/ UNCHANGED vars
    <2>1. UNCHANGED <<act, path, upgraded, broken, cmd, phase, result, todo>>
      BY <1>2 DEF Signal, Publish, vars, server, local, notes, command
    <2>2. PathInv'
      BY <2>1 DEF PathInv, PathOK, UpgradedOK, ComesOK, InPath, ToSet, Upgrading, BackingUp
    <2> QED
      BY <2>1, <2>2, PromiseQuiet
  <1> QED
    BY <1>1, <1>2

LEMMA NextPath ==
  ASSUME TypeInv, PathInv, [Next]_vars
  PROVE  PathInv' /\ Promise
  <1>1. ASSUME Step PROVE PathInv' /\ Promise
    BY <1>1, LookupPath, SelectPath, ApplyPath, RemovePath, BackupPath, UpgradePath,
       upgradePackagesPath, RollbackPath, EndPath DEF Step
  <1>2. ASSUME NEW f \in FlagSets, Start("migration", f) PROVE PathInv' /\ Promise
    BY <1>2, StartPath
  <1>3. ASSUME Start("rollback", {}) PROVE PathInv' /\ Promise
    BY <1>3, StartPath
  <1> QED
    BY <1>1, <1>2, <1>3, EndPath, AroundPath DEF Next

\* The migration keeps the promise of Upgrade: the packages are upgraded in one step,
\* only while the server has every product of the path; a migration that reports
\* success has them activated, and after an upgrade that stopped half way nothing is
\* touched (applyMigration, main).
THEOREM KeepsPromise == Spec => UpgradePromise
  <1>1. Init => TypeInv /\ PathInv /\ Abstract!Init
    BY InitType, InitPath
  <1>2. TypeInv /\ PathInv /\ [Next]_vars => TypeInv' /\ PathInv' /\ [Abstract!Next]_(Abstract!uvars)
    BY NextType, NextPath DEF Promise
  <1> QED
    BY <1>1, <1>2, PTL DEF Spec, UpgradePromise, Abstract!Spec

-----------------------------------------------------------------------------
(* At most one of the products zypper lists is a base product.              *)
BaseOK ==
    /\ OneBase(listed) /\ OneBase(InPath)
    /\ backup \notin {None, Partial} => OneBase(backup.listed)
    /\ snapshot # None => OneBase(snapshot.listed)

LEMMA OneBaseMore ==
  ASSUME NEW S, OneBase(S), NEW p
  PROVE  OneBase(With(p, S))
  BY DEF OneBase, With

LEMMA OneBaseUpgraded ==
  ASSUME NEW S, OneBase(S), OneBase(InPath)
  PROVE  OneBase(Kept(S) \cup NewPackages)
  <1>1. NewPackages \subseteq InPath
    BY DEF NewPackages, InPath
  <1>2. SUFFICES ASSUME NEW p \in Kept(S) \cup NewPackages, NEW q \in Kept(S) \cup NewPackages,
                        {p.name, q.name} \subseteq BaseNames
                 PROVE  p = q
    BY DEF OneBase
  <1>3. CASE p \in NewPackages /\ q \in NewPackages
    BY <1>1, <1>2, <1>3 DEF OneBase
  <1>4. CASE p \in Kept(S) /\ q \in Kept(S)
    BY <1>2, <1>4 DEF OneBase, Kept
  <1>5. CASE p \in Kept(S) /\ q \in NewPackages
    BY <1>2, <1>5 DEF Kept
  <1>6. CASE p \in NewPackages /\ q \in Kept(S)
    BY <1>2, <1>6 DEF Kept
  <1> QED
    BY <1>3, <1>4, <1>5, <1>6

LEMMA InitBase ==
  Init => BaseOK
  <1> SUFFICES ASSUME Init PROVE BaseOK
    OBVIOUS
  <1>1. listed \in Systems /\ path = <<>> /\ backup = None /\ snapshot = None
    BY DEF Init
  <1>2. InPath = {}
    BY <1>1 DEF InPath
  <1>3. OneBase(listed) /\ OneBase(InPath)
    BY <1>1, <1>2, ListsAssumption DEF OneBase
  <1> QED
    BY <1>1, <1>3 DEF BaseOK

LEMMA NextBase ==
  ASSUME TypeInv, BaseOK, [Next]_vars
  PROVE  BaseOK'
  <1>1. CASE UNCHANGED <<listed, path, backup, snapshot>>
    BY <1>1 DEF BaseOK, InPath, OneBase
  <1>2. ASSUME NEW c, NEW f, Start(c, f) PROVE BaseOK'
    <2>1. UNCHANGED <<listed, backup, snapshot>> /\ path' = <<>>
      BY <1>2 DEF Start, Fresh, local, saved
    <2>2. (InPath)' = {}
      BY <2>1 DEF InPath
    <2>3. OneBase(InPath)'
      BY <2>2 DEF OneBase
    <2> QED
      BY <2>1, <2>3 DEF BaseOK, OneBase
  <1>3. CASE InstallReleasePackage
    <2>1. UNCHANGED <<path, backup, snapshot>> /\ (listed' = listed \/ \E p : listed' = With(p, listed))
      BY <1>3 DEF InstallReleasePackage, saved
    <2>2. OneBase(listed')
      BY <2>1, OneBaseMore DEF BaseOK
    <2> QED
      BY <2>1, <2>2 DEF BaseOK, InPath, OneBase
  <1>4. CASE selectMigration
    <2>1. UNCHANGED <<listed, backup, snapshot>>
      BY <1>4 DEF selectMigration, local, saved
    <2>2. CASE path' = path
      BY <1>1, <2>1, <2>2
    <2>3. ASSUME NEW i \in DOMAIN Paths, Select(i) PROVE OneBase(InPath)'
      <3>1. Paths[i] \in [from : SUBSET Product, to : Seq(Product)]
        BY ProductsAssumption, ElementIn
      <3>2. {path'[j] : j \in DOMAIN path'} = ToSet(Paths[i].to)
        BY <2>3, <3>1, SortOK DEF Select
      <3>3. (InPath)' = ToSet(Paths[i].to)
        BY <3>2 DEF InPath
      <3>4. OneBase(ToSet(Paths[i].to))
        BY ListsAssumption
      <3> QED
        BY <3>3, <3>4 DEF OneBase
    <2>4. CASE OneBase(InPath)'
      BY <2>1, <2>4 DEF BaseOK, OneBase
    <2> QED
      BY <1>4, <2>2, <2>3, <2>4, SelectType
  <1>5. CASE CreatePreSnapshot
    <2>1. UNCHANGED <<listed, path, backup>> /\ (snapshot' = snapshot \/ snapshot'.listed = listed)
      BY <1>5 DEF CreatePreSnapshot, Files, local, notes
    <2> QED
      BY <2>1 DEF BaseOK, InPath, OneBase
  <1>6. CASE Backup
    <2>1. /\ UNCHANGED <<listed, path, snapshot>>
          /\ backup' = backup \/ backup'.listed = listed \/ backup' \in {None, Partial}
      BY <1>6 DEF Backup, Files, local
    <2> QED
      BY <2>1 DEF BaseOK, InPath, OneBase
  <1>7. CASE upgradePackages
    <2>1. /\ UNCHANGED <<path, backup, snapshot>>
          /\ listed' = listed \/ listed' = Kept(listed) \cup NewPackages
      BY <1>7 DEF upgradePackages, DistUpgrade, saved
    <2>2. OneBase(listed')
      BY <2>1, OneBaseUpgraded DEF BaseOK
    <2> QED
      BY <2>1, <2>2 DEF BaseOK, InPath, OneBase
  <1>8. CASE Restore
    <2>1. /\ UNCHANGED <<path, backup, snapshot>>
          /\ listed' = listed \/ listed' = {} \/ (backup \notin {None, Partial} /\ listed' = backup.listed)
      BY <1>8 DEF Restore, saved, notes
    <2>2. OneBase(listed')
      BY <2>1 DEF BaseOK, OneBase
    <2> QED
      BY <2>1, <2>2 DEF BaseOK, InPath, OneBase
  <1>9. CASE BootSnapshot
    <2>1. /\ UNCHANGED <<path, backup>> /\ snapshot # None /\ snapshot' = None
          /\ listed' = snapshot.listed
      BY <1>9 DEF BootSnapshot
    <2>2. OneBase(listed')
      BY <2>1 DEF BaseOK
    <2> QED
      BY <2>1, <2>2 DEF BaseOK, InPath, OneBase
  <1>10. CASE PatchCheck \/ Patch \/ PatchRecheck \/ RefreshRepos \/ checkSystemProducts
              \/ releasePackagesChecked \/ rereadProducts \/ checkInterrupted \/ disableAllRepos
              \/ InstalledServices \/ UpgradeProduct \/ MigrationRemoveService
    <2>1. UNCHANGED <<listed, path, backup, snapshot>>
      BY <1>10 DEF PatchCheck, Patch, PatchRecheck, RefreshRepos, checkSystemProducts,
         releasePackagesChecked, rereadProducts, checkInterrupted, disableAllRepos,
         InstalledServices, UpgradeProduct, MigrationRemoveService, local, saved, notes
    <2> QED
      BY <1>1, <2>1
  <1>11. CASE cleanupProductRepos \/ MigrationAddService \/ dropUnmigrated \/ RollbackBase
              \/ RollbackExtension \/ ReaddService \/ syncProducts \/ SetReleaseVersion
    <2>1. UNCHANGED <<listed, path, backup, snapshot>>
      BY <1>11 DEF cleanupProductRepos, MigrationAddService, dropUnmigrated, RollbackBase,
         RollbackExtension, ReaddService, syncProducts, SetReleaseVersion, Downgrade,
         local, saved, notes
    <2> QED
      BY <1>1, <2>1
  <1>12. CASE Finish \/ Fail \/ Kill \/ Signal \/ Publish \/ UNCHANGED vars
    <2>1. UNCHANGED <<listed, path, backup, snapshot>>
      BY <1>12 DEF Finish, Fail, Kill, Signal, Publish, vars, local, saved, notes
    <2> QED
      BY <1>1, <2>1
  <1> QED
    BY <1>2, <1>3, <1>4, <1>5, <1>6, <1>7, <1>8, <1>9, <1>10, <1>11, <1>12 DEF Next, Step

-----------------------------------------------------------------------------
(* A rollback: what it has done, and what it is still to do.                *)
RollFinal    == {"base", "sync", "releasever"}
Of(op, p)    == [op |-> op, on |-> p]
\* The listed products of the base product's tree.
Extension(b) == ToSet(Tree[b])
Tracked(b)   == listed \cap ({b} \cup Extension(b))
\* A service of T that is to be removed is to be added after that.
Followed(T, t) ==
    \A i \in 1..Len(t) : t[i].op = "remove" /\ t[i].on \in T =>
        \E j \in (i + 1)..Len(t) : t[j] = Of("readd", t[i].on)
\* Once the base product is downgraded, each listed product of its tree is activated, or
\* is to be; it has its service, or is to get it; and the server is synchronised, or is
\* to be after that.
ComesBack(e) ==
    /\ e \in act \/ Of("downgrade", e) \in ToSet(todo)
    /\ \/ e \in services \cup unadded
       \/ Of("readd", e) \in ToSet(todo) \/ Of("downgrade", e) \in ToSet(todo)
BaseDone ==
    /\ \A s \in ToSet(todo) : s.op \notin {"base", "restore"}
    /\ \A b \in Bases(listed) :
        /\ \A e \in Tracked(b) : ComesBack(e)
        /\ \A s \in ToSet(todo) : s.op = "downgrade" => s.on \in Extension(b)
        /\ Followed(Tracked(b), todo)
    /\ \/ Of("sync", None) \in ToSet(todo)
       \/ act \subseteq listed /\ \A s \in ToSet(todo) : s.op = "releasever"
UndoOK ==
    /\ phase = "undo" /\ todo # <<>> => EndsIn(RollFinal, todo)
    /\ phase = "undo" /\ result \in {"running", "rolledBack", "ok"} =>
        (result = "running" /\ Of("base", None) \in ToSet(todo)) \/ BaseDone
    /\ result = "rolledBack" \/ (result = "ok" /\ cmd = "rollback") => phase = "undo"

LEMMA UndoImplies ==
  ASSUME TypeInv, UndoOK
  PROVE  RollbackSyncs
  <1> SUFFICES ASSUME result = "rolledBack" \/ (result = "ok" /\ cmd = "rollback") PROVE RollbackSyncs
    BY DEF RollbackSyncs
  <1>1. todo = <<>> /\ BaseDone
    BY DEF TypeInv, ControlOK, TodoOK, UndoOK
  <1>2. ToSet(todo) = {}
    BY <1>1, ToSetOfOne
  <1> QED
    BY <1>1, <1>2 DEF BaseDone, ComesBack, RollbackSyncs, Tracked, Extension

LEMMA FollowedTail ==
  ASSUME NEW S, NEW t \in Seq(S), t # <<>>, NEW T, Followed(T, t)
  PROVE  Followed(T, Tail(t))
  <1>1. /\ Len(Tail(t)) = Len(t) - 1 /\ Len(t) \in Nat
        /\ \A i \in 1..Len(Tail(t)) : Tail(t)[i] = t[i + 1]
    BY HeadAndTail
  <1>2. SUFFICES ASSUME NEW i \in 1..Len(Tail(t)), Tail(t)[i].op = "remove" /\ Tail(t)[i].on \in T
                 PROVE  \E j \in (i + 1)..Len(Tail(t)) : Tail(t)[j] = Of("readd", Tail(t)[i].on)
    BY DEF Followed
  <1>3. i + 1 \in 1..Len(t) /\ t[i + 1] = Tail(t)[i]
    BY <1>1
  <1>4. PICK k \in (i + 1 + 1)..Len(t) : t[k] = Of("readd", Tail(t)[i].on)
    BY <1>2, <1>3 DEF Followed
  <1>5. k - 1 \in 1..Len(Tail(t)) /\ k - 1 \in (i + 1)..Len(Tail(t)) /\ (k - 1) + 1 = k
    BY <1>1, <1>4
  <1>6. Tail(t)[k - 1] = t[k]
    BY <1>1, <1>5
  <1> QED
    BY <1>4, <1>5, <1>6

LEMMA FollowedJoin ==
  ASSUME NEW S, NEW s \in Seq(S), NEW t \in Seq(S), NEW T, Followed(T, s), Followed(T, t)
  PROVE  Followed(T, s \o t)
  <1>1. /\ Len(s \o t) = Len(s) + Len(t) /\ Len(s) \in Nat /\ Len(t) \in Nat
        /\ \A i \in 1..Len(s) : (s \o t)[i] = s[i]
        /\ \A i \in 1..Len(t) : (s \o t)[Len(s) + i] = t[i]
    OBVIOUS
  <1> DEFINE u == s \o t
  <1> HIDE DEF u
  <1>2. SUFFICES ASSUME NEW i \in 1..Len(u), u[i].op = "remove" /\ u[i].on \in T
                 PROVE  \E j \in (i + 1)..Len(u) : u[j] = Of("readd", u[i].on)
    BY DEF Followed, u
  <1>3. CASE i \in 1..Len(s)
    <2>1. u[i] = s[i]
      BY <1>1, <1>3 DEF u
    <2>2. PICK j \in (i + 1)..Len(s) : s[j] = Of("readd", s[i].on)
      BY <1>2, <1>3, <2>1 DEF Followed
    <2>3. j \in 1..Len(s) /\ j \in (i + 1)..Len(u)
      BY <1>1, <1>3, <2>2 DEF u
    <2>4. u[j] = s[j]
      BY <1>1, <2>3 DEF u
    <2> QED
      BY <2>1, <2>2, <2>3, <2>4
  <1>4. CASE i \notin 1..Len(s)
    <2>1. i - Len(s) \in 1..Len(t) /\ Len(s) + (i - Len(s)) = i
      BY <1>1, <1>4 DEF u
    <2>2. u[i] = t[i - Len(s)]
      BY <1>1, <2>1 DEF u
    <2>3. PICK k \in (i - Len(s) + 1)..Len(t) : t[k] = Of("readd", t[i - Len(s)].on)
      BY <1>2, <2>1, <2>2 DEF Followed
    <2>4. k \in 1..Len(t) /\ Len(s) + k \in (i + 1)..Len(u)
      BY <1>1, <2>1, <2>3 DEF u
    <2>5. u[Len(s) + k] = t[k]
      BY <1>1, <2>4 DEF u
    <2> QED
      BY <2>2, <2>3, <2>4, <2>5
  <1> QED
    BY <1>3, <1>4

\* Steps that remove nothing of T.
LEMMA FollowedNone ==
  ASSUME NEW S, NEW s \in Seq(S), NEW T, \A x \in ToSet(s) : x.op = "remove" => x.on \notin T
  PROVE  Followed(T, s)
  <1>1. \A i \in 1..Len(s) : s[i] \in ToSet(s)
    BY DEF ToSet
  <1> QED
    BY <1>1 DEF Followed

\* A service is refreshed by removing it, removing the ones it replaces, and adding it.
ServiceOps == {"remove", "readd"}
LEMMA RefreshParts ==
  ASSUME act \subseteq Product, NEW p \in Product, NEW T, Obsolete(p) \cap T = {}
  PROVE  /\ Refresh(p) \in Seq(Steps(ServiceOps))
         /\ Of("readd", p) \in ToSet(Refresh(p))
         /\ Followed(T, Refresh(p))
  <1> DEFINE a == Do("remove", p) \o OfSet("remove", Obsolete(p))
             u == a \o Do("readd", p)
  <1>1. "remove" \in ServiceOps \cap OnOne /\ "readd" \in ServiceOps \cap OnOne
    BY DEF ServiceOps, OnOne
  <1>2. Obsolete(p) \in SUBSET Product
    BY DEF Obsolete
  <1>3. /\ Do("remove", p) \in Seq(Steps(ServiceOps)) /\ Do("readd", p) \in Seq(Steps(ServiceOps))
        /\ OfSet("remove", Obsolete(p)) \in Seq(Steps(ServiceOps))
        /\ ToSet(OfSet("remove", Obsolete(p))) = {[op |-> "remove", on |-> q] : q \in Obsolete(p)}
    <2>1. Do("remove", p) \in Seq(Steps(ServiceOps)) /\ Do("readd", p) \in Seq(Steps(ServiceOps))
      BY <1>1, DoOK
    <2> QED
      BY <1>1, <1>2, <2>1, OfSetOK
  <1>4. /\ a \in Seq(Steps(ServiceOps))
        /\ ToSet(a) = ToSet(Do("remove", p)) \cup ToSet(OfSet("remove", Obsolete(p)))
    BY <1>3, ToSetOfJoin
  <1>5. ToSet(a) = {[op |-> "remove", on |-> q] : q \in {p} \cup Obsolete(p)}
    <2> HIDE DEF a
    <2> QED
      BY <1>3, <1>4, DoElements
  <1> HIDE DEF a
  <1>6. /\ u \in Seq(Steps(ServiceOps)) /\ ToSet(u) = ToSet(a) \cup ToSet(Do("readd", p))
    BY <1>3, <1>4, ToSetOfJoin
  <1>7. /\ Len(a) \in Nat /\ Len(u) = Len(a) + 1
        /\ \A i \in 1..Len(a) : u[i] = a[i]
        /\ u[Len(a) + 1] = Of("readd", p)
    <2>1. Do("readd", p) = <<Of("readd", p)>> /\ Of("readd", p) \in Steps(ServiceOps)
      BY <1>1 DEF Do, Of, Steps
    <2>2. u = a \o <<Of("readd", p)>>
      BY <2>1
    <2> HIDE DEF u
    <2> QED
      BY <1>4, <2>1, <2>2, OneMore
  <1>8. \A i \in 1..Len(a) : a[i] \in ToSet(a)
    BY <1>4 DEF ToSet
  <1> HIDE DEF u
  <1>9. ASSUME NEW i \in 1..Len(u), u[i].op = "remove", u[i].on \in T
        PROVE  \E j \in (i + 1)..Len(u) : u[j] = Of("readd", u[i].on)
    <2>1. i # Len(a) + 1
      BY <1>7, <1>9 DEF Of
    <2>2. i \in 1..Len(a)
      BY <1>7, <2>1
    <2>3. u[i] \in ToSet(a)
      BY <1>7, <1>8, <2>2
    <2>4. u[i].on = p
      BY <1>5, <1>9, <2>3
    <2>5. Len(a) + 1 \in (i + 1)..Len(u)
      BY <1>7, <2>2
    <2> QED
      BY <1>7, <2>4, <2>5
  <1>10. Followed(T, u)
    BY <1>9 DEF Followed
  <1>11. Of("readd", p) \in ToSet(u)
    BY <1>6, DoElements DEF Of
  <1> QED
    BY <1>6, <1>10, <1>11 DEF Refresh, a, u

LEMMA StepsElements ==
  ASSUME NEW O, NEW s \in Seq(Steps(O))
  PROVE  \A x \in ToSet(s) : x \in Steps(O) /\ x.op \in O
  BY ElementsIn, StepFields

\* Going on with steps that are not the last ones of a rollback.
LEMMA UndoShape ==
  ASSUME TypeInv, UndoOK, phase = "undo", todo # <<>>, NEW steps, Then(steps),
         \/ Head(todo).op \notin RollFinal /\ \E O : O \cap RollFinal = {} /\ steps \in Seq(Steps(O))
         \/ Head(todo).op \in RollFinal /\ (steps = <<>> \/ EndsIn(RollFinal, steps))
            /\ \E O : steps \in Seq(Steps(O))
  PROVE  /\ phase' = "undo" /\ result' = "running" /\ cmd' = cmd
         /\ todo' # <<>> => EndsIn(RollFinal, todo')
         /\ ToSet(todo') = ToSet(steps) \cup ToSet(Tail(todo))
         /\ Head(todo).op \in RollFinal => Tail(todo) = <<>> /\ todo' = steps
  <1>1. /\ EndsIn(RollFinal, todo) /\ todo \in Seq(Steps(Allowed)) /\ result = "running"
        /\ Tail(todo) \in Seq(Steps(Allowed))
    BY HeadStep DEF UndoOK, TypeInv, ControlOK, TodoOK
  <1>2. todo' = steps \o Tail(todo) /\ UNCHANGED <<cmd, phase, result>>
    BY DEF Then, command
  <1>3. PICK O : steps \in Seq(Steps(O)) /\ (Head(todo).op \notin RollFinal => O \cap RollFinal = {})
    OBVIOUS
  <1>4. ToSet(todo') = ToSet(steps) \cup ToSet(Tail(todo))
    <2>1. Steps(O) \subseteq Steps(O \cup Allowed) /\ Steps(Allowed) \subseteq Steps(O \cup Allowed)
      BY DEF Steps
    <2>2. steps \in Seq(Steps(O \cup Allowed)) /\ Tail(todo) \in Seq(Steps(O \cup Allowed))
      BY <1>1, <1>3, MoreSteps
    <2> QED
      BY <1>2, <2>2, ToSetOfJoin
  <1>5. CASE Head(todo).op \notin RollFinal
    <2>1. EndsIn(RollFinal, Tail(todo))
      BY <1>1, <1>5, FinalKept
    <2>2. EndsIn(RollFinal, todo')
      BY <1>1, <1>2, <1>3, <1>5, <2>1, FinalJoin
    <2> QED
      BY <1>1, <1>2, <1>4, <1>5, <2>2
  <1>6. CASE Head(todo).op \in RollFinal
    <2>1. Tail(todo) = <<>>
      BY <1>1, <1>6, FinalAlone
    <2>2. steps \o <<>> = steps
      BY <1>3
    <2> QED
      BY <1>1, <1>2, <1>4, <1>6, <2>1, <2>2
  <1> QED
    BY <1>5, <1>6

LEMMA ElseUndo ==
  ASSUME phase' # "undo", result' # "rolledBack", result' = "ok" => cmd' # "rollback"
  PROVE  UndoOK'
  BY DEF UndoOK

LEMMA EndUndo ==
  ASSUME todo' = <<>>, result' \notin {"running", "rolledBack", "ok"}
  PROVE  UndoOK'
  BY DEF UndoOK

LEMMA EnterUndo ==
  ASSUME phase' = "undo", result' = "running", todo' \in {Undo, Just("base")}
  PROVE  UndoOK'
  <1>1. {"restore", "base"} \subseteq UndoOps \ OnOne
    BY DEF UndoOps, RollbackOps, OnOne
  <1>2. /\ Just("base") \in Seq(Steps({"base"})) /\ Just("restore") \in Seq(Steps({"restore"}))
        /\ Just("base") \in Seq(Steps(UndoOps)) /\ Just("restore") \in Seq(Steps(UndoOps))
    BY <1>1, DoOK
  <1>3. EndsIn(RollFinal, Just("base"))
    BY OneFinal DEF RollFinal, Just, Do
  <1>4. {"restore"} \cap RollFinal = {}
    BY DEF RollFinal
  <1>5. EndsIn(RollFinal, Undo)
    BY <1>2, <1>3, <1>4, FinalJoin DEF Undo
  <1>6. Of("base", None) \in ToSet(Just("base"))
    BY DoElements DEF Of
  <1>7. ToSet(Undo) = ToSet(Just("restore")) \cup ToSet(Just("base"))
    BY <1>2, ToSetOfJoin DEF Undo
  <1>8. EndsIn(RollFinal, todo') /\ Of("base", None) \in ToSet(todo')
    BY <1>3, <1>5, <1>6, <1>7
  <1>9. EndsIn(RollFinal, todo)' /\ (Of("base", None) \in ToSet(todo))'
    BY <1>8 DEF EndsIn, Of, ToSet
  <1> QED
    BY <1>9 DEF UndoOK

LEMMA ErrorUndo ==
  ASSUME TypeInv, todo # <<>>, Error
  PROVE  UndoOK'
  <1>1. CASE phase = "apply"
    BY <1>1, EnterUndo DEF Error, TypeInv, ControlOK, TodoOK
  <1>2. CASE phase # "apply"
    BY <1>2, EndUndo DEF Error, Exit
  <1> QED
    BY <1>1, <1>2

\* The products of a base product's tree do not replace each other.
LEMMA TreeApart ==
  ASSUME TypeInv, NEW b \in Bases(listed), NEW p \in {b} \cup Extension(b)
  PROVE  Obsolete(p) \cap Tracked(b) = {} /\ p \in Product /\ b \in DOMAIN Tree
  <1>1. b \in Product /\ b \in DOMAIN Tree
    BY ProductsAssumption DEF Bases, TypeInv, DataOK, LocalOK
  <1>2. Apart({b} \cup Extension(b))
    BY <1>1, ListsAssumption DEF Extension
  <1>3. Tree[b] \in Seq(Product)
    BY <1>1, ProductsAssumption
  <1>4. Extension(b) \subseteq Product
    BY <1>3, ElementsIn DEF Extension
  <1> QED
    BY <1>1, <1>2, <1>4 DEF Apart, Obsolete, Tracked

LEMMA OnlyBase ==
  ASSUME BaseOK, NEW b \in Bases(listed), NEW c \in Bases(listed)
  PROVE  b = c
  BY DEF BaseOK, OneBase, Bases

LEMMA RollbackBaseUndo ==
  ASSUME TypeInv, BaseOK, UndoOK, RollbackBase, phase = "undo"
  PROVE  UndoOK'
  <1>1. todo # <<>> /\ Head(todo).op \in RollFinal /\ act \subseteq Product
    BY AtStep DEF RollbackBase, RollFinal, TypeInv, DataOK
  <1>2. CASE Error
    BY <1>1, <1>2, ErrorUndo
  <1>3. ASSUME NEW b \in Bases(listed), Downgrade(b),
               Then(Refresh(b) \o DowngradeExtensions(b) \o Just("sync"))
        PROVE  UndoOK'
    <2> DEFINE O == {"remove", "readd", "downgrade"}
               T == Tracked(b)
               D == DowngradeExtensions(b)
               s == Refresh(b) \o D
               u == s \o Just("sync")
    <2>1. /\ Obsolete(b) \cap T = {} /\ b \in Product /\ b \in Bases(Product)
      BY TreeApart DEF Bases
    <2> HIDE DEF T
    <2>2. /\ Refresh(b) \in Seq(Steps(ServiceOps)) /\ Of("readd", b) \in ToSet(Refresh(b))
          /\ Followed(T, Refresh(b))
      BY <1>1, <2>1, RefreshParts
    <2>3. Refresh(b) \in Seq(Steps(O))
      BY <2>2, MoreSteps DEF ServiceOps
    <2>4. /\ D \in Seq(Steps(O)) /\ D \in Seq(Steps({"downgrade"}))
          /\ ToSet(D) = {[op |-> "downgrade", on |-> e] : e \in {x \in ToSet(Tree[b]) : x.name \in NamesIn(listed)}}
      BY <2>1, DowngradeExtensionsOK
    <2> HIDE DEF D
    <2>5. Followed(T, D)
      <3>1. \A x \in ToSet(D) : x.op # "remove"
        BY <2>4
      <3> QED
        BY <2>4, <3>1, FollowedNone
    <2>6. s \in Seq(Steps(O)) /\ ToSet(s) = ToSet(Refresh(b)) \cup ToSet(D)
      BY <2>3, <2>4, ToSetOfJoin
    <2>7. Followed(T, s)
      BY <2>2, <2>3, <2>4, <2>5, FollowedJoin
    <2> HIDE DEF s
    <2>8. /\ Just("sync") \in Seq(Steps({"sync"})) /\ EndsIn(RollFinal, Just("sync"))
          /\ ToSet(Just("sync")) = {Of("sync", None)}
      <3>1. "sync" \in RollFinal /\ "sync" \notin OnOne
        BY DEF RollFinal, OnOne
      <3> QED
        BY <3>1, DoOK, DoElements, OneFinal DEF Just, Do, Of
    <2>9. Followed(T, Just("sync"))
      <3>1. \A x \in ToSet(Just("sync")) : x.op # "remove"
        BY <2>8 DEF Of
      <3> QED
        BY <2>8, <3>1, FollowedNone
    <2>10. s \in Seq(Steps(O \cup {"sync"})) /\ Just("sync") \in Seq(Steps(O \cup {"sync"}))
      BY <2>6, <2>8, MoreSteps
    <2>11. /\ u \in Seq(Steps(O \cup {"sync"})) /\ ToSet(u) = ToSet(s) \cup ToSet(Just("sync"))
      BY <2>10, ToSetOfJoin
    <2>12. Followed(T, u)
      BY <2>7, <2>9, <2>10, FollowedJoin
    <2>13. EndsIn(RollFinal, u)
      <3>1. O \cap RollFinal = {}
        BY DEF RollFinal
      <3> HIDE DEF O
      <3> QED
        BY <2>6, <2>8, <3>1, FinalJoin
    <2>14. Then(u)
      BY <1>3 DEF u, s, D
    <2> HIDE DEF u
    <2>15. /\ phase' = "undo" /\ result' = "running" /\ cmd' = cmd /\ todo' = u
      BY <1>1, <2>11, <2>13, <2>14, UndoShape
    <2>16. UNCHANGED <<listed, services, unadded>> /\ act' = (act \ Obsolete(b)) \cup {b}
      BY <1>3 DEF Downgrade, local, notes
    <2>17. \A x \in ToSet(u) : x.op \in O \cup {"sync"}
      <3> HIDE DEF O
      <3> QED
        BY <2>11, StepsElements
    <2>18. \A x \in ToSet(u) : x.op = "downgrade" => x.on \in Extension(b)
      <3>1. \A x \in ToSet(Refresh(b)) : x.op \in ServiceOps
        BY <2>2, StepsElements
      <3>2. \A x \in ToSet(D) : x.on \in Extension(b)
        BY <2>4 DEF Extension
      <3> QED
        BY <2>6, <2>8, <2>11, <3>1, <3>2 DEF Of, ServiceOps
    <2>19. ASSUME NEW e \in T
           PROVE  /\ e \in act' \/ Of("downgrade", e) \in ToSet(u)
                  /\ Of("readd", e) \in ToSet(u) \/ Of("downgrade", e) \in ToSet(u)
      <3>1. CASE e = b
        BY <2>2, <2>6, <2>11, <2>16, <3>1
      <3>2. CASE e # b
        <4>1. e \in ToSet(Tree[b]) /\ e.name \in NamesIn(listed)
          BY <3>2 DEF T, Tracked, Extension, NamesIn
        <4>2. Of("downgrade", e) \in ToSet(D)
          BY <2>4, <4>1 DEF Of
        <4> QED
          BY <2>6, <2>11, <4>2
      <3> QED
        BY <3>1, <3>2
    <2>20. Of("sync", None) \in ToSet(u)
      BY <2>8, <2>11
    <2>21. BaseDone'
      <3>1. Bases(listed)' = Bases(listed) /\ \A c : Tracked(c)' = Tracked(c)
        BY <2>16 DEF Bases, Tracked, Extension
      <3>2. ASSUME NEW c \in Bases(listed) PROVE c = b
        BY OnlyBase
      <3>3. \A e \in T : ComesBack(e)'
        BY <2>15, <2>19 DEF ComesBack, Of, ToSet
      <3>4. Followed(T, todo')
        BY <2>12, <2>15
      <3>5. /\ \A x \in ToSet(todo') : x.op \notin {"base", "restore"}
            /\ \A x \in ToSet(todo') : x.op = "downgrade" => x.on \in Extension(b)
            /\ Of("sync", None) \in ToSet(todo')
        BY <2>15, <2>17, <2>18, <2>20
      <3> QED
        BY <3>1, <3>2, <3>3, <3>4, <3>5 DEF BaseDone, T, Followed, ToSet, Of, Extension
    <2> QED
      BY <2>13, <2>15, <2>21 DEF UndoOK, EndsIn
  <1> QED
    BY <1>2, <1>3 DEF RollbackBase

\* A step of a rollback that goes on.
Goes(steps) ==
    \/ /\ Head(todo).op \notin RollFinal
       /\ \E O : O \cap RollFinal = {} /\ steps \in Seq(Steps(O))
    \/ /\ Head(todo).op \in RollFinal
       /\ steps = <<>> \/ EndsIn(RollFinal, steps)
       /\ \E O : steps \in Seq(Steps(O))

LEMMA NothingGoes ==
  ASSUME TypeInv
  PROVE  Goes(<<>>)
  <1>1. {} \cap RollFinal = {} /\ <<>> \in Seq(Steps({}))
    OBVIOUS
  <1> QED
    BY <1>1 DEF Goes

\* While the base product has its turn to come, nothing else is asked.
LEMMA GoesUndo ==
  ASSUME TypeInv, UndoOK, phase = "undo", todo # <<>>, Head(todo).op # "base",
         NEW steps, Goes(steps), Then(steps), BaseDone => BaseDone'
  PROVE  UndoOK'
  <1>1. /\ phase' = "undo" /\ result' = "running" /\ cmd' = cmd
        /\ todo' # <<>> => EndsIn(RollFinal, todo')
        /\ ToSet(todo') = ToSet(steps) \cup ToSet(Tail(todo))
    BY UndoShape DEF Goes
  <1>2. result = "running" /\ ToSet(todo) = {Head(todo)} \cup ToSet(Tail(todo))
    BY HeadStep DEF TypeInv, ControlOK
  <1>3. ASSUME Of("base", None) \in ToSet(todo) PROVE Of("base", None) \in ToSet(todo')
    <2>1. Of("base", None) # Head(todo)
      BY DEF Of
    <2> QED
      BY <1>1, <1>2, <1>3, <2>1
  <1>4. (Of("base", None) \in ToSet(todo))' \/ BaseDone'
    <2>1. CASE Of("base", None) \in ToSet(todo)
      BY <1>3, <2>1 DEF Of, ToSet
    <2>2. CASE BaseDone
      BY <2>2
    <2> QED
      BY <1>2, <2>1, <2>2 DEF UndoOK
  <1>5. (todo # <<>> => EndsIn(RollFinal, todo))'
    BY <1>1 DEF EndsIn
  <1> QED
    BY <1>1, <1>4, <1>5 DEF UndoOK

\* The base product is downgraded: what a step adds must not undo that.
LEMMA DoneUndo ==
  ASSUME TypeInv, UndoOK, BaseDone, phase = "undo", todo # <<>>, Head(todo).op # "sync",
         NEW steps, Goes(steps), Then(steps), listed' = listed,
         Head(todo).op # "releasever", \A s \in ToSet(steps) : s.op \notin {"base", "restore", "downgrade"},
         \A b \in Bases(listed) : /\ Followed(Tracked(b), steps)
                                  /\ \A e \in Tracked(b) : ComesBack(e)'
  PROVE  BaseDone'
  <1>1. ToSet(todo') = ToSet(steps) \cup ToSet(Tail(todo))
    BY UndoShape DEF Goes
  <1>2. /\ todo \in Seq(Steps(Allowed)) /\ Tail(todo) \in Seq(Steps(Allowed))
        /\ ToSet(todo) = {Head(todo)} \cup ToSet(Tail(todo))
    BY HeadStep DEF TypeInv, ControlOK, TodoOK
  <1>3. todo' = steps \o Tail(todo)
    BY DEF Then
  <1>4. /\ \A s \in ToSet(todo') : s.op \notin {"base", "restore"}
        /\ \A b \in Bases(listed) : \A s \in ToSet(todo') : s.op = "downgrade" => s.on \in Extension(b)
    BY <1>1, <1>2 DEF BaseDone
  <1>5. ASSUME NEW b \in Bases(listed) PROVE Followed(Tracked(b), todo')
    <2>1. PICK O : steps \in Seq(Steps(O))
      BY DEF Goes
    <2>2. steps \in Seq(Steps(O \cup Allowed)) /\ Tail(todo) \in Seq(Steps(O \cup Allowed))
      BY <1>2, <2>1, MoreSteps
    <2>3. Followed(Tracked(b), Tail(todo))
      BY <1>2, FollowedTail DEF BaseDone
    <2> QED
      BY <1>3, <2>2, <2>3, FollowedJoin
  <1>6. Of("sync", None) \in ToSet(todo')
    <2>1. Of("sync", None) # Head(todo)
      BY DEF Of
    <2> QED
      BY <1>1, <1>2, <2>1 DEF BaseDone
  <1>7. Bases(listed)' = Bases(listed) /\ \A b : Tracked(b)' = Tracked(b)
    BY DEF Bases, Tracked, Extension
  <1> QED
    BY <1>4, <1>5, <1>6, <1>7 DEF BaseDone, Followed, ToSet, Of, Extension

LEMMA RestoreUndo ==
  ASSUME TypeInv, UndoOK, Restore
  PROVE  UndoOK'
  <1>1. todo # <<>> /\ Head(todo).op = "restore" /\ phase = "undo" /\ Then(<<>>)
    BY AtStep, Phases DEF Restore
  <1>2. Head(todo) \in ToSet(todo)
    BY <1>1, HeadStep DEF TypeInv, ControlOK
  <1>3. ~BaseDone
    BY <1>1, <1>2 DEF BaseDone
  <1> QED
    BY <1>1, <1>3, NothingGoes, GoesUndo

LEMMA RollbackExtensionUndo ==
  ASSUME TypeInv, UndoOK, RollbackExtension, phase = "undo"
  PROVE  UndoOK'
  <1>1. /\ todo # <<>> /\ Head(todo).op = "downgrade" /\ On \in Product /\ act \subseteq Product
        /\ Head(todo) \in ToSet(todo) /\ ToSet(todo) = {Head(todo)} \cup ToSet(Tail(todo))
    BY AtStep, HeadStep DEF RollbackExtension, OnOne, TypeInv, DataOK, ControlOK
  <1>2. /\ Then(Refresh(On)) /\ act' = (act \ Obsolete(On)) \cup {On}
        /\ UNCHANGED <<listed, services, unadded>>
    BY DEF RollbackExtension, Downgrade, local, notes
  <1>3. Refresh(On) \in Seq(Steps(ServiceOps)) /\ Of("readd", On) \in ToSet(Refresh(On))
    <2>1. Obsolete(On) \cap {} = {}
      OBVIOUS
    <2> QED
      BY <1>1, <2>1, RefreshParts
  <1>4. Goes(Refresh(On))
    <2>1. ServiceOps \cap RollFinal = {} /\ "downgrade" \notin RollFinal
      BY DEF ServiceOps, RollFinal
    <2> QED
      BY <1>1, <1>3, <2>1 DEF Goes
  <1>5. ASSUME BaseDone PROVE BaseDone'
    <2>1. \A s \in ToSet(Refresh(On)) : s.op \notin {"base", "restore", "downgrade"}
      BY <1>3, StepsElements DEF ServiceOps
    <2>2. ToSet(todo') = ToSet(Refresh(On)) \cup ToSet(Tail(todo))
      BY <1>1, <1>2, <1>4, UndoShape DEF Goes
    <2>3. ASSUME NEW b \in Bases(listed)
          PROVE  Followed(Tracked(b), Refresh(On)) /\ \A e \in Tracked(b) : ComesBack(e)'
      <3>1. On \in Extension(b)
        BY <1>1, <1>5 DEF BaseDone, On
      <3>2. Obsolete(On) \cap Tracked(b) = {}
        BY <3>1, TreeApart
      <3>3. Followed(Tracked(b), Refresh(On))
        BY <1>1, <3>2, RefreshParts
      <3>4. ASSUME NEW e \in Tracked(b) PROVE ComesBack(e)'
        <4>1. ComesBack(e)
          BY <1>5 DEF BaseDone
        <4>2. CASE e = On
          <5>1. e \in act' /\ Of("readd", e) \in ToSet(todo')
            BY <1>2, <1>3, <2>2, <4>2
          <5> QED
            BY <5>1 DEF ComesBack, Of, ToSet
        <4>3. CASE e # On
          <5>1. Of("downgrade", e) # Head(todo) /\ Of("readd", e) # Head(todo)
            BY <1>1, <4>3 DEF Of, On
          <5>2. e \in act => e \in act'
            BY <1>2, <3>2
          <5>3. e \in act' \/ Of("downgrade", e) \in ToSet(todo')
            BY <1>1, <2>2, <4>1, <5>1, <5>2 DEF ComesBack
          <5>4. \/ e \in services' \cup unadded'
                \/ Of("readd", e) \in ToSet(todo') \/ Of("downgrade", e) \in ToSet(todo')
            BY <1>1, <1>2, <2>2, <4>1, <5>1 DEF ComesBack
          <5> QED
            BY <5>3, <5>4 DEF ComesBack, Of, ToSet
        <4> QED
          BY <4>2, <4>3
      <3> QED
        BY <3>3, <3>4
    <2> QED
      BY <1>1, <1>2, <1>4, <1>5, <2>1, <2>3, DoneUndo
  <1> QED
    BY <1>1, <1>2, <1>4, <1>5, GoesUndo

\* A service is removed or added again.
LEMMA ServiceUndo ==
  ASSUME TypeInv, UndoOK, MigrationRemoveService \/ ReaddService, phase = "undo"
  PROVE  UndoOK'
  <1>1. /\ todo # <<>> /\ Head(todo).op \in {"remove", "readd"}
        /\ ToSet(todo) = {Head(todo)} \cup ToSet(Tail(todo))
        /\ todo \in Seq(Steps(Allowed))
    BY AtStep, HeadStep DEF MigrationRemoveService, ReaddService, TypeInv, ControlOK, TodoOK
  <1>2. Then(<<>>) /\ UNCHANGED <<listed, act>>
    BY DEF MigrationRemoveService, ReaddService, server, notes
  <1>3. Goes(<<>>) /\ todo' = Tail(todo)
    <2>1. Tail(todo) \in Seq(Steps(Allowed))
      BY <1>1, HeadAndTail
    <2> QED
      BY <1>2, <2>1, NothingGoes DEF Then
  <1>4. ASSUME BaseDone, NEW b \in Bases(listed), NEW e \in Tracked(b) PROVE ComesBack(e)'
    <2>1. ComesBack(e)
      BY <1>4 DEF BaseDone
    <2>2. Of("downgrade", e) # Head(todo)
      BY <1>1 DEF Of
    <2>3. e \in act' \/ Of("downgrade", e) \in ToSet(todo')
      BY <1>1, <1>2, <1>3, <2>1, <2>2 DEF ComesBack
    <2>4. CASE ReaddService
      <3>1. On = e => e \in services' \cup unadded'
        BY <2>4 DEF ReaddService
      <3>2. e \in services \cup unadded => e \in services' \cup unadded'
        BY <2>4 DEF ReaddService
      <3>3. Of("readd", e) = Head(todo) => On = e
        BY DEF Of, On
      <3>4. \/ e \in services' \cup unadded'
            \/ Of("readd", e) \in ToSet(todo') \/ Of("downgrade", e) \in ToSet(todo')
        BY <1>1, <1>3, <2>1, <2>2, <3>1, <3>2, <3>3 DEF ComesBack
      <3> QED
        BY <2>3, <3>4 DEF ComesBack, Of, ToSet
    <2>5. CASE MigrationRemoveService
      <3>1. /\ Head(todo).op = "remove" /\ unadded' = unadded
            /\ services' \in {services, services \ {On}}
        BY <2>5 DEF MigrationRemoveService, At, notes
      <3>2. On = e => Of("readd", e) \in ToSet(Tail(todo))
        <4> SUFFICES ASSUME On = e PROVE Of("readd", e) \in ToSet(Tail(todo))
          OBVIOUS
        <4>1. /\ Head(todo) = todo[1] /\ Len(Tail(todo)) = Len(todo) - 1 /\ Len(todo) \in Nat
              /\ \A i \in 1..Len(Tail(todo)) : Tail(todo)[i] = todo[i + 1]
              /\ Tail(todo) \in Seq(Steps(Allowed))
          BY <1>1, HeadAndTail
        <4>2. Len(todo) # 0
          BY <1>1, EmptySeq
        <4>3. 1 \in 1..Len(todo)
          BY <4>1, <4>2
        <4>4. Followed(Tracked(b), todo)
          BY <1>4 DEF BaseDone
        <4>5. PICK j \in (1 + 1)..Len(todo) : todo[j] = Of("readd", e)
          BY <1>4, <3>1, <4>1, <4>3, <4>4 DEF Followed, On
        <4>6. j - 1 \in 1..Len(Tail(todo)) /\ (j - 1) + 1 = j
          BY <4>1, <4>5
        <4>7. Tail(todo)[j - 1] = Of("readd", e)
          BY <4>1, <4>5, <4>6
        <4> QED
          BY <4>1, <4>6, <4>7 DEF ToSet
      <3>3. Of("readd", e) # Head(todo)
        BY <3>1 DEF Of
      <3>4. \/ e \in services' \cup unadded'
            \/ Of("readd", e) \in ToSet(todo') \/ Of("downgrade", e) \in ToSet(todo')
        BY <1>1, <1>3, <2>1, <2>2, <3>1, <3>2, <3>3 DEF ComesBack
      <3> QED
        BY <2>3, <3>4 DEF ComesBack, Of, ToSet
    <2> QED
      BY <2>4, <2>5
  <1>5. BaseDone => BaseDone'
    <2>1. \A T : Followed(T, <<>>)
      BY DEF Followed
    <2>2. \A s \in ToSet(<<>>) : s.op \notin {"base", "restore", "downgrade"}
      BY ToSetOfOne
    <2> QED
      BY <1>1, <1>2, <1>3, <1>4, <2>1, <2>2, DoneUndo
  <1> QED
    BY <1>1, <1>2, <1>3, <1>5, GoesUndo

\* The last steps of a rollback.
LEMMA LastUndo ==
  ASSUME TypeInv, UndoOK, syncProducts \/ SetReleaseVersion, phase = "undo"
  PROVE  UndoOK'
  <1>1. /\ todo # <<>> /\ Head(todo).op \in {"sync", "releasever"}
        /\ ToSet(todo) = {Head(todo)} \cup ToSet(Tail(todo))
    BY AtStep, HeadStep DEF syncProducts, SetReleaseVersion, TypeInv, ControlOK
  <1>2. UNCHANGED <<listed, services, unadded>>
    BY DEF syncProducts, SetReleaseVersion, local, notes
  <1>3. /\ Just("releasever") \in Seq(Steps({"releasever"}))
        /\ EndsIn(RollFinal, Just("releasever"))
        /\ ToSet(Just("releasever")) = {Of("releasever", None)}
    <2>1. "releasever" \in RollFinal /\ "releasever" \notin OnOne
      BY DEF RollFinal, OnOne
    <2> QED
      BY <2>1, DoOK, DoElements, OneFinal DEF Just, Do, Of
  <1>4. \E steps \in {<<>>, Just("releasever")} :
            Goes(steps) /\ Then(steps) /\ (steps = <<>> => SetReleaseVersion)
    <2>1. CASE syncProducts
      <3>1. Goes(Just("releasever"))
        BY <1>1, <1>3 DEF Goes, RollFinal
      <3> QED
        BY <2>1, <3>1, NothingGoes DEF syncProducts, Just, Do
    <2>2. CASE SetReleaseVersion
      BY <2>2, NothingGoes DEF SetReleaseVersion
    <2> QED
      BY <2>1, <2>2
  <1>5. PICK steps \in {<<>>, Just("releasever")} :
            Goes(steps) /\ Then(steps) /\ (steps = <<>> => SetReleaseVersion)
    BY <1>4
  <1>6. Tail(todo) = <<>> /\ todo' = steps
    BY <1>1, <1>5, UndoShape DEF Goes, RollFinal
  <1>7. ToSet(todo) = {Head(todo)} /\ ToSet(todo') \subseteq {Of("releasever", None)}
    BY <1>1, <1>3, <1>5, <1>6, ToSetOfOne
  <1>8. ASSUME BaseDone PROVE BaseDone'
    <2>1. act' \subseteq listed /\ act \cap listed \subseteq act'
      <3>1. CASE syncProducts
        BY <3>1 DEF syncProducts, Synchronized
      <3>2. CASE SetReleaseVersion
        <4>1. act' = act /\ Of("sync", None) \notin ToSet(todo)
          BY <1>7, <3>2 DEF SetReleaseVersion, server, At, Of
        <4> QED
          BY <1>8, <4>1 DEF BaseDone
      <3> QED
        BY <3>1, <3>2
    <2>2. \A s \in ToSet(todo') : s.op = "releasever"
      BY <1>7 DEF Of
    <2>3. ASSUME NEW b \in Bases(listed)
          PROVE  Followed(Tracked(b), todo') /\ \A e \in Tracked(b) : ComesBack(e)'
      <3>1. Followed(Tracked(b), todo')
        <4>1. steps \in Seq(Steps({"releasever"}))
          BY <1>3, <1>5, NoSteps
        <4>2. \A x \in ToSet(steps) : x.op # "remove"
          BY <1>6, <2>2
        <4> QED
          BY <1>6, <4>1, <4>2, FollowedNone
      <3>2. ASSUME NEW e \in Tracked(b) PROVE ComesBack(e)'
        <4>1. ComesBack(e) /\ e \in listed
          BY <1>8 DEF BaseDone, Tracked
        <4>2. \A s \in ToSet(todo) : s.op \notin {"downgrade", "readd"}
          BY <1>1, <1>7
        <4>3. e \in act /\ e \in services \cup unadded
          BY <4>1, <4>2 DEF ComesBack, Of
        <4>4. e \in act' /\ e \in services' \cup unadded'
          BY <1>2, <2>1, <4>1, <4>3
        <4> QED
          BY <4>4 DEF ComesBack
      <3> QED
        BY <3>1, <3>2
    <2>4. Bases(listed)' = Bases(listed) /\ \A b : Tracked(b)' = Tracked(b)
      BY <1>2 DEF Bases, Tracked, Extension
    <2>5. /\ \A s \in ToSet(todo') : s.op \notin {"base", "restore", "downgrade"}
          /\ act' \subseteq listed'
      BY <1>2, <2>1, <2>2
    <2> QED
      BY <2>2, <2>3, <2>4, <2>5 DEF BaseDone, Followed, ToSet, Of, Extension
  <1>9. Head(todo).op # "base"
    BY <1>1
  <1> QED
    BY <1>1, <1>5, <1>8, <1>9, GoesUndo

\* What leaves the rollback alone.
LEMMA QuietUndo ==
  ASSUME UndoOK,
         UNCHANGED <<act, listed, services, unadded, cmd, phase, todo, result>>
  PROVE  UndoOK'
  <1>1. Bases(listed)' = Bases(listed) /\ \A b : Tracked(b)' = Tracked(b) /\ Extension(b)' = Extension(b)
    BY DEF Bases, Tracked, Extension
  <1>2. BaseDone => BaseDone'
    BY <1>1 DEF BaseDone, ComesBack, Followed, ToSet, Of
  <1>3. (todo # <<>> => EndsIn(RollFinal, todo)) => (todo # <<>> => EndsIn(RollFinal, todo))'
    BY DEF EndsIn
  <1>4. Of("base", None) \in ToSet(todo) => (Of("base", None) \in ToSet(todo))'
    BY DEF Of, ToSet
  <1> QED
    BY <1>2, <1>3, <1>4 DEF UndoOK

\* A command that rolls nothing back.
LEMMA OtherUndo ==
  ASSUME UndoOK, phase # "undo", UNCHANGED <<cmd, phase, result>>
  PROVE  UndoOK'
  BY ElseUndo DEF UndoOK

LEMMA StartUndo ==
  ASSUME NEW c \in {"migration", "rollback"}, NEW f, Start(c, f)
  PROVE  UndoOK'
  <1>1. CASE c = "rollback"
    BY <1>1, EnterUndo DEF Start, Begin
  <1>2. CASE c # "rollback"
    BY <1>2, ElseUndo DEF Start
  <1> QED
    BY <1>1, <1>2

LEMMA EndOfUndo ==
  ASSUME TypeInv, PathInv, UndoOK, Finish \/ Fail \/ Kill
  PROVE  UndoOK'
  <1>1. CASE Fail
    BY <1>1, ErrorUndo DEF Fail
  <1>2. CASE Kill
    BY <1>2, EndUndo DEF Kill, Exit
  <1>3. CASE Finish
    <2> DEFINE r == IF phase = "undo" /\ cmd = "migration" THEN "rolledBack" ELSE "ok"
    <2>1. /\ result = "running" /\ todo = <<>> /\ todo' = <<>> /\ result' = r
          /\ UNCHANGED <<cmd, phase, act, listed, services, unadded>>
      BY <1>3 DEF Finish, Exit, server, local, notes
    <2>2. cmd \in {"migration", "rollback"} /\ phase \in {"check", "apply", "undo", "last"}
      BY DEF TypeInv, ControlOK, CommandOK
    <2>3. phase # "undo" => cmd = "migration"
      BY <2>1, <2>2 DEF TypeInv, ControlOK, SignalOK, PathInv, PathOK
    <2>4. phase = "undo" => BaseDone
      <3>1. ToSet(todo) = {}
        BY <2>1, ToSetOfOne
      <3> QED
        BY <2>1, <3>1 DEF UndoOK
    <2>5. BaseDone => BaseDone'
      <3>1. Bases(listed)' = Bases(listed) /\ \A b : Tracked(b)' = Tracked(b) /\ Extension(b)' = Extension(b)
        BY <2>1 DEF Bases, Tracked, Extension
      <3>2. todo' = todo /\ UNCHANGED <<act, listed, services, unadded>>
        BY <2>1
      <3> HIDE DEF r
      <3> QED
        BY <3>1, <3>2 DEF BaseDone, ComesBack, Followed, ToSet, Of
    <2> QED
      BY <2>1, <2>2, <2>3, <2>4, <2>5 DEF UndoOK
  <1> QED
    BY <1>1, <1>2, <1>3

LEMMA CheckUndo ==
  ASSUME TypeInv, UndoOK,
         PatchCheck \/ Patch \/ PatchRecheck \/ RefreshRepos \/ checkSystemProducts
         \/ InstallReleasePackage \/ releasePackagesChecked \/ rereadProducts \/ selectMigration
  PROVE  UndoOK'
  <1>1. phase \in {"check", "apply", "last"} /\ result = "running" /\ todo # <<>>
    <2>1. CASE RefreshRepos
      <3>1. "refresh" \in Allowed /\ result = "running" /\ todo # <<>>
            /\ phase \in {"check", "apply", "undo", "last"}
        BY <2>1, AtStep DEF RefreshRepos
      <3> QED
        BY <3>1 DEF Allowed, UndoOps, RollbackOps
    <2>2. CASE ~RefreshRepos
      BY <2>2, AtStep, Phases DEF PatchCheck, Patch, PatchRecheck, checkSystemProducts,
         InstallReleasePackage, releasePackagesChecked, rereadProducts, selectMigration
    <2> QED
      BY <2>1, <2>2
  <1>2. CASE selectMigration
    <2>1. /\ phase = "check" /\ cmd = "migration"
      BY <1>2, AtStep, Phases DEF selectMigration, TypeInv, ControlOK, SignalOK
    <2>2. phase' \in {"check", "apply"} /\ cmd' = cmd /\ result' \in {"running", "ok", "failed", "abandoned"}
      BY <1>1, <1>2, <2>1 DEF selectMigration, Select, Exit, Error
    <2> QED
      BY <2>1, <2>2, ElseUndo
  <1>3. CASE ~selectMigration
    <2>1. UNCHANGED <<cmd, phase, result>> \/ Exit("failed")
      BY <1>3 DEF PatchCheck, Patch, PatchRecheck, RefreshRepos, checkSystemProducts,
         InstallReleasePackage, releasePackagesChecked, rereadProducts, Then, command
    <2> QED
      BY <1>1, <2>1, OtherUndo, EndUndo DEF Exit
  <1> QED
    BY <1>2, <1>3

LEMMA ApplyUndo ==
  ASSUME TypeInv, UndoOK,
         CreatePreSnapshot \/ Backup \/ checkInterrupted \/ disableAllRepos \/ InstalledServices
         \/ UpgradeProduct \/ cleanupProductRepos \/ MigrationAddService \/ dropUnmigrated
         \/ upgradePackages
  PROVE  UndoOK'
  <1>1. phase = "apply" /\ result = "running" /\ todo # <<>>
    BY AtStep, Phases DEF CreatePreSnapshot, Backup, checkInterrupted, disableAllRepos,
       InstalledServices, UpgradeProduct, cleanupProductRepos, MigrationAddService,
       dropUnmigrated, upgradePackages
  <1>2. CASE upgradePackages
    <2>1. \/ Exit("inconsistent") \/ Error
          \/ phase' = "last" /\ UNCHANGED <<cmd, result>>
      BY <1>2 DEF upgradePackages
    <2>2. phase' = "last" /\ UNCHANGED <<cmd, result>> => UndoOK'
      BY <1>1, ElseUndo
    <2> QED
      BY <1>1, <2>1, <2>2, EndUndo, ErrorUndo DEF Exit
  <1>3. CASE ~upgradePackages
    <2>1. UNCHANGED <<cmd, phase, result>> \/ Exit("abandoned") \/ Error
      BY <1>3 DEF CreatePreSnapshot, Backup, checkInterrupted, disableAllRepos,
         InstalledServices, UpgradeProduct, cleanupProductRepos, MigrationAddService,
         dropUnmigrated, Then, command
    <2> QED
      BY <1>1, <2>1, OtherUndo, EndUndo, ErrorUndo DEF Exit
  <1> QED
    BY <1>2, <1>3

\* The steps of a rollback, when it is not one that is reported.
LEMMA OtherRollback ==
  ASSUME TypeInv, UndoOK, phase # "undo",
         MigrationRemoveService \/ RollbackBase \/ RollbackExtension \/ ReaddService
         \/ syncProducts \/ SetReleaseVersion
  PROVE  UndoOK'
  <1>1. todo # <<>>
    BY AtStep DEF MigrationRemoveService, RollbackBase, RollbackExtension, ReaddService,
       syncProducts, SetReleaseVersion
  <1>2. UNCHANGED <<cmd, phase, result>> \/ Error
    BY DEF MigrationRemoveService, RollbackBase, RollbackExtension, ReaddService, syncProducts,
       SetReleaseVersion, Then, command
  <1> QED
    BY <1>1, <1>2, OtherUndo, ErrorUndo

LEMMA BootUndo ==
  ASSUME UndoOK, BootSnapshot
  PROVE  UndoOK'
  <1>1. /\ UNCHANGED <<todo, cmd, phase>> /\ result' = "none"
    BY DEF BootSnapshot
  <1>2. (todo # <<>> => EndsIn(RollFinal, todo)) => (todo # <<>> => EndsIn(RollFinal, todo))'
    BY <1>1 DEF EndsIn
  <1> QED
    BY <1>1, <1>2 DEF UndoOK

LEMMA NextUndo ==
  ASSUME TypeInv, PathInv, BaseOK, UndoOK, [Next]_vars
  PROVE  UndoOK'
  <1>1. CASE MigrationRemoveService \/ RollbackBase \/ RollbackExtension \/ ReaddService
             \/ syncProducts \/ SetReleaseVersion
    BY <1>1, OtherRollback, RollbackBaseUndo, RollbackExtensionUndo, ServiceUndo, LastUndo
  <1>2. ASSUME Step PROVE UndoOK'
    BY <1>1, <1>2, CheckUndo, ApplyUndo, RestoreUndo, EndOfUndo DEF Step
  <1>3. ASSUME \/ \E f \in FlagSets : Start("migration", f)
               \/ Start("rollback", {})
        PROVE  UndoOK'
    BY <1>3, StartUndo
  <1>4. CASE Signal \/ Publish \/ UNCHANGED vars
    <2>1. UNCHANGED <<act, listed, services, unadded, cmd, phase, todo, result>>
      BY <1>4 DEF Signal, Publish, vars, server, local, notes, command
    <2> QED
      BY <2>1, QuietUndo
  <1> QED
    BY <1>2, <1>3, <1>4, EndOfUndo, BootUndo DEF Next

LEMMA InitUndo ==
  Init => UndoOK
  BY DEF Init, UndoOK

\* A rollback that reports success, after a failed migration or as a command of its
\* own, leaves no activation of a product that is not listed; and every listed product
\* of the base product's tree is activated and has its service, unless adding it again
\* failed unnoticed (Rollback, migrationRefreshService, syncProducts).
THEOREM RollbackSynchronises == Spec => []RollbackSyncs
  <1> DEFINE Inv == TypeInv /\ PathInv /\ BaseOK /\ UndoOK
  <1>1. Init => Inv
    BY InitType, InitPath, InitBase, InitUndo
  <1>2. Inv /\ [Next]_vars => Inv'
    BY NextType, NextPath, NextBase, NextUndo
  <1>3. Inv => RollbackSyncs
    BY UndoImplies
  <1> QED
    BY <1>1, <1>2, <1>3, PTL DEF Spec

-----------------------------------------------------------------------------
(* What a rollback restores. Until the release packages are looked at the   *)
(* activations are those of the start, until the backup the files are.      *)
Early   == {"patchCheck", "patch", "patchRecheck", "refresh", "check"}
Fetching   == <<Of("fetch", None)>>
Checking   == <<Of("check", None), Of("fetch", None)>>
Refreshing == <<Of("refresh", None), Of("check", None), Of("fetch", None)>>
Patching(op) == <<Of(op, None), Of("refresh", None), Of("check", None), Of("fetch", None)>>
Lookups == {Checking, Refreshing} \cup {Patching(op) : op \in {"patchCheck", "patch", "patchRecheck"}}
\* The system was synchronised, and the release packages of its products installed.
Whole   == start.act = start.listed /\ NamesIn(start.listed) \subseteq NamesIn(start.packages)
AsAtStart == repos = start.repos /\ (Whole => listed = start.listed)
SavedAtStart ==
    /\ environ /\ backup \notin {None, Partial} /\ backup.repos = start.repos
    /\ Whole => backup.listed = start.listed
CheckOK ==
    result = "running" /\ phase = "check" =>
        /\ AsAtStart /\ ~backedUp
        /\ Whole => packages = start.packages
        /\ \/ todo \in Lookups /\ act = start.act
           \/ \A s \in ToSet(todo) : s.op \notin Early
        /\ Whole => \A s \in ToSet(todo) : s.op = "release" => s.on \in start.listed
BackupOK ==
    result = "running" /\ phase = "apply" /\ BackingUp \in ToSet(todo) =>
        AsAtStart /\ ~backedUp /\ \A s \in ToSet(todo) : s.op \in {"preSnapshot", "backup"}
RestoredOK ==
    /\ result = "running" /\ phase \in {"apply", "undo"} /\ backedUp => SavedAtStart
    /\ result = "running" /\ phase = "undo" /\ backedUp =>
        \/ Of("restore", None) \in ToSet(todo)
        \/ AsAtStart
        \/ listed = {} /\ Of("base", None) \in ToSet(todo)
    /\ result = "rolledBack" /\ backedUp => AsAtStart
FilesInv == CheckOK /\ BackupOK /\ RestoredOK

\* The command started on a system whose products have their release packages, and are
\* those of one base product's tree.
Registered ==
    /\ NamesIn(start.listed) \subseteq NamesIn(start.packages)
    /\ \E b \in Bases(start.listed) : start.listed \subseteq {b} \cup Extension(b)

\* The lists of steps of the lookup.
LEMMA LookupSteps ==
  ASSUME NEW t \in Lookups
  PROVE  /\ t # <<>> /\ Head(t).op \in Early
         /\ Head(t).op = "check" => Tail(t) = Fetching
         /\ Head(t).op = "refresh" => Tail(t) = Checking
         /\ Head(t).op \notin {"check", "refresh"} => Tail(t) = Refreshing
         /\ \A s \in ToSet(t) : s.op \in Early \cup {"fetch"}
  <1>1. CASE t = Checking
    <2>1. Head(t) = Of("check", None) /\ Tail(t) = Fetching /\ t # <<>>
      BY <1>1 DEF Checking, Fetching
    <2>2. ToSet(t) = {Of("check", None), Of("fetch", None)}
      BY <1>1 DEF Checking, ToSet
    <2> QED
      BY <2>1, <2>2 DEF Of, Early
  <1>2. CASE t = Refreshing
    <2>1. Head(t) = Of("refresh", None) /\ Tail(t) = Checking /\ t # <<>>
      BY <1>2 DEF Checking, Refreshing
    <2>2. ToSet(t) = {Of("refresh", None), Of("check", None), Of("fetch", None)}
      BY <1>2 DEF Refreshing, ToSet
    <2> QED
      BY <2>1, <2>2 DEF Of, Early
  <1>3. ASSUME NEW op \in {"patchCheck", "patch", "patchRecheck"}, t = Patching(op)
        PROVE  /\ t # <<>> /\ Head(t) = Of(op, None) /\ Tail(t) = Refreshing
               /\ ToSet(t) = {Of(op, None), Of("refresh", None), Of("check", None), Of("fetch", None)}
    <2>1. Head(t) = Of(op, None) /\ Tail(t) = Refreshing /\ t # <<>>
      BY <1>3 DEF Patching, Refreshing
    <2>2. ToSet(t) = {Of(op, None), Of("refresh", None), Of("check", None), Of("fetch", None)}
      BY <1>3 DEF Patching, ToSet
    <2> QED
      BY <2>1, <2>2
  <1> QED
    BY <1>1, <1>2, <1>3 DEF Lookups, Of, Early

LEMMA BeginLookup ==
  ASSUME NEW f
  PROVE  Begin("migration", f) \in Lookups
  <1>0. \A op : Just(op) = <<Of(op, None)>>
    BY DEF Just, Do, Of
  <1>1. <<>> \o Just("refresh") \o Just("check") \o Just("fetch") = Refreshing
    <2>1. <<>> \o Just("refresh") = Just("refresh")
      BY <1>0
    <2> QED
      BY <1>0, <2>1, JoinOneOne, JoinTwoOne DEF Refreshing
  <1>2. Just("patchCheck") \o Just("refresh") \o Just("check") \o Just("fetch") = Patching("patchCheck")
    <2>1. Just("patchCheck") \o Just("refresh") = <<Of("patchCheck", None), Of("refresh", None)>>
      BY <1>0, JoinOneOne
    <2>2. Just("patchCheck") \o Just("refresh") \o Just("check") =
             <<Of("patchCheck", None), Of("refresh", None), Of("check", None)>>
      BY <1>0, <2>1, JoinTwoOne
    <2> QED
      BY <1>0, <2>2, JoinThreeOne DEF Patching
  <1> QED
    BY <1>1, <1>2 DEF Begin, Lookups

LEMMA PatchLookup ==
  /\ <<>> \o Refreshing = Refreshing /\ <<>> \o Checking = Checking
  /\ \A op : Just(op) \o Refreshing = Patching(op)
  <1>1. <<>> \o Refreshing = Refreshing /\ <<>> \o Checking = Checking
    BY DEF Refreshing, Checking
  <1>2. \A op : Just(op) \o Refreshing = Patching(op)
    BY JoinOneThree DEF Just, Do, Of, Refreshing, Patching
  <1> QED
    BY <1>1, <1>2

\* Steps in which nothing is looked up.
LEMMA LateSteps ==
  ASSUME TypeInv, CheckOK, result = "running", phase = "check", todo # <<>>,
         NEW O, O \cap (Early \cup {"release"}) = {}, NEW steps \in Seq(Steps(O)), Then(steps),
         Head(todo).op \notin Early,
         UNCHANGED <<repos, listed, packages, backedUp>>
  PROVE  CheckOK'
  <1>1. /\ ToSet(todo) = {Head(todo)} \cup ToSet(Tail(todo)) /\ Tail(todo) \in Seq(Steps(Allowed))
    BY HeadStep DEF TypeInv, ControlOK
  <1>2. ToSet(todo') = ToSet(steps) \cup ToSet(Tail(todo)) /\ UNCHANGED <<start, result, phase>>
    <2>1. steps \in Seq(Steps(O \cup Allowed)) /\ Tail(todo) \in Seq(Steps(O \cup Allowed))
      BY <1>1, MoreSteps
    <2> QED
      BY <2>1, ToSetOfJoin DEF Then, command
  <1>3. \A s \in ToSet(steps) : s.op \notin Early \cup {"release"}
    BY StepsElements
  <1>4. todo \notin Lookups
    BY LookupSteps
  <1>5. \A s \in ToSet(todo') : s.op \notin Early
    BY <1>1, <1>2, <1>3, <1>4 DEF CheckOK
  <1>6. Whole => \A s \in ToSet(todo') : s.op = "release" => s.on \in start.listed
    BY <1>1, <1>2, <1>3 DEF CheckOK
  <1> QED
    BY <1>2, <1>5, <1>6 DEF CheckOK, AsAtStart, Whole, ToSet

\* Outside of the lookup there is nothing to show for it, and so on.
LEMMA NoCheck ==
  ASSUME result' # "running" \/ phase' # "check"
  PROVE  CheckOK'
  BY DEF CheckOK
LEMMA NoBackup ==
  ASSUME result' # "running" \/ phase' # "apply"
  PROVE  BackupOK'
  BY DEF BackupOK
LEMMA NoRestore ==
  ASSUME result' # "rolledBack", result' # "running" \/ phase' \notin {"apply", "undo"}
  PROVE  RestoredOK'
  BY DEF RestoredOK
LEMMA EndFiles ==
  ASSUME result' \notin {"running", "rolledBack"}
  PROVE  FilesInv'
  BY NoCheck, NoBackup, NoRestore DEF FilesInv
LEMMA LookupFiles ==
  ASSUME result' = "running", phase' = "check", CheckOK'
  PROVE  FilesInv'
  BY NoBackup, NoRestore DEF FilesInv
LEMMA LastFiles ==
  ASSUME phase' = "last", result' # "rolledBack"
  PROVE  FilesInv'
  BY NoCheck, NoBackup, NoRestore DEF FilesInv

\* The actions of the lookup.
LEMMA PatchFiles ==
  ASSUME TypeInv, FilesInv, PatchCheck \/ Patch \/ PatchRecheck
  PROVE  FilesInv'
  <1>1. /\ phase = "check" /\ result = "running" /\ todo # <<>> /\ cmd = "migration"
        /\ Head(todo).op \in {"patchCheck", "patch", "patchRecheck"}
        /\ Head(todo) \in ToSet(todo)
    BY AtStep, Phases, HeadStep DEF PatchCheck, Patch, PatchRecheck, TypeInv, ControlOK, SignalOK
  <1>2. /\ UNCHANGED <<act, repos, listed, packages, backedUp>>
        /\ UNCHANGED <<start, phase>>
    BY DEF PatchCheck, Patch, PatchRecheck, server, local, notes, Then, command, Exit
  <1>3. todo \in Lookups /\ act = start.act
    BY <1>1 DEF FilesInv, CheckOK, Early
  <1>4. Tail(todo) = Refreshing
    BY <1>1, <1>3, LookupSteps
  <1>5. Exit("failed") \/ (UNCHANGED result /\ todo' \in Lookups)
    <2>1. CASE PatchCheck
      BY <1>4, <2>1, PatchLookup DEF PatchCheck, Then, command, Lookups
    <2>2. CASE Patch
      BY <1>4, <2>2, PatchLookup DEF Patch, Then, command, Lookups
    <2>3. CASE PatchRecheck
      BY <1>1, <2>3, BeginLookup DEF PatchRecheck
    <2> QED
      BY <2>1, <2>2, <2>3
  <1>6. CASE Exit("failed")
    BY <1>6, EndFiles DEF Exit
  <1>7. CASE UNCHANGED result /\ todo' \in Lookups
    <2>1. \A s \in ToSet(todo') : s.op # "release"
      BY <1>7, LookupSteps DEF Early
    <2>2. (todo \in Lookups)'
      BY <1>7 DEF Lookups, Checking, Refreshing, Patching, Of
    <2>3. CheckOK'
      BY <1>1, <1>2, <1>3, <1>7, <2>1, <2>2 DEF FilesInv, CheckOK, AsAtStart, Whole, ToSet
    <2> QED
      BY <1>1, <1>2, <1>7, <2>3, LookupFiles
  <1> QED
    BY <1>5, <1>6, <1>7

LEMMA checkFiles ==
  ASSUME TypeInv, FilesInv, checkSystemProducts
  PROVE  FilesInv'
  <1>1. /\ phase \in {"check", "last"} /\ result = "running" /\ todo # <<>>
        /\ Head(todo).op = "check" /\ Head(todo) \in ToSet(todo)
        /\ act \subseteq Product /\ listed \subseteq Product
    BY AtStep, Phases, HeadStep DEF checkSystemProducts, TypeInv, ControlOK, DataOK, LocalOK
  <1> DEFINE R == {p \in products' : ~environ \/ p.name \notin NamesIn(packages)}
             u == OfSet("release", R) \o Just("checked")
  <1>2. /\ UNCHANGED <<act, repos, listed, packages, backedUp, start, phase, result>>
        /\ products' = listed \cup act /\ Then(u)
    BY DEF checkSystemProducts, server, local, Then, command, SystemProducts
  <1>3. CASE phase = "last"
    BY <1>1, <1>2, <1>3, LastFiles
  <1>4. CASE phase = "check"
    <2>1. todo \in Lookups /\ act = start.act
      BY <1>1, <1>4 DEF FilesInv, CheckOK, Early
    <2>2. Tail(todo) = Fetching /\ ToSet(Fetching) = {Of("fetch", None)}
      BY <1>1, <2>1, LookupSteps, ToSetOfOne DEF Fetching
    <2>3. R \in SUBSET Product
      BY <1>1, <1>2
    <2>4. \A O : {"release", "checked", "fetch"} \subseteq O =>
            /\ OfSet("release", R) \in Seq(Steps(O)) /\ Just("checked") \in Seq(Steps(O))
            /\ Just("fetch") \in Seq(Steps(O))
            /\ ToSet(OfSet("release", R)) = {[op |-> "release", on |-> p] : p \in R}
      <3> HIDE DEF R
      <3> QED
        BY <2>3, OfSetOK, DoOK DEF OnOne
    <2> DEFINE O == {"release", "checked", "fetch"}
    <2>5. u \in Seq(Steps(O)) /\ ToSet(u) = {[op |-> "release", on |-> p] : p \in R} \cup {Of("checked", None)}
      <3> HIDE DEF R
      <3>1. OfSet("release", R) \in Seq(Steps(O)) /\ Just("checked") \in Seq(Steps(O))
        BY <2>4
      <3> QED
        BY <2>4, <3>1, ToSetOfJoin, DoElements DEF Of
    <2>6. Fetching \in Seq(Steps(O))
      BY <2>4 DEF Fetching, Just, Do, Of
    <2> HIDE DEF u
    <2>7. ToSet(todo') = ToSet(u) \cup {Of("fetch", None)}
      <3> HIDE DEF O
      <3>1. ToSet(u \o Fetching) = ToSet(u) \cup ToSet(Fetching)
        BY <2>5, <2>6, ToSetOfJoin
      <3> QED
        BY <1>2, <2>2, <3>1 DEF Then
    <2>8. \A s \in ToSet(todo') : s.op \notin Early
      BY <2>5, <2>7 DEF Early, Of
    <2>9. Whole => \A s \in ToSet(todo') : s.op = "release" => s.on \in start.listed
      <3> SUFFICES ASSUME Whole, NEW s \in ToSet(todo'), s.op = "release" PROVE s.on \in start.listed
        OBVIOUS
      <3>1. s.on \in R
        BY <2>5, <2>7 DEF Of
      <3>2. listed = start.listed /\ act = start.listed
        BY <1>1, <1>4, <2>1 DEF FilesInv, CheckOK, AsAtStart, Whole
      <3> QED
        BY <1>2, <3>1, <3>2
    <2>10. CheckOK'
      BY <1>1, <1>2, <1>4, <2>8, <2>9 DEF FilesInv, CheckOK, AsAtStart, Whole, ToSet
    <2> QED
      BY <1>1, <1>2, <1>4, <2>10, LookupFiles
  <1> QED
    BY <1>1, <1>3, <1>4

LEMMA InstallFiles ==
  ASSUME TypeInv, FilesInv, InstallReleasePackage
  PROVE  FilesInv'
  <1>1. /\ phase \in {"check", "last"} /\ result = "running" /\ todo # <<>>
        /\ Head(todo).op = "release"
        /\ ToSet(todo) = {Head(todo)} \cup ToSet(Tail(todo)) /\ Tail(todo) \in Seq(Steps(Allowed))
    BY AtStep, Phases, HeadStep DEF InstallReleasePackage, TypeInv, ControlOK
  <1>2. /\ UNCHANGED <<act, repos, backedUp, start, phase, result>> /\ todo' = <<>> \o Tail(todo)
        /\ On.name \in NamesIn(packages) => UNCHANGED <<packages, listed>>
    BY DEF InstallReleasePackage, server, Then, command
  <1>3. todo' = Tail(todo)
    BY <1>1, <1>2
  <1>4. CASE phase = "last"
    BY <1>1, <1>2, <1>4, LastFiles
  <1>5. CASE phase = "check"
    <2>1. todo \notin Lookups
      BY <1>1, LookupSteps DEF Early
    <2>2. /\ \A s \in ToSet(todo') : s.op \notin Early
          /\ Whole => \A s \in ToSet(todo') : s.op = "release" => s.on \in start.listed
      BY <1>1, <1>3, <1>5, <2>1 DEF FilesInv, CheckOK
    <2>3. ASSUME Whole PROVE UNCHANGED <<packages, listed>>
      <3>1. On \in start.listed /\ packages = start.packages
        BY <1>1, <1>5, <2>3 DEF FilesInv, CheckOK, On
      <3>2. On.name \in NamesIn(packages)
        BY <2>3, <3>1 DEF Whole, NamesIn
      <3> QED
        BY <1>2, <3>2
    <2>4. CheckOK'
      BY <1>1, <1>2, <1>5, <2>2, <2>3 DEF FilesInv, CheckOK, AsAtStart, Whole, ToSet
    <2> QED
      BY <1>1, <1>2, <1>5, <2>4, LookupFiles
  <1> QED
    BY <1>1, <1>4, <1>5

LEMMA checkedFiles ==
  ASSUME TypeInv, FilesInv, releasePackagesChecked \/ rereadProducts
  PROVE  FilesInv'
  <1>1. /\ phase \in {"check", "last"} /\ result = "running" /\ todo # <<>>
        /\ Head(todo).op \in {"checked", "reread"}
    BY AtStep, Phases DEF releasePackagesChecked, rereadProducts
  <1> DEFINE O == {"base", "reread"}
  <1>2. \E steps \in Seq(Steps(O)) : Then(steps)
    <2>1. Just("base") \in Seq(Steps(O)) /\ Just("reread") \in Seq(Steps(O)) /\ <<>> \in Seq(Steps(O))
      BY DoOK, NoSteps DEF OnOne
    <2>2. Just("base") \o Just("reread") \in Seq(Steps(O))
      <3> HIDE DEF O
      <3> QED
        BY <2>1, JoinSteps
    <2>3. Then(<<>>) \/ Then(Just("base") \o Just("reread"))
      BY DEF releasePackagesChecked, rereadProducts
    <2> QED
      BY <2>1, <2>2, <2>3
  <1>3. UNCHANGED <<repos, listed, packages, backedUp, phase, result>>
    BY DEF releasePackagesChecked, rereadProducts, local, notes, Then, command
  <1>4. CASE phase = "last"
    BY <1>1, <1>3, <1>4, LastFiles
  <1>5. CASE phase = "check"
    <2>1. O \cap (Early \cup {"release"}) = {} /\ Head(todo).op \notin Early
      BY <1>1 DEF Early
    <2> HIDE DEF O
    <2>2. CheckOK'
      BY <1>1, <1>2, <1>3, <1>5, <2>1, LateSteps DEF FilesInv
    <2> QED
      BY <1>1, <1>3, <1>5, <2>2, LookupFiles
  <1> QED
    BY <1>1, <1>4, <1>5

LEMMA SelectFiles ==
  ASSUME TypeInv, FilesInv, selectMigration
  PROVE  FilesInv'
  <1>1. phase = "check" /\ result = "running" /\ todo # <<>>
    BY AtStep, Phases DEF selectMigration
  <1>2. UNCHANGED <<repos, listed, backedUp>>
    BY DEF selectMigration, local
  <1>3. CASE result' \notin {"running", "rolledBack"}
    BY <1>3, EndFiles
  <1>4. ASSUME NEW i, Select(i) PROVE FilesInv'
    <2>1. /\ phase' = "apply" /\ result' = "running" /\ start' = start /\ todo' = Chosen
      BY <1>1, <1>4 DEF Select
    <2>2. BackupOK'
      <3>1. AsAtStart' /\ ~backedUp'
        BY <1>1, <1>2, <2>1 DEF FilesInv, CheckOK, AsAtStart, Whole
      <3>2. \A s \in ToSet(todo') : s.op \in {"preSnapshot", "backup"}
        BY <2>1, ChosenOK
      <3> QED
        BY <3>1, <3>2 DEF BackupOK, ToSet
    <2>3. RestoredOK'
      BY <1>1, <1>2, <2>1 DEF FilesInv, CheckOK, RestoredOK
    <2> QED
      BY <2>1, <2>2, <2>3, NoCheck DEF FilesInv
  <1>5. result' \notin {"running", "rolledBack"} \/ \E i : Select(i)
    BY DEF selectMigration, Exit
  <1> QED
    BY <1>3, <1>4, <1>5

\* The rollback that is done because a release package could not be installed.
LEMMA CheckRollbackFiles ==
  ASSUME TypeInv, FilesInv, phase = "check",
         RollbackBase \/ RollbackExtension \/ MigrationRemoveService \/ ReaddService
         \/ syncProducts \/ SetReleaseVersion
  PROVE  FilesInv'
  <1>1. /\ result = "running" /\ todo # <<>> /\ Head(todo).op \in RollbackOps
        /\ Head(todo).op \in {"downgrade"} => On \in Product
        /\ act \subseteq Product
    BY AtStep DEF RollbackBase, RollbackExtension, MigrationRemoveService, ReaddService,
       syncProducts, SetReleaseVersion, RollbackOps, OnOne, TypeInv, DataOK
  <1>2. CASE RollbackBase /\ Error
    BY <1>2, EndFiles DEF Error, Exit
  <1>3. CASE ~(RollbackBase /\ Error)
    <2>1. \E steps \in Seq(Steps(RollbackOps)) : Then(steps)
      <3>1. CASE RollbackBase
        <4>1. PICK b \in Bases(listed) : Then(Refresh(b) \o DowngradeExtensions(b) \o Just("sync"))
          BY <1>3, <3>1 DEF RollbackBase
        <4>2. b \in Bases(Product) /\ b \in Product
          BY DEF Bases, TypeInv, DataOK, LocalOK
        <4>3. Refresh(b) \in Seq(Steps(RollbackOps))
          BY <1>1, <4>2, RefreshOK
        <4>4. DowngradeExtensions(b) \in Seq(Steps(RollbackOps)) /\ Just("sync") \in Seq(Steps(RollbackOps))
          BY <4>2, DowngradeExtensionsOK, DoOK DEF RollbackOps, OnOne
        <4>5. Refresh(b) \o DowngradeExtensions(b) \o Just("sync") \in Seq(Steps(RollbackOps))
          BY <4>3, <4>4, JoinSteps
        <4> QED
          BY <4>1, <4>5
      <3>2. CASE RollbackExtension
        <4>1. Refresh(On) \in Seq(Steps(RollbackOps))
          BY <1>1, <3>2, RefreshOK DEF RollbackExtension, At
        <4> QED
          BY <3>2, <4>1 DEF RollbackExtension
      <3>3. CASE syncProducts
        <4>1. Just("releasever") \in Seq(Steps(RollbackOps))
          BY DoOK DEF RollbackOps, OnOne
        <4> QED
          BY <3>3, <4>1 DEF syncProducts
      <3>4. CASE MigrationRemoveService \/ ReaddService \/ SetReleaseVersion
        BY <3>4, NoSteps DEF MigrationRemoveService, ReaddService, SetReleaseVersion
      <3> QED
        BY <3>1, <3>2, <3>3, <3>4
    <2>2. UNCHANGED <<repos, listed, packages, backedUp>>
      BY <1>3 DEF RollbackBase, RollbackExtension, MigrationRemoveService, ReaddService,
         syncProducts, SetReleaseVersion, Downgrade, local, notes
    <2>3. RollbackOps \cap (Early \cup {"release"}) = {} /\ Head(todo).op \notin Early
      BY <1>1 DEF RollbackOps, Early
    <2>4. CheckOK' /\ result' = "running" /\ phase' = "check"
      BY <1>1, <2>1, <2>2, <2>3, LateSteps DEF FilesInv, Then, command
    <2> QED
      BY <2>4, LookupFiles
  <1> QED
    BY <1>2, <1>3

\* While the migration is applied.
LEMMA ErrorFiles ==
  ASSUME TypeInv, FilesInv, todo # <<>>, Error, UNCHANGED <<backup, backedUp>>
  PROVE  FilesInv'
  <1>1. result = "running"
    BY DEF TypeInv, ControlOK, TodoOK
  <1>2. CASE phase # "apply"
    BY <1>2, EndFiles DEF Error, Exit
  <1>3. CASE phase = "apply"
    <2>1. /\ phase' = "undo" /\ todo' = Undo /\ result' = "running"
          /\ UNCHANGED <<environ, start>>
      BY <1>1, <1>3 DEF Error
    <2>2. Just("base") \in Seq(Steps(UndoOps)) /\ Just("restore") \in Seq(Steps(UndoOps))
      BY DoOK DEF UndoOps, RollbackOps, OnOne
    <2>3. Of("restore", None) \in ToSet(Undo)
      BY <2>2, ToSetOfJoin, DoElements DEF Undo, Of
    <2>4. (Of("restore", None) \in ToSet(todo))'
      BY <2>1, <2>3 DEF Of, ToSet
    <2>5. backedUp' => SavedAtStart'
      BY <1>1, <1>3, <2>1 DEF FilesInv, RestoredOK, SavedAtStart, Whole
    <2>6. RestoredOK'
      BY <2>1, <2>4, <2>5 DEF RestoredOK
    <2> QED
      BY <2>1, <2>6, NoCheck, NoBackup DEF FilesInv
  <1> QED
    BY <1>2, <1>3

LEMMA ThenFiles ==
  ASSUME TypeInv, FilesInv, phase = "apply", todo # <<>>,
         Head(todo).op \notin {"preSnapshot", "backup"},
         NEW O, "backup" \notin O, NEW steps \in Seq(Steps(O)), Then(steps),
         UNCHANGED <<backup, backedUp>>
  PROVE  FilesInv'
  <1>1. /\ ToSet(todo) = {Head(todo)} \cup ToSet(Tail(todo)) /\ Tail(todo) \in Seq(Steps(Allowed))
        /\ result = "running"
    BY HeadStep DEF TypeInv, ControlOK
  <1>2. ToSet(todo') = ToSet(steps) \cup ToSet(Tail(todo)) /\ UNCHANGED <<start, result, phase, environ>>
    <2>1. steps \in Seq(Steps(O \cup Allowed)) /\ Tail(todo) \in Seq(Steps(O \cup Allowed))
      BY <1>1, MoreSteps
    <2> QED
      BY <2>1, ToSetOfJoin DEF Then, command
  <1>3. BackingUp \notin ToSet(steps)
    BY StepsElements DEF BackingUp
  <1>4. BackingUp \notin ToSet(todo)
    BY <1>1 DEF FilesInv, BackupOK
  <1>5. BackingUp \notin ToSet(todo')
    BY <1>1, <1>2, <1>3, <1>4
  <1>6. BackupOK'
    BY <1>5 DEF BackupOK, BackingUp, ToSet
  <1>7. RestoredOK'
    BY <1>1, <1>2 DEF FilesInv, RestoredOK, SavedAtStart, Whole
  <1> QED
    BY <1>2, <1>6, <1>7, NoCheck DEF FilesInv

LEMMA PreSnapshotFiles ==
  ASSUME TypeInv, FilesInv, CreatePreSnapshot
  PROVE  FilesInv'
  <1>1. /\ phase = "apply" /\ result = "running" /\ todo # <<>>
        /\ ToSet(todo) = {Head(todo)} \cup ToSet(Tail(todo)) /\ Tail(todo) \in Seq(Steps(Allowed))
    BY AtStep, Phases, HeadStep DEF CreatePreSnapshot, TypeInv, ControlOK
  <1>2. /\ UNCHANGED <<repos, listed, packages, act, backup, backedUp>>
        /\ UNCHANGED <<environ, start, phase, result>> /\ todo' = <<>> \o Tail(todo)
    BY DEF CreatePreSnapshot, server, local, notes, Then, command
  <1>3. todo' = Tail(todo)
    BY <1>1, <1>2
  <1>4. BackingUp \in ToSet(todo') => AsAtStart /\ ~backedUp
    BY <1>1, <1>3 DEF FilesInv, BackupOK
  <1>5. BackingUp \in ToSet(todo') => \A s \in ToSet(todo') : s.op \in {"preSnapshot", "backup"}
    BY <1>1, <1>3 DEF FilesInv, BackupOK
  <1>6. BackupOK'
    BY <1>2, <1>4, <1>5 DEF BackupOK, AsAtStart, Whole, BackingUp, ToSet
  <1>7. RestoredOK'
    BY <1>1, <1>2 DEF FilesInv, RestoredOK, SavedAtStart, Whole
  <1> QED
    BY <1>1, <1>2, <1>6, <1>7, NoCheck DEF FilesInv

LEMMA BackupFiles ==
  ASSUME TypeInv, FilesInv, Backup
  PROVE  FilesInv'
  <1>1. /\ phase = "apply" /\ result = "running" /\ todo # <<>> /\ Head(todo).op = "backup"
        /\ Head(todo) \in ToSet(todo) /\ Head(todo) \in Steps(Allowed)
        /\ Tail(todo) \in Seq(Steps(Allowed)) /\ EndsInFinal(todo) /\ todo \in Seq(Steps(Allowed))
        /\ path \in Seq(Product)
    BY AtStep, Phases, HeadStep DEF Backup, TypeInv, ControlOK, TodoOK, DataOK, NotesOK
  <1>2. Head(todo) = BackingUp
    BY <1>1 DEF Steps, BackingUp, OnOne
  <1>3. AsAtStart /\ ~backedUp
    BY <1>1, <1>2 DEF FilesInv, BackupOK
  <1>4. /\ UNCHANGED <<environ, start, phase, result, repos, listed>> /\ Then(applyMigration(path))
        /\ ~backedUp' \/ (environ /\ backup' = Files)
    BY <1>3 DEF Backup, local, Then, command
  <1>5. Tail(todo) = <<>>
    BY <1>1, FinalAlone DEF Final, EndsInFinal
  <1>6. todo' = applyMigration(path) /\ \A s \in ToSet(todo') : s.op # "backup"
    <2>1. applyMigration(path) \in Seq(Steps(ApplyOps))
      BY <1>1, applyMigrationOK
    <2>2. applyMigration(path) \o <<>> = applyMigration(path)
      BY <2>1
    <2>3. todo' = applyMigration(path)
      BY <1>4, <1>5, <2>2 DEF Then
    <2> QED
      BY <1>1, <2>3, applyMigrationOK
  <1>7. BackingUp \notin ToSet(todo')
    BY <1>6 DEF BackingUp
  <1>8. BackupOK'
    BY <1>7 DEF BackupOK, BackingUp, ToSet
  <1>9. ASSUME environ, backup' = Files PROVE SavedAtStart'
    <2>1. Files \in FilesType
      BY FilesOK DEF TypeInv, DataOK
    <2>2. Files \notin {None, Partial}
      BY <2>1, BackupAssumption
    <2>3. Files.repos = repos /\ Files.listed = listed
      BY DEF Files
    <2> QED
      BY <1>3, <1>4, <1>9, <2>2, <2>3 DEF SavedAtStart, AsAtStart, Whole
  <1>10. RestoredOK'
    BY <1>1, <1>4, <1>9 DEF RestoredOK
  <1> QED
    BY <1>1, <1>4, <1>8, <1>10, NoCheck DEF FilesInv

LEMMA ApplyFiles ==
  ASSUME TypeInv, FilesInv, phase = "apply",
         RefreshRepos \/ checkInterrupted \/ disableAllRepos \/ InstalledServices
         \/ UpgradeProduct \/ MigrationRemoveService \/ cleanupProductRepos
         \/ MigrationAddService \/ dropUnmigrated
  PROVE  FilesInv'
  <1>1. /\ result = "running" /\ todo # <<>> /\ Head(todo).op \notin {"preSnapshot", "backup"}
        /\ act \subseteq Product
    BY AtStep DEF RefreshRepos, checkInterrupted, disableAllRepos, InstalledServices,
       UpgradeProduct, MigrationRemoveService, cleanupProductRepos, MigrationAddService,
       dropUnmigrated, TypeInv, DataOK
  <1>2. UNCHANGED <<backup, backedUp>>
    BY DEF RefreshRepos, checkInterrupted, disableAllRepos, InstalledServices,
       UpgradeProduct, MigrationRemoveService, cleanupProductRepos, MigrationAddService,
       dropUnmigrated, saved, notes
  <1>3. \/ Error \/ Exit("abandoned") \/ Then(<<>>)
        \/ \E S \in SUBSET Product : Then(OfSet("remove", S))
    <2>1. Obsolete(On) \in SUBSET Product /\ Unmigrated \in SUBSET Product
      BY <1>1 DEF Obsolete, Unmigrated
    <2> QED
      BY <2>1 DEF RefreshRepos, checkInterrupted, disableAllRepos, InstalledServices,
         UpgradeProduct, MigrationRemoveService, cleanupProductRepos, MigrationAddService,
         dropUnmigrated
  <1>4. CASE Error
    BY <1>1, <1>2, <1>4, ErrorFiles
  <1>5. CASE Exit("abandoned")
    BY <1>5, EndFiles DEF Exit
  <1>6. ASSUME NEW steps \in Seq(Steps({"remove"})), Then(steps) PROVE FilesInv'
    <2>1. "backup" \notin {"remove"}
      OBVIOUS
    <2> QED
      BY <1>1, <1>2, <1>6, <2>1, ThenFiles
  <1>7. <<>> \in Seq(Steps({"remove"}))
    BY NoSteps
  <1>8. \A S \in SUBSET Product : OfSet("remove", S) \in Seq(Steps({"remove"}))
    BY OfSetOK DEF OnOne
  <1> QED
    BY <1>3, <1>4, <1>5, <1>6, <1>7, <1>8

LEMMA upgradePackagesFiles ==
  ASSUME TypeInv, FilesInv, upgradePackages
  PROVE  FilesInv'
  <1>1. result = "running" /\ todo # <<>>
    BY AtStep DEF upgradePackages
  <1>2. UNCHANGED <<backup, backedUp>>
    BY DEF upgradePackages, saved
  <1>3. Exit("inconsistent") \/ Error \/ (phase' = "last" /\ result' = result)
    BY DEF upgradePackages
  <1> QED
    BY <1>1, <1>2, <1>3, EndFiles, ErrorFiles, LastFiles DEF Exit

\* While it is undone.
LEMMA RestoreFiles ==
  ASSUME TypeInv, UndoOK, FilesInv, Restore
  PROVE  FilesInv'
  <1>1. /\ phase = "undo" /\ result = "running" /\ todo # <<>> /\ Head(todo).op = "restore"
        /\ ToSet(todo) = {Head(todo)} \cup ToSet(Tail(todo)) /\ Tail(todo) \in Seq(Steps(Allowed))
    BY AtStep, Phases, HeadStep DEF Restore, TypeInv, ControlOK
  <1>2. /\ UNCHANGED <<backup, backedUp, environ, start, phase, result>> /\ todo' = <<>> \o Tail(todo)
    BY DEF Restore, saved, notes, Then, command
  <1>3. todo' = Tail(todo)
    BY <1>1, <1>2
  <1>4. Of("base", None) \in ToSet(todo')
    <2>1. ~BaseDone
      BY <1>1 DEF BaseDone
    <2>2. Of("base", None) \in ToSet(todo) /\ Of("base", None) # Head(todo)
      BY <1>1, <2>1 DEF UndoOK, Of
    <2> QED
      BY <1>1, <1>3, <2>2
  <1>5. ASSUME backedUp
        PROVE  SavedAtStart' /\ (AsAtStart' \/ listed' = {})
    <2>1. SavedAtStart
      BY <1>1, <1>5 DEF FilesInv, RestoredOK
    <2>2. (repos' = backup.repos /\ listed' = backup.listed) \/ listed' = {}
      BY <2>1 DEF Restore, SavedAtStart
    <2> QED
      BY <1>2, <2>1, <2>2 DEF SavedAtStart, AsAtStart, Whole
  <1>6. (Of("base", None) \in ToSet(todo))'
    BY <1>4 DEF Of, ToSet
  <1>7. RestoredOK'
    BY <1>1, <1>2, <1>5, <1>6 DEF RestoredOK
  <1> QED
    BY <1>1, <1>2, <1>7, NoCheck, NoBackup DEF FilesInv

LEMMA UndoBaseFiles ==
  ASSUME TypeInv, UndoOK, FilesInv, RollbackBase, phase = "undo"
  PROVE  FilesInv'
  <1>1. /\ result = "running" /\ todo # <<>> /\ Head(todo).op = "base"
        /\ ToSet(todo) = {Head(todo)} \cup ToSet(Tail(todo)) /\ todo \in Seq(Steps(Allowed))
    BY AtStep, HeadStep DEF RollbackBase, TypeInv, ControlOK, TodoOK
  <1>2. UNCHANGED <<backup, backedUp, repos, listed>>
    BY DEF RollbackBase, Downgrade, local, saved, notes
  <1>3. CASE Error
    BY <1>1, <1>2, <1>3, ErrorFiles
  <1>4. CASE listed # {} /\ UNCHANGED <<environ, start, phase, result>>
    <2>1. Tail(todo) = <<>>
      BY <1>1, FinalAlone DEF UndoOK, RollFinal
    <2>2. ToSet(todo) = {Head(todo)}
      BY <1>1, <2>1, ToSetOfOne
    <2>3. Of("restore", None) \notin ToSet(todo)
      BY <1>1, <2>2 DEF Of
    <2>4. backedUp => SavedAtStart /\ AsAtStart
      BY <1>1, <1>4, <2>3 DEF FilesInv, RestoredOK
    <2>5. RestoredOK'
      BY <1>1, <1>2, <1>4, <2>4 DEF RestoredOK, SavedAtStart, AsAtStart, Whole
    <2> QED
      BY <1>1, <1>4, <2>5, NoCheck, NoBackup DEF FilesInv
  <1> QED
    BY <1>3, <1>4 DEF RollbackBase, Bases, Then, command

LEMMA UndoFiles ==
  ASSUME TypeInv, UndoOK, FilesInv, phase = "undo",
         RollbackExtension \/ MigrationRemoveService \/ ReaddService \/ syncProducts
         \/ SetReleaseVersion
  PROVE  FilesInv'
  <1>1. /\ result = "running" /\ todo # <<>> /\ Head(todo).op \notin {"base", "restore"}
        /\ Head(todo).op = "downgrade" => On \in Product
        /\ act \subseteq Product
        /\ ToSet(todo) = {Head(todo)} \cup ToSet(Tail(todo)) /\ Tail(todo) \in Seq(Steps(Allowed))
    BY AtStep, HeadStep DEF RollbackExtension, MigrationRemoveService, ReaddService,
       syncProducts, SetReleaseVersion, OnOne, TypeInv, DataOK, ControlOK
  <1>2. /\ UNCHANGED <<backup, backedUp, repos, listed>>
        /\ \E steps \in Seq(Steps(RollbackOps)) : Then(steps)
    <2>1. CASE RollbackExtension
      <3>1. Refresh(On) \in Seq(Steps(RollbackOps))
        BY <1>1, <2>1, RefreshOK DEF RollbackExtension, At
      <3> QED
        BY <2>1, <3>1 DEF RollbackExtension, Downgrade, local, saved, notes
    <2>2. CASE syncProducts
      <3>1. Just("releasever") \in Seq(Steps(RollbackOps))
        BY DoOK DEF RollbackOps, OnOne
      <3> QED
        BY <2>2, <3>1 DEF syncProducts, local, saved, notes
    <2>3. CASE MigrationRemoveService \/ ReaddService \/ SetReleaseVersion
      BY <2>3, NoSteps DEF MigrationRemoveService, ReaddService, SetReleaseVersion, local, saved, notes
    <2> QED
      BY <2>1, <2>2, <2>3
  <1>3. PICK steps \in Seq(Steps(RollbackOps)) : Then(steps)
    BY <1>2
  <1>4. /\ ToSet(todo') = ToSet(steps) \cup ToSet(Tail(todo))
        /\ UNCHANGED <<environ, start, phase, result>>
    <2>1. steps \in Seq(Steps(RollbackOps \cup Allowed)) /\ Tail(todo) \in Seq(Steps(RollbackOps \cup Allowed))
      BY <1>1, <1>3, MoreSteps
    <2> QED
      BY <1>3, <2>1, ToSetOfJoin DEF Then, command
  <1>5. \A op \in {"base", "restore"} : Of(op, None) \in ToSet(todo) => Of(op, None) \in ToSet(todo')
    BY <1>1, <1>4 DEF Of
  <1>6. /\ Of("restore", None) \in ToSet(todo) => (Of("restore", None) \in ToSet(todo))'
        /\ Of("base", None) \in ToSet(todo) => (Of("base", None) \in ToSet(todo))'
    BY <1>5 DEF Of, ToSet
  <1>7. RestoredOK'
    BY <1>1, <1>2, <1>4, <1>6 DEF FilesInv, RestoredOK, SavedAtStart, AsAtStart, Whole
  <1> QED
    BY <1>1, <1>4, <1>7, NoCheck, NoBackup DEF FilesInv

\* The end of a command, and what happens around it.
LEMMA EndingFiles ==
  ASSUME TypeInv, FilesInv, Finish \/ Fail \/ Kill
  PROVE  FilesInv'
  <1>1. CASE Fail
    <2>1. todo # <<>> /\ Error /\ UNCHANGED <<backup, backedUp>>
      BY <1>1 DEF Fail, saved, notes
    <2> QED
      BY <2>1, ErrorFiles
  <1>2. CASE Kill
    BY <1>2, EndFiles DEF Kill, Exit
  <1>3. CASE Finish
    <2> DEFINE r == IF phase = "undo" /\ cmd = "migration" THEN "rolledBack" ELSE "ok"
    <2>1. /\ result = "running" /\ todo = <<>> /\ result' = r
          /\ UNCHANGED <<start, repos, listed, backedUp>>
      BY <1>3 DEF Finish, Exit, local, notes
    <2>2. ToSet(todo) = {}
      BY <2>1, ToSetOfOne
    <2>3. phase = "undo" /\ backedUp => AsAtStart
      BY <2>1, <2>2 DEF FilesInv, RestoredOK
    <2>4. RestoredOK'
      BY <2>1, <2>3 DEF RestoredOK, AsAtStart, Whole
    <2> QED
      BY <2>1, <2>4, NoCheck, NoBackup DEF FilesInv
  <1> QED
    BY <1>1, <1>2, <1>3

LEMMA QuietFiles ==
  ASSUME FilesInv, UNCHANGED <<act, repos, listed, packages, backup, backedUp, environ, start,
                               phase, todo, result>>
  PROVE  FilesInv'
  <1>1. CheckOK'
    <2>1. (todo \in Lookups)' = (todo \in Lookups)
      BY DEF Lookups, Checking, Refreshing, Patching, Of
    <2> QED
      BY <2>1 DEF FilesInv, CheckOK, AsAtStart, Whole, ToSet
  <1>2. BackupOK'
    BY DEF FilesInv, BackupOK, BackingUp, AsAtStart, Whole, ToSet
  <1>3. RestoredOK'
    BY DEF FilesInv, RestoredOK, SavedAtStart, AsAtStart, Whole, Of, ToSet
  <1> QED
    BY <1>1, <1>2, <1>3 DEF FilesInv

LEMMA StartFiles ==
  ASSUME NEW f, Start("migration", f) \/ Start("rollback", {})
  PROVE  FilesInv'
  <1>1. /\ backedUp' = FALSE /\ result' = "running"
        /\ start' = [repos |-> repos, listed |-> listed, packages |-> packages, act |-> act]
        /\ UNCHANGED <<act, repos, listed, packages>>
    BY DEF Start, Fresh, server, local
  <1>2. CASE Start("rollback", {})
    <2>1. phase' = "undo"
      BY <1>2 DEF Start
    <2>2. RestoredOK'
      BY <1>1 DEF RestoredOK
    <2> QED
      BY <1>1, <2>1, <2>2, NoCheck, NoBackup DEF FilesInv
  <1>3. CASE Start("migration", f)
    <2>1. phase' = "check" /\ todo' \in Lookups
      BY <1>3, BeginLookup DEF Start
    <2>2. (todo \in Lookups)' /\ \A s \in ToSet(todo') : s.op # "release"
      <3>1. (todo \in Lookups)'
        BY <2>1 DEF Lookups, Checking, Refreshing, Patching, Of
      <3> QED
        BY <2>1, <3>1, LookupSteps DEF Early
    <2>3. AsAtStart' /\ act' = start'.act /\ packages' = start'.packages
      BY <1>1 DEF AsAtStart
    <2>4. CheckOK'
      BY <1>1, <2>2, <2>3 DEF CheckOK, ToSet
    <2> QED
      BY <1>1, <2>1, <2>4, LookupFiles
  <1> QED
    BY <1>2, <1>3

LEMMA RefreshReposFiles ==
  ASSUME TypeInv, FilesInv, RefreshRepos
  PROVE  FilesInv'
  <1>1. /\ phase \in {"check", "apply"} /\ result = "running" /\ todo # <<>> /\ Head(todo).op = "refresh"
        /\ Head(todo) \in ToSet(todo)
    BY AtStep, HeadStep DEF RefreshRepos, Allowed, UndoOps, RollbackOps, LastOps, TypeInv, ControlOK
  <1>2. CASE phase = "apply"
    BY <1>2, ApplyFiles
  <1>3. CASE phase = "check"
    <2>1. todo \in Lookups /\ act = start.act
      BY <1>1, <1>3 DEF FilesInv, CheckOK, Early
    <2>2. Tail(todo) = Checking
      BY <1>1, <2>1, LookupSteps
    <2>3. /\ UNCHANGED <<act, repos, listed, packages, backedUp, start, phase, result>>
          /\ todo' = Checking
      BY <2>2, PatchLookup DEF RefreshRepos, server, local, notes, Then, command
    <2>4. (todo \in Lookups)' /\ \A s \in ToSet(todo') : s.op # "release"
      <3>1. Checking \in Lookups
        BY DEF Lookups
      <3>2. (todo \in Lookups)'
        BY <2>3, <3>1 DEF Lookups, Checking, Refreshing, Patching, Of
      <3> QED
        BY <2>3, <3>1, <3>2, LookupSteps DEF Early
    <2>5. CheckOK'
      BY <1>1, <1>3, <2>1, <2>3, <2>4 DEF FilesInv, CheckOK, AsAtStart, Whole, ToSet
    <2> QED
      BY <1>1, <1>3, <2>3, <2>5, LookupFiles
  <1> QED
    BY <1>1, <1>2, <1>3

LEMMA NextFiles ==
  ASSUME TypeInv, UndoOK, FilesInv, [Next]_vars
  PROVE  FilesInv'
  <1>1. CASE RollbackBase \/ RollbackExtension \/ MigrationRemoveService \/ ReaddService
             \/ syncProducts \/ SetReleaseVersion
    <2>1. /\ phase \in {"check", "undo"} \/ MigrationRemoveService
          /\ phase \in {"check", "apply", "undo", "last"}
      BY <1>1, AtStep, Phases DEF RollbackBase, RollbackExtension, MigrationRemoveService,
         ReaddService, syncProducts, SetReleaseVersion
    <2>2. MigrationRemoveService => phase # "last"
      BY AtStep DEF MigrationRemoveService, Allowed, LastOps
    <2>3. CASE phase = "check"
      BY <1>1, <2>3, CheckRollbackFiles
    <2>4. CASE phase = "undo"
      BY <1>1, <2>4, UndoBaseFiles, UndoFiles
    <2>5. CASE phase = "apply" /\ MigrationRemoveService
      BY <2>5, ApplyFiles
    <2> QED
      BY <2>1, <2>2, <2>3, <2>4, <2>5
  <1>2. CASE checkInterrupted \/ disableAllRepos \/ InstalledServices \/ UpgradeProduct
             \/ cleanupProductRepos \/ MigrationAddService \/ dropUnmigrated
    <2>1. phase = "apply"
      BY <1>2, Phases DEF checkInterrupted, disableAllRepos, InstalledServices, UpgradeProduct,
         cleanupProductRepos, MigrationAddService, dropUnmigrated
    <2> QED
      BY <1>2, <2>1, ApplyFiles
  <1>3. ASSUME Step PROVE FilesInv'
    BY <1>1, <1>2, <1>3, PatchFiles, RefreshReposFiles, checkFiles, InstallFiles, checkedFiles,
       SelectFiles, PreSnapshotFiles, BackupFiles, upgradePackagesFiles, RestoreFiles,
       EndingFiles DEF Step
  <1>4. CASE Signal \/ Publish \/ UNCHANGED vars
    <2>1. /\ UNCHANGED <<act, repos, listed, packages, backup, backedUp>>
          /\ UNCHANGED <<environ, start, phase, todo, result>>
      BY <1>4 DEF Signal, Publish, vars, server, local, saved, notes, command
    <2> QED
      BY <2>1, QuietFiles
  <1>5. CASE BootSnapshot
    BY <1>5, EndFiles DEF BootSnapshot
  <1> QED
    BY <1>3, <1>4, <1>5, EndingFiles, StartFiles DEF Next

LEMMA InitFiles ==
  Init => FilesInv
  BY DEF Init, FilesInv, CheckOK, BackupOK, RestoredOK

\* What holds of every state of a migration.
MigrationInv == TypeInv /\ PathInv /\ BaseOK /\ UndoOK /\ FilesInv
LEMMA InvariantHolds == Spec => []MigrationInv
  <1>1. Init => MigrationInv
    BY InitType, InitPath, InitBase, InitUndo, InitFiles DEF MigrationInv
  <1>2. MigrationInv /\ [Next]_vars => MigrationInv'
    BY NextType, NextPath, NextBase, NextUndo, NextFiles DEF MigrationInv
  <1> QED
    BY <1>1, <1>2, PTL DEF Spec

\* A failed migration that was rolled back leaves the user's repositories as they were
\* when it started, if the backup was made (Backup, Restore).
ReposRestored == result = "rolledBack" /\ backedUp => repos = start.repos
THEOREM RestoresRepos == Spec => []ReposRestored
  <1>1. MigrationInv => ReposRestored
    BY DEF MigrationInv, FilesInv, RestoredOK, AsAtStart, ReposRestored
  <1> QED
    BY <1>1, InvariantHolds, PTL

\* On a synchronised system whose products are those of one base product's tree, with
\* their release packages, it also leaves the products zypper lists and the activations
\* as they were, whatever failed and whatever the server moved (Backup, Restore,
\* Rollback, syncProducts).
THEOREM RestoresSystem == Spec => [](Registered => RollbackRestores)
  <1>1. ASSUME MigrationInv, Registered, result = "rolledBack", backedUp, start.act = start.listed
        PROVE  act = start.act /\ listed = start.listed
    <2>1. listed = start.listed
      BY <1>1 DEF MigrationInv, FilesInv, RestoredOK, AsAtStart, Whole, Registered
    <2>2. PICK b \in Bases(start.listed) : start.listed \subseteq {b} \cup Extension(b)
      BY <1>1 DEF Registered
    <2>3. RollbackSyncs
      BY <1>1, UndoImplies DEF MigrationInv
    <2>4. act \subseteq listed /\ listed \cap ({b} \cup ToSet(Tree[b])) \subseteq act
      BY <1>1, <2>1, <2>2, <2>3 DEF RollbackSyncs
    <2>5. listed \subseteq act
      BY <2>1, <2>2, <2>4 DEF Extension
    <2> QED
      BY <1>1, <2>1, <2>4, <2>5
  <1>2. MigrationInv => ReposRestored
    BY DEF MigrationInv, FilesInv, RestoredOK, AsAtStart, ReposRestored
  <1>3. MigrationInv => (Registered => RollbackRestores)
    BY <1>1, <1>2 DEF RollbackRestores, ReposRestored
  <1> QED
    BY <1>3, InvariantHolds, PTL
-----------------------------------------------------------------------------
(* What a migration leaves behind that succeeds: the services.              *)
Adding(p)   == Of("add", p)
Removing(p) == Of("remove", p)
Listing     == Of("listServices", None)
Dropping    == Of("dropUnmigrated", None)
\* The services are listed before the first of them is touched, and only once.
Waits         == {"interruptible", "disableAll"}
ListsFirst(t) == \A y \in ToSet(t) : y.op \notin Waits => Closes(y, {Listing}, t)
\* Each product of the path has its service, or is to get it, unless it was listed; each
\* other service of the server is to be removed.
Served(p) == \/ p \in services \/ Adding(p) \in ToSet(todo)
             \/ p \in known /\ Listing \notin ToSet(todo)
Leaves(x) == Removing(x) \in ToSet(todo) \/ (x \in known \ migrated /\ Dropping \in ToSet(todo))
Others    == services \ (Foreign \cup Plugins \cup InPath)
MovingOK ==
    /\ ListsFirst(todo)
    /\ \A s \in ToSet(todo) : s.op = "add" => s.on \in InPath
    /\ \A s \in ToSet(todo) : s.op = "remove" /\ s.on \in InPath =>
            s.on \in known /\ Listing \notin ToSet(todo)
    /\ Listing \in ToSet(todo) => migrated = {} /\ Dropping \in ToSet(todo)
    /\ BackingUp \notin ToSet(todo) =>
        /\ \A p \in InPath : Served(p)
        /\ Listing \notin ToSet(todo) /\ known # {} => \A x \in Others : Leaves(x)
    /\ migrated \cap InPath = {}
    /\ BackingUp \in ToSet(todo) => migrated = {}
ServicesMoved ==
    /\ InPath \ services \subseteq known /\ migrated \cap InPath = {}
    /\ known # {} => Others = {}
ServicesOK ==
    /\ result = "running" /\ phase = "check" => migrated = {}
    /\ result = "running" /\ phase = "apply" => MovingOK
    /\ result \in {"running", "ok"} /\ phase = "last" => ServicesMoved
    /\ result = "ok" /\ path # <<>> => phase = "last"

\* The order of the steps.
LEMMA NotListed ==
  ASSUME NEW S, NEW t \in Seq(S), Listing \notin ToSet(t)
  PROVE  ListsFirst(t)
  <1>1. ToSet(t) \cap {Listing} = {}
    OBVIOUS
  <1> QED
    BY <1>1, ClosesNone DEF ListsFirst

LEMMA FirstJoin ==
  ASSUME NEW S, NEW s \in Seq(S), NEW t \in Seq(S), ListsFirst(s), Listing \notin ToSet(t)
  PROVE  ListsFirst(s \o t)
  <1>1. ToSet(t) \cap {Listing} = {}
    OBVIOUS
  <1>2. ASSUME NEW y, y.op \notin Waits PROVE Closes(y, {Listing}, s \o t)
    <2>1. Closes(y, {Listing}, t)
      BY <1>1, ClosesNone
    <2>2. Closes(y, {Listing}, s)
      BY <1>2, ClosesNone DEF ListsFirst
    <2> QED
      BY <1>1, <2>1, <2>2, ClosesJoin
  <1> QED
    BY <1>2 DEF ListsFirst

\* The first steps, and the listing behind them.
LEMMA FirstListing ==
  ASSUME NEW S, NEW s \in Seq(S), NEW t \in Seq(S), \A y \in ToSet(s) : y.op \in Waits,
         t = <<Listing>>
  PROVE  ListsFirst(s \o t)
  <1>1. ToSet(t) = {Listing} /\ Listing.op \notin Waits
    BY ToSetOfOne DEF Listing, Of, Waits
  <1>2. ASSUME NEW y, y.op \notin Waits PROVE Closes(y, {Listing}, s \o t)
    <2>1. y \notin ToSet(s)
      BY <1>2
    <2>2. Closes(y, {Listing}, s)
      BY <2>1, ClosesNone
    <2>3. Closes(y, {Listing}, t)
      BY DEF Closes
    <2> QED
      BY <2>1, <2>2, <2>3, ClosesJoin
  <1> QED
    BY <1>2 DEF ListsFirst

LEMMA FirstTail ==
  ASSUME NEW S, NEW t \in Seq(S), t # <<>>, ListsFirst(t)
  PROVE  /\ ListsFirst(Tail(t))
         /\ Head(t).op \notin Waits => Listing \notin ToSet(Tail(t))
  <1>1. ToSet(t) = {Head(t)} \cup ToSet(Tail(t)) /\ Tail(t) \in Seq(S)
    BY ToSetOfTail, HeadAndTail
  <1>2. ASSUME NEW y \in ToSet(t), y.op \notin Waits
        PROVE  Closes(y, {Listing}, Tail(t)) /\ (Head(t) = y => Listing \notin ToSet(Tail(t)))
    <2>1. Closes(y, {Listing}, t)
      BY <1>2 DEF ListsFirst
    <2>2. Closes(y, {Listing}, Tail(t)) /\ (Head(t) = y => ToSet(Tail(t)) \cap {Listing} = {})
      BY <2>1, ClosesTail
    <2> QED
      BY <2>2
  <1> QED
    BY <1>1, <1>2 DEF ListsFirst

LEMMA applyMigrationServices ==
  ASSUME NEW m \in Seq(Product)
  PROVE  /\ ListsFirst(applyMigration(m))
         /\ {Listing, Dropping} \subseteq ToSet(applyMigration(m))
         /\ \A p \in ToSet(m) : Adding(p) \in ToSet(applyMigration(m))
         /\ \A s \in ToSet(applyMigration(m)) : s.op = "add" => s.on \in ToSet(m)
         /\ \A s \in ToSet(applyMigration(m)) : s.op \notin {"remove", "preSnapshot"}
         /\ \A s \in ToSet(applyMigration(m)) :
               /\ s.op = "cleanupRepos" => s.on \in ToSet(m)
               /\ s.op = "disableAll" => "Leap" \in NamesIn(products)
         /\ \A x, Y : x.op = "upgrade" /\ Behind(x, Y, FlattenSeq([i \in DOMAIN m |-> MigrateProduct(m[i])]))
                        => Behind(x, Y, applyMigration(m))
  <1> DEFINE all == IF "Leap" \in NamesIn(products) /\ "SLES" \in NamesIn({m[i] : i \in DOMAIN m})
                    THEN Just("disableAll") ELSE <<>>
             ss  == [i \in DOMAIN m |-> MigrateProduct(m[i])]
             O  == ApplyOps
             a1 == Just("interruptible") \o all
             a2 == a1 \o Just("listServices")
             a3 == a2 \o FlattenSeq(ss)
             a4 == a3 \o Just("dropUnmigrated")
             a5 == a4 \o Just("refresh")
             a6 == a5 \o Just("interruptible")
             a7 == a6 \o Just("dist-upgrade")
             B  == Steps(O)
  <1>1. /\ Just("interruptible") \in Seq(B) /\ Just("listServices") \in Seq(B)
        /\ Just("disableAll") \in Seq(B) /\ Just("dropUnmigrated") \in Seq(B)
        /\ Just("refresh") \in Seq(B) /\ Just("dist-upgrade") \in Seq(B)
    BY DoOK DEF ApplyOps, OnOne
  <1>2. /\ all \in Seq(B) /\ ToSet(all) \subseteq {Of("disableAll", None)}
        /\ ToSet(all) # {} => "Leap" \in NamesIn(products)
    <2>1. ToSet(Just("disableAll")) = {Of("disableAll", None)} /\ ToSet(<<>>) = {}
      BY DoElements, ToSetOfOne DEF Of
    <2> QED
      BY <1>1, <2>1, NoSteps
  <1> HIDE DEF all
  <1>3. Len(m) \in Nat /\ DOMAIN m = 1..Len(m) /\ \A i \in 1..Len(m) : m[i] \in Product
    OBVIOUS
  <1>4. ss \in Seq(Seq(Steps(Inner))) /\ Len(ss) = Len(m) /\ \A i \in 1..Len(m) : ss[i] = MigrateProduct(m[i])
    <2>1. ss \in [1..Len(m) -> Seq(Steps(Inner))]
      BY <1>3, MigrateProductOK
    <2> QED
      BY <1>3, <2>1
  <1> HIDE DEF ss
  <1>5. /\ FlattenSeq(ss) \in Seq(Steps(Inner))
        /\ ToSet(FlattenSeq(ss)) = UNION {ToSet(MigrateProduct(m[i])) : i \in 1..Len(m)}
    BY <1>4, FlattenOK
  <1>6. ToSet(m) = {m[i] : i \in 1..Len(m)}
    BY <1>3 DEF ToSet
  <1>7. \A i \in 1..Len(m) : ToSet(MigrateProduct(m[i])) =
            {Of("upgrade", m[i]), Of("cleanupRepos", m[i]), Adding(m[i]), Of("interruptible", None)}
    BY <1>3, MigrateProductOK DEF Of, Adding
  <1> DEFINE T == ToSet(FlattenSeq(ss))
  <1>8. /\ \A p \in ToSet(m) : Adding(p) \in T
        /\ \A s \in T : s.op \in {"add", "cleanupRepos"} => s.on \in ToSet(m)
        /\ \A s \in T : s.op \in {"upgrade", "cleanupRepos", "add", "interruptible"}
    <2>1. \A p \in ToSet(m) : Adding(p) \in T
      BY <1>5, <1>6, <1>7
    <2>2. ASSUME NEW s \in T
          PROVE  /\ s.op \in {"add", "cleanupRepos"} => s.on \in ToSet(m)
                 /\ s.op \in {"upgrade", "cleanupRepos", "add", "interruptible"}
      <3>1. PICK i \in 1..Len(m) : s \in ToSet(MigrateProduct(m[i]))
        BY <1>5
      <3> QED
        BY <1>6, <1>7, <3>1 DEF Of, Adding
    <2> QED
      BY <2>1, <2>2
  <1>9. FlattenSeq(ss) \in Seq(B)
    BY <1>5, InnerOps, MoreSteps
  <1>10. /\ ToSet(Just("interruptible")) = {Of("interruptible", None)}
         /\ ToSet(Just("listServices")) = {Listing} /\ Just("listServices") = <<Listing>>
         /\ ToSet(Just("dropUnmigrated")) = {Dropping}
         /\ ToSet(Just("refresh")) = {Of("refresh", None)}
         /\ ToSet(Just("dist-upgrade")) = {Of("dist-upgrade", None)}
    BY DoElements DEF Of, Listing, Dropping, Just, Do
  <1> HIDE DEF B, T, O
  <1>11. a1 \in Seq(B) /\ ToSet(a1) = {Of("interruptible", None)} \cup ToSet(all)
    BY <1>1, <1>2, <1>10, ToSetOfJoin
  <1>12. \A y \in ToSet(a1) : y.op \in Waits
    BY <1>2, <1>11 DEF Waits, Of
  <1> HIDE DEF a1
  <1>13. a2 \in Seq(B) /\ ToSet(a2) = ToSet(a1) \cup {Listing} /\ ListsFirst(a2)
    BY <1>1, <1>10, <1>11, <1>12, ToSetOfJoin, FirstListing
  <1> HIDE DEF a2
  <1>14. Listing \notin T
    BY <1>8 DEF Listing, Of
  <1>15. a3 \in Seq(B) /\ ToSet(a3) = ToSet(a2) \cup T /\ ListsFirst(a3)
    BY <1>9, <1>13, <1>14, ToSetOfJoin, FirstJoin DEF T
  <1> HIDE DEF a3
  <1>16. /\ Listing # Dropping /\ Listing # Of("refresh", None)
         /\ Listing # Of("interruptible", None) /\ Listing # Of("dist-upgrade", None)
    BY DEF Listing, Dropping, Of
  <1>17. a4 \in Seq(B) /\ ToSet(a4) = ToSet(a3) \cup {Dropping} /\ ListsFirst(a4)
    BY <1>1, <1>10, <1>15, <1>16, ToSetOfJoin, FirstJoin
  <1> HIDE DEF a4
  <1>18. a5 \in Seq(B) /\ ToSet(a5) = ToSet(a4) \cup {Of("refresh", None)} /\ ListsFirst(a5)
    BY <1>1, <1>10, <1>16, <1>17, ToSetOfJoin, FirstJoin
  <1> HIDE DEF a5
  <1>19. a6 \in Seq(B) /\ ToSet(a6) = ToSet(a5) \cup {Of("interruptible", None)} /\ ListsFirst(a6)
    BY <1>1, <1>10, <1>16, <1>18, ToSetOfJoin, FirstJoin
  <1> HIDE DEF a6
  <1>20. a7 \in Seq(B) /\ ToSet(a7) = ToSet(a6) \cup {Of("dist-upgrade", None)} /\ ListsFirst(a7)
    BY <1>1, <1>10, <1>16, <1>19, ToSetOfJoin, FirstJoin
  <1>21. a7 = applyMigration(m)
    BY DEF applyMigration, a7, a6, a5, a4, a3, a2, a1, all, ss
  <1> HIDE DEF a7
  <1>22. ToSet(a7) = ToSet(a1) \cup {Listing, Dropping, Of("refresh", None), Of("interruptible", None),
                                     Of("dist-upgrade", None)} \cup T
    BY <1>13, <1>15, <1>17, <1>18, <1>19, <1>20
  <1>23. \A s \in ToSet(a7) \ T : s.op \notin {"add", "remove", "cleanupRepos", "preSnapshot"}
    BY <1>12, <1>22 DEF Waits, Listing, Dropping, Of
  <1>24. \A p \in ToSet(m) : Adding(p) \in ToSet(a7)
    BY <1>8, <1>22
  <1>25. \A s \in ToSet(a7) : (s.op = "add" => s.on \in ToSet(m)) /\ s.op \notin {"remove", "preSnapshot"}
    BY <1>8, <1>23
  <1>26. \A s \in ToSet(a7) : /\ s.op = "cleanupRepos" => s.on \in ToSet(m)
                              /\ s.op = "disableAll" => "Leap" \in NamesIn(products)
    <2>1. \A s \in ToSet(a7) : s.op = "cleanupRepos" => s.on \in ToSet(m)
      BY <1>8, <1>23
    <2>2. ASSUME NEW s \in ToSet(a7), s.op = "disableAll" PROVE "Leap" \in NamesIn(products)
      <3>1. s \notin T
        BY <1>8, <2>2
      <3>2. s \in ToSet(all)
        BY <1>11, <1>22, <2>2, <3>1 DEF Listing, Dropping, Of
      <3> QED
        BY <1>2, <3>2
    <2> QED
      BY <2>1, <2>2
  <1>27. ASSUME NEW x, NEW Y, x.op = "upgrade", Behind(x, Y, FlattenSeq(ss))
         PROVE  Behind(x, Y, a7)
    <2>1. /\ x \notin ToSet(a2) /\ x \notin ToSet(Just("dropUnmigrated")) /\ x \notin ToSet(Just("refresh"))
          /\ x \notin ToSet(Just("interruptible")) /\ x \notin ToSet(Just("dist-upgrade"))
      BY <1>10, <1>12, <1>13, <1>27 DEF Waits, Listing, Dropping, Of
    <2>2. Behind(x, Y, a3)
      BY <1>9, <1>13, <1>27, <2>1, BehindNone, BehindJoin DEF a3
    <2>3. Behind(x, Y, a4)
      BY <1>1, <1>15, <2>1, <2>2, BehindNone, BehindJoin DEF a4
    <2>4. Behind(x, Y, a5)
      BY <1>1, <1>17, <2>1, <2>3, BehindNone, BehindJoin DEF a5
    <2>5. Behind(x, Y, a6)
      BY <1>1, <1>18, <2>1, <2>4, BehindNone, BehindJoin DEF a6
    <2> QED
      BY <1>1, <1>19, <2>1, <2>5, BehindNone, BehindJoin DEF a7
  <1>28. \A x, Y : x.op = "upgrade" /\ Behind(x, Y, FlattenSeq([i \in DOMAIN m |-> MigrateProduct(m[i])]))
                    => Behind(x, Y, a7)
    BY <1>27 DEF ss
  <1>29. /\ ListsFirst(a7) /\ {Listing, Dropping} \subseteq ToSet(a7)
    BY <1>20, <1>22
  <1> QED
    BY <1>21, <1>24, <1>25, <1>26, <1>28, <1>29

\* What an action must leave for the services to be as they should.
LEMMA EndServices ==
  ASSUME result' \notin {"running", "ok"}
  PROVE  ServicesOK'
  BY DEF ServicesOK

LEMMA CheckServices ==
  ASSUME phase' = "check", result' = "running", migrated' = {}
  PROVE  ServicesOK'
  BY DEF ServicesOK

LEMMA UndoServices ==
  ASSUME phase' = "undo", result' = "running"
  PROVE  ServicesOK'
  BY DEF ServicesOK

LEMMA LastServices ==
  ASSUME ServicesOK, phase = "last", result = "running", phase' = "last",
         UNCHANGED <<services, known, migrated, path>>
  PROVE  ServicesOK'
  BY DEF ServicesOK, ServicesMoved, Others, InPath

\* A migration that is applied goes on: its steps are as before or as given.
LEMMA MovingServices ==
  ASSUME phase' = "apply", result' = "running", UNCHANGED path, NEW T, T = ToSet(todo'),
         ListsFirst(todo'),
         \A s \in T : s.op = "add" => s.on \in InPath,
         \A s \in T : s.op = "remove" /\ s.on \in InPath => s.on \in known' /\ Listing \notin T,
         Listing \in T => migrated' = {} /\ Dropping \in T,
         BackingUp \notin T => \A p \in InPath : \/ p \in services' \/ Adding(p) \in T
                                                 \/ p \in known' /\ Listing \notin T,
         BackingUp \notin T /\ Listing \notin T /\ known' # {} =>
             \A x \in services' \ (Foreign \cup Plugins \cup InPath) :
                 Removing(x) \in T \/ (x \in known' \ migrated' /\ Dropping \in T),
         migrated' \cap InPath = {},
         BackingUp \in T => migrated' = {}
  PROVE  ServicesOK'
  <1>1. ListsFirst(todo)'
    BY DEF ListsFirst, Closes, ToSet, Listing, Of
  <1>2. (InPath)' = InPath /\ \A x : (x \in ToSet(todo))' <=> x \in T
    BY DEF InPath, ToSet
  <1>3. ASSUME BackingUp \notin T, NEW p \in InPath PROVE Served(p)'
    BY <1>2, <1>3 DEF Served, Adding, Listing, Of
  <1>4. ASSUME BackingUp \notin T, Listing \notin T, known' # {}, NEW x \in (Others)' PROVE Leaves(x)'
    <2>1. x \in services' \ (Foreign \cup Plugins \cup InPath)
      BY <1>2, <1>4 DEF Others
    <2>2. Removing(x) \in T \/ (x \in known' \ migrated' /\ Dropping \in T)
      BY <1>4, <2>1
    <2> QED
      BY <1>2, <2>2 DEF Leaves, Removing, Dropping, Of
  <1>5. /\ (BackingUp \in ToSet(todo))' <=> BackingUp \in T
        /\ (Listing \in ToSet(todo))' <=> Listing \in T
        /\ (Dropping \in ToSet(todo))' <=> Dropping \in T
    BY <1>2 DEF BackingUp, Listing, Dropping, Of
  <1>6. (BackingUp \notin ToSet(todo) => \A p \in InPath : Served(p))'
    BY <1>2, <1>3, <1>5
  <1>7. (BackingUp \notin ToSet(todo) /\ Listing \notin ToSet(todo) /\ known # {} => \A x \in Others : Leaves(x))'
    BY <1>4, <1>5
  <1>8. MovingOK'
    BY <1>1, <1>2, <1>5, <1>6, <1>7 DEF MovingOK
  <1> QED
    BY <1>8 DEF ServicesOK

LEMMA ApplyParts ==
  ASSUME TypeInv, phase = "apply", todo # <<>>, NEW O, NEW steps \in Seq(Steps(O)), Then(steps)
  PROVE  /\ ToSet(todo) = {Head(todo)} \cup ToSet(Tail(todo)) /\ Head(todo) \in Steps(ApplyOps)
         /\ todo \in Seq(Steps(ApplyOps)) /\ Tail(todo) \in Seq(Steps(ApplyOps))
         /\ todo' = steps \o Tail(todo) /\ ToSet(todo') = ToSet(steps) \cup ToSet(Tail(todo))
         /\ todo' \in Seq(Steps(O \cup ApplyOps))
         /\ result = "running" /\ result' = "running" /\ phase' = "apply"
  <1>1. /\ ToSet(todo) = {Head(todo)} \cup ToSet(Tail(todo)) /\ Tail(todo) \in Seq(Steps(Allowed))
        /\ Head(todo) \in Steps(Allowed) /\ todo \in Seq(Steps(Allowed)) /\ result = "running"
    BY HeadStep DEF TypeInv, ControlOK, TodoOK
  <1>2. Allowed = ApplyOps
    BY DEF Allowed
  <1>3. steps \in Seq(Steps(O \cup ApplyOps)) /\ Tail(todo) \in Seq(Steps(O \cup ApplyOps))
    BY <1>1, <1>2, MoreSteps
  <1>4. todo' = steps \o Tail(todo) /\ UNCHANGED <<result, phase>>
    BY DEF Then, command
  <1>5. ToSet(todo') = ToSet(steps) \cup ToSet(Tail(todo)) /\ todo' \in Seq(Steps(O \cup ApplyOps))
    BY <1>3, <1>4, ToSetOfJoin
  <1> QED
    BY <1>1, <1>2, <1>4, <1>5

\* A step that touches no service.
LEMMA ThenServices ==
  ASSUME TypeInv, ServicesOK, phase = "apply", todo # <<>>, Then(<<>>),
         Head(todo).op \notin {"backup", "listServices", "upgrade", "remove", "add", "dropUnmigrated"},
         UNCHANGED <<services, known, migrated, path>>
  PROVE  ServicesOK'
  <1>1. /\ ToSet(todo) = {Head(todo)} \cup ToSet(Tail(todo))
        /\ todo \in Seq(Steps(ApplyOps)) /\ todo' = <<>> \o Tail(todo)
        /\ result = "running" /\ result' = "running" /\ phase' = "apply"
        /\ Tail(todo) \in Seq(Steps(ApplyOps))
    BY NoSteps, ApplyParts
  <1>2. todo' = Tail(todo)
    BY <1>1
  <1>3. MovingOK
    BY <1>1 DEF ServicesOK
  <1>4. ListsFirst(todo')
    BY <1>1, <1>2, <1>3, FirstTail DEF MovingOK
  <1>5. \A p : Head(todo) \notin {Adding(p), Removing(p), Listing, Dropping, BackingUp}
    BY DEF Adding, Removing, Listing, Dropping, BackingUp, Of
  <1> DEFINE T == ToSet(todo')
  <1>6. T \subseteq ToSet(todo) /\ \A p : /\ Adding(p) \in ToSet(todo) => Adding(p) \in T
                                          /\ Removing(p) \in ToSet(todo) => Removing(p) \in T
    BY <1>1, <1>2, <1>5
  <1>7. /\ Listing \in ToSet(todo) <=> Listing \in T
        /\ Dropping \in ToSet(todo) <=> Dropping \in T
        /\ BackingUp \in ToSet(todo) <=> BackingUp \in T
    BY <1>1, <1>2, <1>5
  <1> HIDE DEF T
  <1>8. BackingUp \notin T => \A p \in InPath : \/ p \in services \/ Adding(p) \in T
                                                \/ p \in known /\ Listing \notin T
    BY <1>3, <1>6, <1>7 DEF MovingOK, Served
  <1>9. BackingUp \notin T /\ Listing \notin T /\ known # {} =>
            \A x \in services \ (Foreign \cup Plugins \cup InPath) :
                Removing(x) \in T \/ (x \in known \ migrated /\ Dropping \in T)
    BY <1>3, <1>6, <1>7 DEF MovingOK, Others, Leaves
  <1>10. /\ \A s \in T : s.op = "add" => s.on \in InPath
         /\ \A s \in T : s.op = "remove" /\ s.on \in InPath => s.on \in known /\ Listing \notin T
         /\ Listing \in T => migrated = {} /\ Dropping \in T
         /\ migrated \cap InPath = {} /\ (BackingUp \in T => migrated = {})
    BY <1>3, <1>6, <1>7 DEF MovingOK
  <1> QED
    BY <1>1, <1>4, <1>8, <1>9, <1>10, MovingServices DEF T

LEMMA BackupServices ==
  ASSUME TypeInv, ServicesOK, Backup
  PROVE  ServicesOK'
  <1>1. /\ phase = "apply" /\ result = "running" /\ todo # <<>> /\ Head(todo).op = "backup"
        /\ Head(todo) \in ToSet(todo) /\ Head(todo) \in Steps(Allowed)
        /\ EndsInFinal(todo) /\ todo \in Seq(Steps(Allowed)) /\ path \in Seq(Product)
    BY AtStep, Phases, HeadStep DEF Backup, TypeInv, ControlOK, TodoOK, DataOK, NotesOK
  <1>2. Head(todo) = BackingUp
    BY <1>1 DEF Steps, BackingUp, OnOne
  <1>3. migrated = {}
    BY <1>1, <1>2 DEF ServicesOK, MovingOK
  <1>4. /\ UNCHANGED <<services, known, migrated, path, phase, result>> /\ Then(applyMigration(path))
    BY DEF Backup, local, Then, command
  <1>5. Tail(todo) = <<>>
    BY <1>1, FinalAlone DEF Final, EndsInFinal
  <1>6. todo' = applyMigration(path)
    <2>1. applyMigration(path) \in Seq(Steps(ApplyOps))
      BY <1>1, applyMigrationOK
    <2>2. applyMigration(path) \o <<>> = applyMigration(path)
      BY <2>1
    <2> QED
      BY <1>4, <1>5, <2>2 DEF Then
  <1>7. InPath = ToSet(path)
    BY DEF InPath, ToSet
  <1>8. \A s \in ToSet(todo') : s.op # "backup"
    BY <1>1, <1>6, applyMigrationOK
  <1>9. /\ ListsFirst(todo') /\ {Listing, Dropping} \subseteq ToSet(todo')
        /\ \A p \in InPath : Adding(p) \in ToSet(todo')
        /\ \A s \in ToSet(todo') : (s.op = "add" => s.on \in InPath) /\ s.op # "remove"
    BY <1>1, <1>6, <1>7, applyMigrationServices
  <1> QED
    BY <1>1, <1>3, <1>4, <1>8, <1>9, MovingServices

\* What holds of an action of the migration that is not its backup.
LEMMA LaterParts ==
  ASSUME TypeInv, FilesInv, ServicesOK, phase = "apply", todo # <<>>,
         Head(todo).op \notin Waits \cup {"preSnapshot", "backup", "refresh"},
         NEW O, "listServices" \notin O, "backup" \notin O, NEW steps \in Seq(Steps(O)), Then(steps)
  PROVE  /\ MovingOK /\ ListsFirst(todo')
         /\ BackingUp \notin ToSet(todo) /\ BackingUp \notin ToSet(todo')
         /\ Listing \notin ToSet(todo')
         /\ ToSet(todo) = {Head(todo)} \cup ToSet(Tail(todo)) /\ Head(todo) \in Steps(ApplyOps)
         /\ ToSet(todo') = ToSet(steps) \cup ToSet(Tail(todo))
         /\ result' = "running" /\ phase' = "apply"
  <1>1. /\ ToSet(todo) = {Head(todo)} \cup ToSet(Tail(todo)) /\ Head(todo) \in Steps(ApplyOps)
        /\ todo \in Seq(Steps(ApplyOps))
        /\ ToSet(todo') = ToSet(steps) \cup ToSet(Tail(todo))
        /\ todo' \in Seq(Steps(O \cup ApplyOps))
        /\ result = "running" /\ result' = "running" /\ phase' = "apply"
    BY ApplyParts
  <1>2. MovingOK /\ BackingUp \notin ToSet(todo)
    BY <1>1 DEF ServicesOK, FilesInv, BackupOK
  <1>3. Listing \notin ToSet(Tail(todo))
    BY <1>1, <1>2, FirstTail DEF MovingOK
  <1>4. BackingUp \notin ToSet(steps) /\ Listing \notin ToSet(steps)
    BY StepsElements DEF BackingUp, Listing, Of
  <1>5. Listing \notin ToSet(todo') /\ BackingUp \notin ToSet(todo')
    BY <1>1, <1>2, <1>3, <1>4
  <1>6. ListsFirst(todo')
    BY <1>1, <1>5, NotListed
  <1> QED
    BY <1>1, <1>2, <1>5, <1>6

\* The step that is done, by its kind.
LEMMA StepIs ==
  ASSUME NEW O, NEW s \in Steps(O)
  PROVE  s.op \notin OnOne => s = Of(s.op, None)
  BY DEF Steps, Of
LEMMA StepOn ==
  ASSUME NEW O, NEW s \in Steps(O), s.op \in OnOne
  PROVE  s = Of(s.op, s.on)
  BY DEF Steps, Of

LEMMA InstalledServicesServices ==
  ASSUME TypeInv, FilesInv, ServicesOK, InstalledServices
  PROVE  ServicesOK'
  <1>1. /\ phase = "apply" /\ todo # <<>> /\ Head(todo).op = "listServices" /\ Then(<<>>)
        /\ <<>> \in Seq(Steps({}))
        /\ UNCHANGED <<services, migrated, path>> /\ known' \in {services, {}}
    BY AtStep, Phases, NoSteps DEF InstalledServices, local
  <1>2. /\ MovingOK /\ ListsFirst(todo')
        /\ BackingUp \notin ToSet(todo) /\ BackingUp \notin ToSet(todo')
        /\ Listing \notin ToSet(todo')
        /\ ToSet(todo) = {Head(todo)} \cup ToSet(Tail(todo)) /\ Head(todo) \in Steps(ApplyOps)
        /\ ToSet(todo') = ToSet(<<>>) \cup ToSet(Tail(todo))
        /\ result' = "running" /\ phase' = "apply"
    BY <1>1, LaterParts DEF Waits
  <1>3. Head(todo) = Listing
    BY <1>1, <1>2, StepIs DEF Listing, OnOne
  <1> DEFINE T == ToSet(todo')
  <1>4. ToSet(todo) = {Listing} \cup T
    BY <1>2, <1>3, ToSetOfOne
  <1>5. \A p : Listing \notin {Adding(p), Removing(p), Dropping}
    BY DEF Listing, Adding, Removing, Dropping, Of
  <1> HIDE DEF T
  <1>6. /\ migrated = {} /\ Dropping \in T
        /\ \A s \in T : s.op = "add" => s.on \in InPath
        /\ \A s \in T : s.op = "remove" => s.on \notin InPath
    BY <1>2, <1>4, <1>5 DEF MovingOK
  <1>7. \A p \in InPath : p \in services \/ Adding(p) \in T
    BY <1>2, <1>4, <1>5 DEF MovingOK, Served
  <1>8. known' # {} => \A x \in services' \ (Foreign \cup Plugins \cup InPath) :
            x \in known' \ migrated' /\ Dropping \in T
    BY <1>1, <1>6
  <1> QED
    BY <1>1, <1>2, <1>6, <1>7, <1>8, MovingServices DEF T

LEMMA AddServices ==
  ASSUME TypeInv, FilesInv, ServicesOK, MigrationAddService
  PROVE  ServicesOK'
  <1>1. /\ phase = "apply" /\ todo # <<>> /\ Head(todo).op = "add" /\ result = "running"
        /\ <<>> \in Seq(Steps({}))
        /\ UNCHANGED <<known, migrated, path>>
        /\ Error \/ (Then(<<>>) /\ services' = services \cup {On})
    BY AtStep, Phases, NoSteps DEF MigrationAddService, notes
  <1>2. CASE Error
    BY <1>1, <1>2, UndoServices DEF Error
  <1>3. CASE Then(<<>>) /\ services' = services \cup {On}
    <2>2. /\ MovingOK /\ ListsFirst(todo')
          /\ BackingUp \notin ToSet(todo) /\ BackingUp \notin ToSet(todo')
          /\ Listing \notin ToSet(todo')
          /\ ToSet(todo) = {Head(todo)} \cup ToSet(Tail(todo)) /\ Head(todo) \in Steps(ApplyOps)
          /\ ToSet(todo') = ToSet(<<>>) \cup ToSet(Tail(todo))
          /\ result' = "running" /\ phase' = "apply"
      BY <1>1, <1>3, LaterParts DEF Waits
    <2>3. Head(todo) = Adding(On) /\ On \in InPath
      BY <1>1, <2>2, StepOn DEF Adding, OnOne, On, MovingOK
    <2> DEFINE T == ToSet(todo')
    <2>4. ToSet(todo) = {Adding(On)} \cup T
      BY <2>2, <2>3, ToSetOfOne
    <2>5. /\ \A p : Adding(On) \notin {Listing, Removing(p), Dropping}
          /\ \A p : Adding(p) = Adding(On) => p = On
      BY DEF Listing, Adding, Removing, Dropping, Of
    <2> HIDE DEF T
    <2>6. Listing \notin ToSet(todo)
      BY <2>2, <2>4, <2>5 DEF T
    <2>7. \A p \in InPath : p \in services' \/ Adding(p) \in T \/ p \in known
      BY <1>3, <2>2, <2>4, <2>5 DEF MovingOK, Served
    <2>8. known # {} => \A x \in services' \ (Foreign \cup Plugins \cup InPath) :
              Removing(x) \in T \/ (x \in known \ migrated /\ Dropping \in T)
      BY <1>3, <2>2, <2>3, <2>4, <2>5, <2>6 DEF MovingOK, Others, Leaves
    <2>9. /\ \A s \in T : s.op = "add" => s.on \in InPath
          /\ \A s \in T : s.op = "remove" /\ s.on \in InPath => s.on \in known
          /\ migrated \cap InPath = {}
      BY <2>2, <2>4 DEF MovingOK
    <2> QED
      BY <1>1, <2>2, <2>7, <2>8, <2>9, MovingServices DEF T
  <1> QED
    BY <1>1, <1>2, <1>3

LEMMA RemoveServices ==
  ASSUME TypeInv, FilesInv, ServicesOK, MigrationRemoveService, phase = "apply"
  PROVE  ServicesOK'
  <1>1. /\ todo # <<>> /\ Head(todo).op = "remove" /\ Then(<<>>) /\ <<>> \in Seq(Steps({}))
        /\ UNCHANGED <<known, migrated, path>>
        /\ services' = (IF On \in Plugins THEN services ELSE services \ {On})
    BY AtStep, NoSteps DEF MigrationRemoveService, notes
  <1>2. /\ MovingOK /\ ListsFirst(todo')
        /\ BackingUp \notin ToSet(todo) /\ BackingUp \notin ToSet(todo')
        /\ Listing \notin ToSet(todo')
        /\ ToSet(todo) = {Head(todo)} \cup ToSet(Tail(todo)) /\ Head(todo) \in Steps(ApplyOps)
        /\ ToSet(todo') = ToSet(<<>>) \cup ToSet(Tail(todo))
        /\ result' = "running" /\ phase' = "apply"
    BY <1>1, LaterParts DEF Waits
  <1>3. Head(todo) = Removing(On) /\ Head(todo).on = On
    BY <1>1, <1>2, StepOn DEF Removing, OnOne, On
  <1> DEFINE T == ToSet(todo')
  <1>4. ToSet(todo) = {Head(todo)} \cup T
    BY <1>2, ToSetOfOne
  <1>5. /\ \A p : Removing(On) \notin {Listing, Adding(p), Dropping}
        /\ \A p : Removing(p) = Removing(On) => p = On
    BY DEF Listing, Adding, Removing, Dropping, Of
  <1> HIDE DEF T
  <1>6. Listing \notin ToSet(todo) /\ (On \in InPath => On \in known)
    BY <1>1, <1>2, <1>3, <1>4, <1>5 DEF MovingOK, T
  <1>7. \A p \in InPath : p \in services' \/ Adding(p) \in T \/ p \in known
    BY <1>1, <1>2, <1>3, <1>4, <1>5, <1>6 DEF MovingOK, Served
  <1>8. known # {} => \A x \in services' \ (Foreign \cup Plugins \cup InPath) :
            Removing(x) \in T \/ (x \in known \ migrated /\ Dropping \in T)
    <2> SUFFICES ASSUME known # {}, NEW x \in services' \ (Foreign \cup Plugins \cup InPath)
                 PROVE  Removing(x) \in T \/ (x \in known \ migrated /\ Dropping \in T)
      OBVIOUS
    <2>1. x # On /\ x \in Others
      BY <1>1 DEF Others
    <2>2. Leaves(x)
      BY <1>2, <1>6, <2>1 DEF MovingOK
    <2> QED
      BY <1>3, <1>4, <1>5, <2>1, <2>2 DEF Leaves
  <1>9. /\ \A s \in T : s.op = "add" => s.on \in InPath
        /\ \A s \in T : s.op = "remove" /\ s.on \in InPath => s.on \in known
        /\ migrated \cap InPath = {}
    BY <1>2, <1>4 DEF MovingOK
  <1> QED
    BY <1>1, <1>2, <1>7, <1>8, <1>9, MovingServices DEF T

LEMMA DropServices ==
  ASSUME TypeInv, FilesInv, ServicesOK, dropUnmigrated
  PROVE  ServicesOK'
  <1> DEFINE u == OfSet("remove", Unmigrated)
  <1>1. /\ phase = "apply" /\ todo # <<>> /\ Head(todo).op = "dropUnmigrated" /\ Then(u)
        /\ UNCHANGED <<services, known, migrated, path>> /\ services \subseteq Product \cup Foreign
    BY AtStep, Phases DEF dropUnmigrated, local, notes, TypeInv, DataOK, LocalOK
  <1>2. u \in Seq(Steps({"remove"})) /\ ToSet(u) = {Removing(p) : p \in Unmigrated}
    <2>1. Unmigrated \in SUBSET Product /\ "remove" \in {"remove"} \cap OnOne
      BY DEF Unmigrated, OnOne
    <2> QED
      BY <2>1, OfSetOK DEF Removing, Of
  <1> HIDE DEF u
  <1>3. /\ MovingOK /\ ListsFirst(todo')
        /\ BackingUp \notin ToSet(todo) /\ BackingUp \notin ToSet(todo')
        /\ Listing \notin ToSet(todo')
        /\ ToSet(todo) = {Head(todo)} \cup ToSet(Tail(todo)) /\ Head(todo) \in Steps(ApplyOps)
        /\ ToSet(todo') = ToSet(u) \cup ToSet(Tail(todo))
        /\ result' = "running" /\ phase' = "apply"
    <2>1. "listServices" \notin {"remove"} /\ "backup" \notin {"remove"}
      OBVIOUS
    <2> QED
      BY <1>1, <1>2, <2>1, LaterParts DEF Waits
  <1>4. Head(todo) = Dropping
    BY <1>1, <1>3, StepIs DEF Dropping, OnOne
  <1> DEFINE T == ToSet(todo')
  <1>5. ToSet(todo) \subseteq {Dropping} \cup T /\ T \subseteq ToSet(u) \cup ToSet(todo)
    BY <1>3, <1>4
  <1>6. /\ \A p : Dropping \notin {Listing, Adding(p), Removing(p)}
        /\ \A p : Removing(p).op = "remove" /\ Removing(p).on = p
    BY DEF Listing, Adding, Removing, Dropping, Of
  <1> HIDE DEF T
  <1>7. Listing \notin ToSet(todo)
    BY <1>3, <1>5, <1>6 DEF T
  <1>8. \A p \in InPath : p \in services \/ Adding(p) \in T \/ p \in known
    BY <1>3, <1>5, <1>6 DEF MovingOK, Served
  <1>9. known # {} => \A x \in services \ (Foreign \cup Plugins \cup InPath) : Removing(x) \in T
    <2> SUFFICES ASSUME known # {}, NEW x \in services \ (Foreign \cup Plugins \cup InPath)
                 PROVE  Removing(x) \in T
      OBVIOUS
    <2>1. Leaves(x)
      BY <1>3, <1>7 DEF MovingOK, Others
    <2>2. x \in known \ migrated => x \in Unmigrated
      BY <1>1 DEF Unmigrated
    <2>3. ToSet(u) \subseteq T
      BY <1>3 DEF T
    <2> QED
      BY <1>2, <1>5, <1>6, <2>1, <2>2, <2>3 DEF Leaves
  <1>10. \A s \in T : /\ s.op = "add" => s.on \in InPath
                      /\ s.op = "remove" /\ s.on \in InPath => s.on \in known
    <2> SUFFICES ASSUME NEW s \in T
                 PROVE  /\ s.op = "add" => s.on \in InPath
                        /\ s.op = "remove" /\ s.on \in InPath => s.on \in known
      OBVIOUS
    <2>1. CASE s \in ToSet(todo)
      BY <1>3, <2>1 DEF MovingOK
    <2>2. CASE s \in ToSet(u)
      <3>1. PICK p \in Unmigrated : s = Removing(p)
        BY <1>2, <2>2
      <3> QED
        BY <1>6, <3>1 DEF Unmigrated
    <2> QED
      BY <1>5, <2>1, <2>2
  <1>11. migrated \cap InPath = {}
    BY <1>3 DEF MovingOK
  <1> QED
    BY <1>1, <1>3, <1>8, <1>9, <1>10, <1>11, MovingServices DEF T

LEMMA UpgradeServices ==
  ASSUME TypeInv, PathInv, FilesInv, ServicesOK, UpgradeProduct
  PROVE  ServicesOK'
  <1> DEFINE u == OfSet("remove", Obsolete(On))
  <1>1. /\ phase = "apply" /\ todo # <<>> /\ Head(todo).op = "upgrade" /\ Then(u)
        /\ UNCHANGED <<services, known, path>> /\ migrated' = migrated \cup Obsolete(On)
        /\ act \subseteq Product /\ Head(todo) \in ToSet(todo)
    BY AtStep, Phases, HeadStep DEF UpgradeProduct, local, TypeInv, DataOK, ControlOK
  <1>2. u \in Seq(Steps({"remove"})) /\ ToSet(u) = {Removing(p) : p \in Obsolete(On)}
    <2>1. Obsolete(On) \in SUBSET Product /\ "remove" \in {"remove"} \cap OnOne
      BY <1>1 DEF Obsolete, OnOne
    <2> QED
      BY <2>1, OfSetOK DEF Removing, Of
  <1> HIDE DEF u
  <1>3. /\ MovingOK /\ ListsFirst(todo')
        /\ BackingUp \notin ToSet(todo) /\ BackingUp \notin ToSet(todo')
        /\ Listing \notin ToSet(todo')
        /\ ToSet(todo) = {Head(todo)} \cup ToSet(Tail(todo)) /\ Head(todo) \in Steps(ApplyOps)
        /\ ToSet(todo') = ToSet(u) \cup ToSet(Tail(todo))
        /\ result' = "running" /\ phase' = "apply"
    <2>1. "listServices" \notin {"remove"} /\ "backup" \notin {"remove"}
      OBVIOUS
    <2> QED
      BY <1>1, <1>2, <2>1, LaterParts DEF Waits
  <1>4. On \in InPath
    BY <1>1 DEF PathInv, ComesOK, On
  <1>5. Obsolete(On) \cap InPath = {}
    BY <1>4 DEF PathInv, PathOK, Obsolete
  <1> DEFINE T == ToSet(todo')
  <1>6. ToSet(todo) \subseteq {Head(todo)} \cup T /\ T \subseteq ToSet(u) \cup ToSet(todo)
    BY <1>3
  <1>7. /\ \A p : Head(todo) \notin {Listing, Adding(p), Removing(p), Dropping}
        /\ \A p : Removing(p).op = "remove" /\ Removing(p).on = p
    BY <1>1 DEF Listing, Adding, Removing, Dropping, Of
  <1> HIDE DEF T
  <1>8. Listing \notin ToSet(todo)
    BY <1>3, <1>6, <1>7 DEF T
  <1>9. \A p \in InPath : p \in services \/ Adding(p) \in T \/ p \in known
    BY <1>3, <1>6, <1>7 DEF MovingOK, Served
  <1>10. known # {} => \A x \in services \ (Foreign \cup Plugins \cup InPath) :
             Removing(x) \in T \/ (x \in known \ migrated' /\ Dropping \in T)
    <2> SUFFICES ASSUME known # {}, NEW x \in services \ (Foreign \cup Plugins \cup InPath)
                 PROVE  Removing(x) \in T \/ (x \in known \ migrated' /\ Dropping \in T)
      OBVIOUS
    <2>1. Leaves(x)
      BY <1>3, <1>8 DEF MovingOK, Others
    <2>2. ToSet(u) \subseteq T
      BY <1>3 DEF T
    <2>3. x \in Obsolete(On) => Removing(x) \in T
      BY <1>2, <2>2
    <2> QED
      BY <1>1, <1>6, <1>7, <2>1, <2>3 DEF Leaves
  <1>11. \A s \in T : /\ s.op = "add" => s.on \in InPath
                      /\ s.op = "remove" /\ s.on \in InPath => s.on \in known
    <2> SUFFICES ASSUME NEW s \in T
                 PROVE  /\ s.op = "add" => s.on \in InPath
                        /\ s.op = "remove" /\ s.on \in InPath => s.on \in known
      OBVIOUS
    <2>1. CASE s \in ToSet(todo)
      BY <1>3, <2>1 DEF MovingOK
    <2>2. CASE s \in ToSet(u)
      <3>1. PICK p \in Obsolete(On) : s = Removing(p)
        BY <1>2, <2>2
      <3> QED
        BY <1>5, <1>7, <3>1
    <2> QED
      BY <1>6, <2>1, <2>2
  <1>12. migrated' \cap InPath = {}
    BY <1>1, <1>3, <1>5 DEF MovingOK
  <1> QED
    BY <1>1, <1>3, <1>9, <1>10, <1>11, <1>12, MovingServices DEF T

\* The other actions of the migration.
LEMMA ApplyServices ==
  ASSUME TypeInv, ServicesOK,
         CreatePreSnapshot \/ checkInterrupted \/ disableAllRepos \/ cleanupProductRepos
  PROVE  ServicesOK'
  <1>1. /\ phase = "apply" /\ todo # <<>> /\ result = "running"
        /\ Head(todo).op \in {"preSnapshot", "interruptible", "disableAll", "cleanupRepos"}
        /\ UNCHANGED <<services, known, migrated, path>>
        /\ Then(<<>>) \/ Error \/ Exit("abandoned")
    BY AtStep, Phases DEF CreatePreSnapshot, checkInterrupted, disableAllRepos,
       cleanupProductRepos, local, notes
  <1>2. CASE Then(<<>>)
    BY <1>1, <1>2, ThenServices
  <1>3. CASE Error
    BY <1>1, <1>3, UndoServices DEF Error
  <1>4. CASE Exit("abandoned")
    BY <1>4, EndServices DEF Exit
  <1> QED
    BY <1>1, <1>2, <1>3, <1>4

\* The dist-upgrade is the last step: by then the services have been moved.
LEMMA upgradePackagesServices ==
  ASSUME TypeInv, ServicesOK, upgradePackages
  PROVE  ServicesOK'
  <1>1. /\ phase = "apply" /\ todo # <<>> /\ result = "running" /\ Head(todo).op = "dist-upgrade"
        /\ TodoOK /\ UNCHANGED <<services, known, migrated, path>>
        /\ Exit("inconsistent") \/ Error \/ (phase' = "last" /\ result' = result)
    BY AtStep, Phases DEF upgradePackages, TypeInv, ControlOK
  <1>2. Tail(todo) = <<>>
    BY <1>1, FinalAlone DEF TodoOK, Final, EndsInFinal
  <1>3. ToSet(todo) = {Head(todo)}
    BY <1>1, <1>2, HeadStep, ToSetOfOne
  <1>4. \A p : Head(todo) \notin {Listing, Adding(p), Removing(p), Dropping, BackingUp}
    BY <1>1 DEF Listing, Adding, Removing, Dropping, BackingUp, Of
  <1>5. MovingOK
    BY <1>1 DEF ServicesOK
  <1>6. InPath \ services \subseteq known
    BY <1>3, <1>4, <1>5 DEF MovingOK, Served
  <1>7. known # {} => Others = {}
    BY <1>3, <1>4, <1>5 DEF MovingOK, Leaves
  <1>8. ServicesMoved
    BY <1>5, <1>6, <1>7 DEF ServicesMoved, MovingOK
  <1>9. ServicesMoved'
    BY <1>1, <1>8 DEF ServicesMoved, Others, InPath
  <1>10. CASE phase' = "last" /\ result' = result
    BY <1>9, <1>10 DEF ServicesOK
  <1>11. CASE Error
    BY <1>1, <1>11, UndoServices DEF Error
  <1>12. CASE Exit("inconsistent")
    BY <1>12, EndServices DEF Exit
  <1> QED
    BY <1>1, <1>10, <1>11, <1>12

\* The lookup, and what is done after the dist-upgrade.
LEMMA LookupServices ==
  ASSUME TypeInv, ServicesOK,
         PatchCheck \/ Patch \/ PatchRecheck \/ checkSystemProducts
         \/ InstallReleasePackage \/ releasePackagesChecked \/ rereadProducts
  PROVE  ServicesOK'
  <1>1. /\ phase \in {"check", "last"} /\ result = "running"
        /\ UNCHANGED <<services, known, migrated, path, phase>> /\ result' \in {result, "failed"}
    BY AtStep, Phases DEF PatchCheck, Patch, PatchRecheck, checkSystemProducts,
       InstallReleasePackage, releasePackagesChecked, rereadProducts, local, notes, Then, Exit, command
  <1>2. CASE result' = "failed"
    BY <1>2, EndServices
  <1>3. CASE result' = "running" /\ phase = "check"
    BY <1>1, <1>3, CheckServices DEF ServicesOK
  <1>4. CASE result' = "running" /\ phase = "last"
    BY <1>1, <1>4, LastServices
  <1> QED
    BY <1>1, <1>2, <1>3, <1>4

LEMMA RefreshServices ==
  ASSUME TypeInv, ServicesOK, RefreshRepos
  PROVE  ServicesOK'
  <1>1. /\ phase \in {"check", "apply"} /\ result = "running" /\ todo # <<>> /\ Head(todo).op = "refresh"
        /\ Then(<<>>) /\ UNCHANGED <<services, known, migrated, path, phase, result>>
    BY AtStep DEF RefreshRepos, Allowed, UndoOps, RollbackOps, LastOps, local, notes, Then, command
  <1>2. CASE phase = "check"
    BY <1>1, <1>2, CheckServices DEF ServicesOK
  <1>3. CASE phase = "apply"
    BY <1>1, <1>3, ThenServices
  <1> QED
    BY <1>1, <1>2, <1>3

LEMMA SelectServices ==
  ASSUME TypeInv, PathInv, ServicesOK, selectMigration
  PROVE  ServicesOK'
  <1>1. /\ phase = "check" /\ result = "running" /\ path = <<>> /\ migrated = {}
        /\ UNCHANGED <<services, known, migrated>>
    BY AtStep, Phases DEF selectMigration, local, PathInv, PathOK, ServicesOK
  <1>2. \/ UNCHANGED path /\ \E r \in {"failed", "ok"} : Exit(r)
        \/ \E i : Select(i)
    BY DEF selectMigration
  <1>3. ASSUME UNCHANGED path, NEW r \in {"failed", "ok"}, Exit(r) PROVE ServicesOK'
    BY <1>1, <1>3 DEF ServicesOK, Exit
  <1>4. ASSUME NEW i, Select(i) PROVE ServicesOK'
    <2>1. /\ phase' = "apply" /\ result' = "running" /\ todo' = Chosen
      BY <1>1, <1>4 DEF Select
    <2>2. /\ Chosen \in Seq(Steps(ApplyOps)) /\ BackingUp \in ToSet(Chosen)
          /\ \A s \in ToSet(Chosen) : s.op \in {"preSnapshot", "backup"}
      BY ChosenOK DEF BackingUp
    <2>3. Listing \notin ToSet(Chosen)
      BY <2>2 DEF Listing, Of
    <2>4. ListsFirst(todo')
      BY <2>1, <2>2, <2>3, NotListed
    <2>5. ListsFirst(todo)'
      BY <2>4 DEF ListsFirst, Closes, ToSet, Listing, Of
    <2>6. /\ (BackingUp \in ToSet(todo))' /\ (Listing \notin ToSet(todo))'
          /\ \A s \in ToSet(todo)' : s.op \in {"preSnapshot", "backup"}
      BY <2>1, <2>2, <2>3 DEF ToSet, BackingUp, Listing, Of
    <2>7. MovingOK'
      BY <1>1, <2>5, <2>6 DEF MovingOK
    <2> QED
      BY <2>1, <2>7 DEF ServicesOK
  <1> QED
    BY <1>2, <1>3, <1>4

LEMMA RollbackServices ==
  ASSUME TypeInv, ServicesOK,
         Restore \/ RollbackBase \/ RollbackExtension \/ ReaddService \/ syncProducts
         \/ SetReleaseVersion \/ (MigrationRemoveService /\ phase # "apply")
  PROVE  ServicesOK'
  <1>1. /\ phase \in {"check", "undo"} /\ result = "running"
    BY AtStep, Phases DEF Restore, RollbackBase, RollbackExtension, ReaddService, syncProducts,
       SetReleaseVersion, MigrationRemoveService, Allowed, LastOps
  <1>2. /\ UNCHANGED <<migrated, phase>> /\ result' \in {result, "failed"}
    BY <1>1 DEF Restore, RollbackBase, RollbackExtension, ReaddService, syncProducts,
       SetReleaseVersion, MigrationRemoveService, Downgrade, Error, Exit, Then, command, notes
  <1>3. CASE result' = "failed"
    BY <1>3, EndServices
  <1>4. CASE result' = "running" /\ phase = "check"
    BY <1>1, <1>2, <1>4, CheckServices DEF ServicesOK
  <1>5. CASE result' = "running" /\ phase = "undo"
    BY <1>2, <1>5, UndoServices
  <1> QED
    BY <1>1, <1>2, <1>3, <1>4, <1>5

LEMMA EndingServices ==
  ASSUME TypeInv, PathInv, ServicesOK, Finish \/ Fail \/ Kill
  PROVE  ServicesOK'
  <1>1. result = "running" /\ UNCHANGED <<services, known, migrated, path>>
    BY DEF Finish, Fail, Kill, local, notes, TypeInv, ControlOK, TodoOK
  <1>2. CASE Fail
    <2>1. (phase' = "undo" /\ result' = result) \/ result' = "failed"
      BY <1>2 DEF Fail, Error, Exit
    <2> QED
      BY <1>1, <2>1, UndoServices, EndServices
  <1>3. CASE Kill
    BY <1>3, EndServices DEF Kill, Exit
  <1>4. CASE Finish
    <2>1. /\ phase # "apply" /\ phase \in {"check", "apply", "undo", "last"}
          /\ cmd \in {"migration", "rollback"}
      BY <1>1, <1>4 DEF Finish, TypeInv, ControlOK, CommandOK, TodoOK, EndsInFinal, EndsIn
    <2>2. /\ phase' = phase
          /\ result' = (IF phase = "undo" /\ cmd = "migration" THEN "rolledBack" ELSE "ok")
      BY <1>4 DEF Finish, Exit
    <2>3. phase \in {"check", "undo"} /\ result' = "ok" => path' = <<>>
      BY <1>1, <2>1, <2>2 DEF PathInv, PathOK
    <2>4. phase = "last" => ServicesMoved'
      BY <1>1 DEF ServicesOK, ServicesMoved, Others, InPath
    <2> QED
      BY <2>1, <2>2, <2>3, <2>4 DEF ServicesOK
  <1> QED
    BY <1>2, <1>3, <1>4

LEMMA QuietServices ==
  ASSUME ServicesOK, UNCHANGED <<phase, result, path, services, known, migrated, todo>>
  PROVE  ServicesOK'
  <1>1. /\ MovingOK => MovingOK'
        /\ ServicesMoved => ServicesMoved'
    BY DEF MovingOK, ServicesMoved, ListsFirst, Closes, Served, Leaves, Others, InPath, ToSet,
       Listing, Adding, Removing, Dropping, BackingUp, Of
  <1> QED
    BY <1>1 DEF ServicesOK

LEMMA NextServices ==
  ASSUME TypeInv, PathInv, FilesInv, ServicesOK, [Next]_vars
  PROVE  ServicesOK'
  <1>1. ASSUME Step PROVE ServicesOK'
    BY <1>1, LookupServices, RefreshServices, SelectServices, ApplyServices, BackupServices,
       InstalledServicesServices, UpgradeServices, RemoveServices, AddServices, DropServices,
       upgradePackagesServices, RollbackServices, EndingServices DEF Step
  <1>2. CASE Signal \/ Publish \/ UNCHANGED vars
    <2>1. UNCHANGED <<phase, result, path, services, known, migrated, todo>>
      BY <1>2 DEF Signal, Publish, vars, local, notes, command
    <2> QED
      BY <2>1, QuietServices
  <1>3. CASE BootSnapshot
    BY <1>3, EndServices DEF BootSnapshot
  <1>4. ASSUME NEW c, NEW f, Start(c, f) PROVE ServicesOK'
    <2>1. phase' \in {"check", "undo"} /\ result' = "running" /\ migrated' = {}
      BY <1>4 DEF Start, Fresh
    <2> QED
      BY <2>1, CheckServices, UndoServices
  <1> QED
    BY <1>1, <1>2, <1>3, <1>4, EndingServices DEF Next

LEMMA InitServices ==
  Init => ServicesOK
  BY DEF Init, ServicesOK

-----------------------------------------------------------------------------
(* What it leaves behind: the packages.                                     *)
Releasing(p) == Of("release", p)
\* No other version of p is offered, or p is offered and newer.
Newest(p) ==
    \A q \in Offered(p.name) \ {p} : p \in services /\ compareEditions(q.version, p.version)
\* The release package of another base product may have taken p's place.
Displaced(p) == p.name \in BaseNames /\ ~(Bases(listed) \subseteq InPath)
\* After the dist-upgrade a product of the path is installed, or is still to be.
Settled(p) ==
    \/ p \in packages \/ ~Newest(p) \/ Displaced(p)
    \/ p.name \notin NamesIn(packages) /\ Releasing(p) \in ToSet(todo)
Upgraded == \A p \in InPath : p \in packages \/ p.name \notin NamesIn(packages)
AllSettled == upgraded /\ ~missing => \A p \in InPath : Settled(p)
SameOK ==
    result \in {"running", "ok"} /\ phase # "undo" /\ start.packages = start.listed =>
        packages = listed
LastOK ==
    /\ result = "running" /\ phase = "last" =>
        \/ todo = <<Of("check", None)>> /\ (upgraded => Upgraded)
        \/ AllSettled /\ \A s \in ToSet(todo) : s.op \in {"release", "checked"}
    /\ result = "ok" /\ phase = "last" => AllSettled
PackagesOK == SameOK /\ LastOK

LEMMA SamePackages ==
  ASSUME SameOK, UNCHANGED <<packages, listed, start>>, phase' # "undo" => phase # "undo",
         result' \in {"running", "ok"} => result \in {"running", "ok"}
  PROVE  SameOK'
  BY DEF SameOK

LEMMA NotLast ==
  ASSUME phase' # "last" \/ result' \notin {"running", "ok"}
  PROVE  LastOK'
  BY DEF LastOK

LEMMA SameNewest ==
  ASSUME UNCHANGED <<services, repos>>
  PROVE  \A p : Newest(p)' <=> Newest(p)
  BY DEF Newest, Offered, compareEditions

\* What is settled stays settled while the steps, the packages and the offers stay.
LEMMA SameSettled ==
  ASSUME UNCHANGED <<packages, listed, services, repos, path, upgraded, missing>>,
         \A p : Releasing(p) \in ToSet(todo) => Releasing(p) \in ToSet(todo'), AllSettled
  PROVE  AllSettled'
  <1>1. (InPath)' = InPath /\ (NamesIn(packages))' = NamesIn(packages)
    BY DEF InPath, NamesIn
  <1>2. ASSUME NEW p \in InPath, Settled(p) PROVE Settled(p)'
    <2>1. Newest(p)' <=> Newest(p)
      BY SameNewest
    <2>2. Displaced(p)' <=> Displaced(p)
      BY <1>1 DEF Displaced, Bases
    <2>3. Releasing(p) \in ToSet(todo) => (Releasing(p) \in ToSet(todo))'
      BY DEF Releasing, Of, ToSet
    <2> QED
      BY <1>1, <1>2, <2>1, <2>2, <2>3 DEF Settled
  <1> QED
    BY <1>1, <1>2 DEF AllSettled

LEMMA LastParts ==
  ASSUME TypeInv, phase = "last", todo # <<>>, NEW O, NEW steps \in Seq(Steps(O)), Then(steps)
  PROVE  /\ ToSet(todo) = {Head(todo)} \cup ToSet(Tail(todo)) /\ Head(todo) \in Steps(LastOps)
         /\ todo' = steps \o Tail(todo) /\ ToSet(todo') = ToSet(steps) \cup ToSet(Tail(todo))
         /\ result = "running" /\ result' = "running" /\ phase' = "last" /\ start' = start
  <1>1. /\ ToSet(todo) = {Head(todo)} \cup ToSet(Tail(todo)) /\ Tail(todo) \in Seq(Steps(Allowed))
        /\ Head(todo) \in Steps(Allowed) /\ result = "running"
    BY HeadStep DEF TypeInv, ControlOK
  <1>2. Allowed = LastOps
    BY DEF Allowed
  <1>3. steps \in Seq(Steps(O \cup LastOps)) /\ Tail(todo) \in Seq(Steps(O \cup LastOps))
    BY <1>1, <1>2, MoreSteps
  <1>4. todo' = steps \o Tail(todo) /\ UNCHANGED <<result, phase, start>>
    BY DEF Then, command
  <1>5. ToSet(todo') = ToSet(steps) \cup ToSet(Tail(todo))
    BY <1>3, <1>4, ToSetOfJoin
  <1> QED
    BY <1>1, <1>2, <1>4, <1>5

\* The look at the release packages after the dist-upgrade.
LEMMA checkPackages ==
  ASSUME TypeInv, PathInv, PackagesOK, checkSystemProducts
  PROVE  PackagesOK'
  <1> DEFINE R == {p \in products' : ~environ \/ p.name \notin NamesIn(packages)}
             u == OfSet("release", R) \o Just("checked")
  <1>1. /\ phase \in {"check", "last"} /\ result = "running" /\ todo # <<>> /\ Head(todo).op = "check"
        /\ UNCHANGED <<act, packages, listed, services, repos, path, upgraded>> /\ Then(u)
        /\ products' = listed \cup act /\ act \subseteq Product /\ listed \subseteq Product
        /\ UNCHANGED <<phase, result, start>>
    BY AtStep, Phases DEF checkSystemProducts, server, local, SystemProducts, TypeInv, DataOK, LocalOK,
       Then, command
  <1>2. SameOK'
    BY <1>1, SamePackages DEF PackagesOK
  <1>3. CASE phase = "check"
    BY <1>1, <1>2, <1>3, NotLast DEF PackagesOK
  <1>4. CASE phase = "last"
    <2>1. R \in SUBSET Product
      BY <1>1
    <2> HIDE DEF R
    <2>2. /\ OfSet("release", R) \in Seq(Steps(LastOps)) /\ Just("checked") \in Seq(Steps(LastOps))
          /\ ToSet(OfSet("release", R)) = {Releasing(p) : p \in R}
          /\ ToSet(Just("checked")) = {Of("checked", None)}
      BY <2>1, OfSetOK, DoOK, DoElements DEF LastOps, OnOne, Releasing, Of
    <2>3. u \in Seq(Steps(LastOps)) /\ ToSet(u) = {Releasing(p) : p \in R} \cup {Of("checked", None)}
      BY <2>2, ToSetOfJoin
    <2> HIDE DEF u
    <2>4. /\ ToSet(todo) = {Head(todo)} \cup ToSet(Tail(todo))
          /\ ToSet(todo') = ToSet(u) \cup ToSet(Tail(todo)) /\ result' = "running" /\ phase' = "last"
      BY <1>1, <1>4, <2>3, LastParts
    <2>5. todo = <<Of("check", None)>> /\ (upgraded => Upgraded)
      BY <1>1, <1>4, <2>4 DEF PackagesOK, LastOK
    <2>6. ToSet(Tail(todo)) = {}
      <3>1. Tail(<<Of("check", None)>>) = <<>>
        OBVIOUS
      <3> QED
        BY <2>5, <3>1, ToSetOfOne
    <2>7. ToSet(todo') = ToSet(u)
      BY <2>4, <2>6
    <2>8. \A s \in ToSet(todo') : s.op \in {"release", "checked"}
      BY <2>3, <2>7 DEF Releasing, Of
    <2>9. ASSUME upgraded, NEW p \in InPath
          PROVE  p \in packages \/ (p.name \notin NamesIn(packages) /\ Releasing(p) \in ToSet(todo'))
      <3>1. p \in products'
        BY <1>1, <1>4 DEF PathInv, ComesOK
      <3>2. p.name \notin NamesIn(packages) => p \in R
        BY <3>1 DEF R
      <3> QED
        BY <2>3, <2>5, <2>7, <2>9, <3>2 DEF Upgraded
    <2>10. (InPath)' = InPath /\ (NamesIn(packages))' = NamesIn(packages)
      BY <1>1 DEF InPath, NamesIn
    <2>11. \A p : (Releasing(p) \in ToSet(todo))' <=> Releasing(p) \in ToSet(todo')
      BY DEF Releasing, Of, ToSet
    <2>12. AllSettled'
      BY <1>1, <2>9, <2>10, <2>11 DEF AllSettled, Settled
    <2>13. (\A s \in ToSet(todo) : s.op \in {"release", "checked"})'
      BY <2>8 DEF ToSet
    <2>14. LastOK'
      BY <2>4, <2>12, <2>13 DEF LastOK
    <2> QED
      BY <1>2, <2>14 DEF PackagesOK
  <1> QED
    BY <1>1, <1>3, <1>4

\* The release package that is installed is that of the product of the path, if no other
\* is newer; and only another base product takes a base product's place.
LEMMA InstallSettled ==
  ASSUME OneBase(InPath), NEW r \in Offered(On.name), r.name = On.name,
         \A q \in Offered(On.name) : ~compareEditions(r.version, q.version),
         packages' = With(r, packages), listed' = With(r, listed),
         Head(todo) = Releasing(On), ToSet(todo) = {Head(todo)} \cup ToSet(todo'),
         UNCHANGED <<services, repos, path>>,
         NEW p \in InPath, p \in Product, Settled(p)
  PROVE  Settled(p)'
  <1>1. Newest(p)' <=> Newest(p)
    BY SameNewest
  <1>2. (InPath)' = InPath
    BY DEF InPath
  <1>3. (Displaced(p))' <=> p.name \in BaseNames /\ ~(Bases(listed') \subseteq InPath)
    BY <1>2 DEF Displaced, Bases
  <1>4. r.name \in BaseNames /\ p.name \in BaseNames => p \in packages' \/ Displaced(p)'
    <2>1. CASE r \in InPath
      BY <2>1 DEF OneBase, With
    <2>2. CASE r \notin InPath
      BY <1>3, <2>2 DEF With, Bases
    <2> QED
      BY <2>1, <2>2
  <1>5. CASE p \in packages
    <2>1. p \in packages' \/ (r.name \in BaseNames /\ p.name \in BaseNames)
      BY <1>5 DEF With
    <2> QED
      BY <1>4, <2>1 DEF Settled
  <1>6. CASE ~Newest(p)
    BY <1>1, <1>6 DEF Settled
  <1>7. CASE Displaced(p)
    <2>1. CASE r.name \in BaseNames
      BY <1>4, <1>7, <2>1 DEF Settled, Displaced
    <2>2. CASE r.name \notin BaseNames
      <3>1. listed \subseteq listed'
        BY <2>2 DEF With
      <3>2. Displaced(p)'
        BY <1>3, <1>7, <3>1 DEF Displaced, Bases
      <3> QED
        BY <3>2 DEF Settled
    <2> QED
      BY <2>1, <2>2
  <1>8. CASE Newest(p) /\ p.name \notin NamesIn(packages) /\ Releasing(p) \in ToSet(todo)
    <2>1. CASE On.name = p.name
      <3>1. r = p
        <4> SUFFICES ASSUME r # p PROVE FALSE
          OBVIOUS
        <4>1. p \in services /\ compareEditions(r.version, p.version)
          BY <1>8, <2>1 DEF Newest
        <4>2. p \in Offered(On.name)
          BY <2>1, <4>1 DEF Offered
        <4> QED
          BY <4>1, <4>2
      <3>2. p \in packages'
        BY <3>1 DEF With
      <3> QED
        BY <3>2 DEF Settled
    <2>2. CASE On.name # p.name
      <3>1. Releasing(p) # Head(todo)
        BY <2>2 DEF Releasing, Of
      <3>2. Releasing(p) \in ToSet(todo')
        BY <1>8, <3>1
      <3>3. (Releasing(p) \in ToSet(todo))'
        BY <3>2 DEF Releasing, Of, ToSet
      <3>4. (p.name \notin NamesIn(packages))'
        BY <1>8, <2>2 DEF NamesIn, With
      <3> QED
        BY <3>3, <3>4 DEF Settled
    <2> QED
      BY <2>1, <2>2
  <1> QED
    BY <1>5, <1>6, <1>7, <1>8 DEF Settled

LEMMA InstallNothing ==
  ASSUME UNCHANGED <<packages, listed, services, repos, path>>, On.name \in NamesIn(packages),
         Head(todo) = Releasing(On), ToSet(todo) = {Head(todo)} \cup ToSet(todo'),
         NEW p, Settled(p)
  PROVE  Settled(p)'
  <1>1. (InPath)' = InPath /\ (NamesIn(packages))' = NamesIn(packages)
    BY DEF InPath, NamesIn
  <1>2. Newest(p)' <=> Newest(p)
    BY SameNewest
  <1>3. Displaced(p)' <=> Displaced(p)
    BY <1>1 DEF Displaced, Bases
  <1>4. ASSUME p.name \notin NamesIn(packages), Releasing(p) \in ToSet(todo)
        PROVE  (Releasing(p) \in ToSet(todo))'
    <2>1. Releasing(p) # Head(todo)
      BY <1>4 DEF Releasing, Of
    <2>2. Releasing(p) \in ToSet(todo')
      BY <1>4, <2>1
    <2> QED
      BY <2>2 DEF Releasing, Of, ToSet
  <1> QED
    BY <1>1, <1>2, <1>3, <1>4 DEF Settled

LEMMA InstallPackages ==
  ASSUME TypeInv, BaseOK, PackagesOK, InstallReleasePackage
  PROVE  PackagesOK'
  <1>1. /\ phase \in {"check", "last"} /\ result = "running" /\ todo # <<>>
        /\ Head(todo).op = "release" /\ Then(<<>>) /\ <<>> \in Seq(Steps({}))
        /\ UNCHANGED <<services, repos, path, upgraded, phase, result, start>>
        /\ path \in Seq(Product)
    BY AtStep, Phases, NoSteps DEF InstallReleasePackage, Then, command, TypeInv, DataOK, NotesOK
  <1>2. \/ On.name \in NamesIn(packages) /\ UNCHANGED <<packages, listed, missing>>
        \/ \E r \in Offered(On.name) :
              /\ \A q \in Offered(On.name) : ~compareEditions(r.version, q.version)
              /\ packages' = With(r, packages) /\ listed' = With(r, listed)
              /\ UNCHANGED missing
        \/ missing' /\ UNCHANGED <<packages, listed>>
    BY DEF InstallReleasePackage
  <1>3. SameOK'
    <2>1. CASE UNCHANGED <<packages, listed>>
      BY <1>1, <2>1, SamePackages DEF PackagesOK
    <2>2. ASSUME NEW r, packages' = With(r, packages), listed' = With(r, listed) PROVE SameOK'
      BY <1>1, <2>2 DEF PackagesOK, SameOK, With
    <2> QED
      BY <1>2, <2>1, <2>2
  <1>4. CASE phase = "check"
    BY <1>1, <1>3, <1>4, NotLast DEF PackagesOK
  <1>5. CASE phase = "last"
    <2>1. /\ ToSet(todo) = {Head(todo)} \cup ToSet(Tail(todo)) /\ Head(todo) \in Steps(LastOps)
          /\ ToSet(todo') = ToSet(<<>>) \cup ToSet(Tail(todo)) /\ result' = "running" /\ phase' = "last"
      BY <1>1, <1>5, LastParts
    <2>2. Head(todo) = Releasing(On)
      BY <1>1, <2>1, StepOn DEF Releasing, OnOne, On
    <2>3. ToSet(todo) = {Head(todo)} \cup ToSet(todo')
      BY <2>1, ToSetOfOne
    <2>4. todo # <<Of("check", None)>>
      BY <1>1 DEF Of
    <2>5. AllSettled /\ \A s \in ToSet(todo) : s.op \in {"release", "checked"}
      BY <1>1, <1>5, <2>4 DEF PackagesOK, LastOK
    <2>6. (\A s \in ToSet(todo) : s.op \in {"release", "checked"})'
      <3>1. \A s \in ToSet(todo') : s.op \in {"release", "checked"}
        BY <2>3, <2>5
      <3> QED
        BY <3>1 DEF ToSet
    <2>7. ASSUME upgraded', ~missing', NEW p \in (InPath)' PROVE Settled(p)'
      <3>1. (InPath)' = InPath /\ \A q \in InPath : q \in Product
        BY <1>1 DEF InPath
      <3>2. ~missing /\ ~(missing' /\ UNCHANGED <<packages, listed>>)
        BY <1>2, <2>7
      <3>3. Settled(p)
        BY <1>1, <2>5, <2>7, <3>1, <3>2 DEF AllSettled
      <3>4. CASE On.name \in NamesIn(packages) /\ UNCHANGED <<packages, listed, missing>>
        BY <1>1, <2>2, <2>3, <3>3, <3>4, InstallNothing
      <3>5. ASSUME NEW r \in Offered(On.name),
                   \A q \in Offered(On.name) : ~compareEditions(r.version, q.version),
                   packages' = With(r, packages), listed' = With(r, listed)
            PROVE  Settled(p)'
        <4>1. r.name = On.name
          BY <3>5 DEF Offered
        <4>2. OneBase(InPath)
          BY DEF BaseOK
        <4>3. p \in InPath /\ p \in Product
          BY <2>7, <3>1
        <4> QED
          BY <1>1, <2>2, <2>3, <3>3, <3>5, <4>1, <4>2, <4>3, InstallSettled
      <3> QED
        BY <1>2, <3>2, <3>4, <3>5
    <2>8. AllSettled'
      BY <2>7 DEF AllSettled
    <2>9. LastOK'
      BY <2>1, <2>6, <2>8 DEF LastOK
    <2> QED
      BY <1>3, <2>9 DEF PackagesOK
  <1> QED
    BY <1>1, <1>4, <1>5

LEMMA checkedPackages ==
  ASSUME TypeInv, PackagesOK, releasePackagesChecked
  PROVE  PackagesOK'
  <1>1. /\ phase \in {"check", "last"} /\ result = "running" /\ todo # <<>>
        /\ Head(todo).op = "checked"
        /\ phase = "last" => Then(<<>>)
        /\ UNCHANGED <<packages, listed, services, repos, path, upgraded, missing>>
        /\ UNCHANGED <<phase, result, start>>
    BY AtStep, Phases DEF releasePackagesChecked, Then, command, local, notes
  <1>2. SameOK'
    BY <1>1, SamePackages DEF PackagesOK
  <1>3. CASE phase = "check"
    BY <1>1, <1>2, <1>3, NotLast DEF PackagesOK
  <1>4. CASE phase = "last"
    <2>1. /\ ToSet(todo) = {Head(todo)} \cup ToSet(Tail(todo))
          /\ ToSet(todo') = ToSet(<<>>) \cup ToSet(Tail(todo)) /\ result' = "running" /\ phase' = "last"
      BY <1>1, <1>4, NoSteps, LastParts
    <2>2. ToSet(todo) = {Head(todo)} \cup ToSet(todo')
      BY <2>1, ToSetOfOne
    <2>3. todo # <<Of("check", None)>>
      BY <1>1 DEF Of
    <2>4. AllSettled /\ \A s \in ToSet(todo) : s.op \in {"release", "checked"}
      BY <1>1, <1>4, <2>3 DEF PackagesOK, LastOK
    <2>5. (\A s \in ToSet(todo) : s.op \in {"release", "checked"})'
      <3>1. \A s \in ToSet(todo') : s.op \in {"release", "checked"}
        BY <2>2, <2>4
      <3> QED
        BY <3>1 DEF ToSet
    <2>6. \A p : Releasing(p) # Head(todo)
      BY <1>1 DEF Releasing, Of
    <2>7. \A p : Releasing(p) \in ToSet(todo) => Releasing(p) \in ToSet(todo')
      BY <2>2, <2>6
    <2>8. AllSettled'
      BY <1>1, <2>4, <2>7, SameSettled
    <2>9. LastOK'
      BY <2>1, <2>5, <2>8 DEF LastOK
    <2> QED
      BY <1>2, <2>9 DEF PackagesOK
  <1> QED
    BY <1>1, <1>3, <1>4

\* What the dist-upgrade leaves: a product of the path, or none of its name.
LEMMA UpgradedAfter ==
  ASSUME PathOK, OneBase(InPath), packages' = Kept(packages) \cup NewPackages, UNCHANGED path
  PROVE  Upgraded'
  <1>1. (InPath)' = InPath /\ NewPackages \subseteq InPath
    BY DEF InPath, NewPackages
  <1>2. ASSUME NEW p \in InPath, p \notin packages', NEW q \in packages', q.name = p.name
        PROVE  FALSE
    <2>1. p \notin NewPackages /\ p \notin Kept(packages)
      BY <1>2
    <2>2. CASE q \in NewPackages
      BY <1>1, <1>2, <2>1, <2>2 DEF PathOK
    <2>3. CASE q \in Kept(packages)
      <3>1. Moved(p, packages)
        BY <1>2, <2>3 DEF Moved, Kept
      <3>2. p \in packages
        BY <2>1, <3>1 DEF NewPackages, InPath
      <3>3. PICK p2 \in NewPackages : Moved(p2, {p}) \/ {p2.name, p.name} \subseteq BaseNames
        BY <2>1, <3>2 DEF Kept
      <3>4. p2 # p /\ p2 \in InPath
        BY <1>1, <2>1, <3>3
      <3>5. CASE Moved(p2, {p})
        <4>1. p.name = p2.name \/ <<p.name, p2.name>> \in Renamed
          <5>1. PICK x \in {q2 \in {p} : q2.name = p2.name \/ <<q2.name, p2.name>> \in Renamed} : TRUE
            BY <3>5 DEF Moved
          <5>2. x = p
            BY <5>1
          <5> QED
            BY <5>1, <5>2
        <4> QED
          BY <3>4, <4>1 DEF PathOK
      <3>6. CASE {p2.name, p.name} \subseteq BaseNames
        BY <3>4, <3>6 DEF OneBase
      <3> QED
        BY <3>3, <3>5, <3>6
    <2> QED
      BY <1>2, <2>2, <2>3
  <1> QED
    BY <1>1, <1>2 DEF Upgraded, NamesIn

LEMMA upgradePackagesPackages ==
  ASSUME TypeInv, PathInv, BaseOK, PackagesOK, upgradePackages
  PROVE  PackagesOK'
  <1>1. phase = "apply" /\ result = "running" /\ UNCHANGED path
    BY AtStep, Phases DEF upgradePackages
  <1>2. PICK code \in {"ok", "info", "commit", "error"} :
            /\ DistUpgrade(code)
            /\ IF code = "commit" THEN Exit("inconsistent")
               ELSE IF Stops(code) THEN Error
               ELSE /\ phase' = "last" /\ todo' = Just("check")
                    /\ UNCHANGED <<cmd, flags, environ, result, interrupted, runs, start>>
    BY DEF upgradePackages
  <1>3. /\ upgraded' = Ends(code)
        /\ IF Ends(code)
           THEN /\ packages' = Kept(packages) \cup NewPackages
                /\ listed' = Kept(listed) \cup NewPackages
           ELSE UNCHANGED <<packages, listed>>
    BY <1>2 DEF DistUpgrade
  <1>4. CASE Exit("inconsistent")
    BY <1>4, NotLast DEF PackagesOK, SameOK, Exit
  <1>5. CASE Error
    <2>1. phase' = "undo"
      BY <1>1, <1>5 DEF Error
    <2> QED
      BY <2>1, NotLast DEF PackagesOK, SameOK
  <1>6. CASE phase' = "last" /\ todo' = Just("check") /\ UNCHANGED <<result, start>>
    <2>1. SameOK'
      BY <1>1, <1>3, <1>6 DEF PackagesOK, SameOK, Kept
    <2>2. Ends(code) => Upgraded'
      BY <1>1, <1>3, UpgradedAfter DEF PathInv, BaseOK
    <2>3. (upgraded => Upgraded)'
      BY <1>3, <2>2
    <2>4. (todo = <<Of("check", None)>>)'
      BY <1>6 DEF Just, Do, Of
    <2>5. LastOK'
      BY <1>1, <1>6, <2>3, <2>4 DEF LastOK
    <2> QED
      BY <2>1, <2>5 DEF PackagesOK
  <1> QED
    BY <1>2, <1>4, <1>5, <1>6

\* The other steps are not done after the dist-upgrade, and install nothing.
LEMMA EarlierPackages ==
  ASSUME PackagesOK, UNCHANGED <<packages, listed, start>>, result = "running",
         phase \in {"check", "apply", "undo"},
         phase' = phase \/ (phase = "check" /\ phase' = "apply") \/ phase' = "undo"
  PROVE  PackagesOK'
  <1>1. SameOK'
    BY SamePackages DEF PackagesOK
  <1>2. LastOK'
    BY NotLast
  <1> QED
    BY <1>1, <1>2 DEF PackagesOK

LEMMA LookupPackages ==
  ASSUME TypeInv, PackagesOK,
         PatchCheck \/ Patch \/ PatchRecheck \/ rereadProducts \/ selectMigration \/ RefreshRepos
  PROVE  PackagesOK'
  <1>1. result = "running" /\ phase \in {"check", "apply", "undo"}
    <2>1. CASE PatchCheck \/ Patch \/ PatchRecheck \/ rereadProducts \/ selectMigration
      BY <2>1, AtStep, Phases DEF PatchCheck, Patch, PatchRecheck, rereadProducts, selectMigration
    <2>2. CASE RefreshRepos
      BY <2>2, AtStep DEF RefreshRepos, Allowed, LastOps
    <2> QED
      BY <2>1, <2>2
  <1>2. /\ UNCHANGED <<packages, listed, start>>
        /\ phase' = phase \/ (phase = "check" /\ phase' = "apply")
    <2>1. CASE PatchCheck \/ Patch \/ PatchRecheck \/ rereadProducts \/ RefreshRepos
      BY <2>1 DEF PatchCheck, Patch, PatchRecheck, rereadProducts, RefreshRepos, local, Then, Exit, command
    <2>2. CASE selectMigration
      <3>1. phase = "check" /\ UNCHANGED <<packages, listed>>
        BY <2>2, AtStep, Phases DEF selectMigration, local
      <3>2. (\E r : Exit(r)) \/ (\E i : Select(i))
        BY <2>2 DEF selectMigration
      <3> QED
        BY <3>1, <3>2 DEF Exit, Select
    <2> QED
      BY <2>1, <2>2
  <1> QED
    BY <1>1, <1>2, EarlierPackages

LEMMA ApplyPackages ==
  ASSUME TypeInv, PackagesOK,
         CreatePreSnapshot \/ Backup \/ checkInterrupted \/ disableAllRepos \/ InstalledServices
         \/ UpgradeProduct \/ cleanupProductRepos \/ MigrationAddService \/ dropUnmigrated
  PROVE  PackagesOK'
  <1>1. result = "running" /\ phase = "apply"
    BY AtStep, Phases DEF CreatePreSnapshot, Backup, checkInterrupted, disableAllRepos, InstalledServices,
       UpgradeProduct, cleanupProductRepos, MigrationAddService, dropUnmigrated
  <1>2. UNCHANGED <<packages, listed>>
    BY DEF CreatePreSnapshot, Backup, checkInterrupted, disableAllRepos, InstalledServices,
       UpgradeProduct, cleanupProductRepos, MigrationAddService, dropUnmigrated, local
  <1>3. (\E s : Then(s)) \/ Error \/ Exit("abandoned")
    BY DEF CreatePreSnapshot, Backup, checkInterrupted, disableAllRepos, InstalledServices,
       UpgradeProduct, cleanupProductRepos, MigrationAddService, dropUnmigrated
  <1>4. start' = start /\ (phase' = phase \/ phase' = "undo")
    BY <1>3 DEF Then, Error, Exit, command
  <1> QED
    BY <1>1, <1>2, <1>4, EarlierPackages

LEMMA RollbackPackages ==
  ASSUME TypeInv, PackagesOK,
         RollbackBase \/ RollbackExtension \/ ReaddService \/ syncProducts \/ SetReleaseVersion
         \/ MigrationRemoveService
  PROVE  PackagesOK'
  <1>1. result = "running" /\ phase \in {"check", "apply", "undo"}
    <2>1. CASE RollbackBase \/ RollbackExtension \/ ReaddService \/ syncProducts \/ SetReleaseVersion
      BY <2>1, AtStep, Phases DEF RollbackBase, RollbackExtension, ReaddService, syncProducts,
         SetReleaseVersion
    <2>2. CASE MigrationRemoveService
      BY <2>2, AtStep DEF MigrationRemoveService, Allowed, LastOps
    <2> QED
      BY <2>1, <2>2
  <1>2. UNCHANGED <<packages, listed>>
    BY DEF RollbackBase, RollbackExtension, ReaddService, syncProducts, SetReleaseVersion,
       MigrationRemoveService, Downgrade, local
  <1>3. (\E s : Then(s)) \/ Error
    BY DEF RollbackBase, RollbackExtension, ReaddService, syncProducts, SetReleaseVersion,
       MigrationRemoveService
  <1>4. start' = start /\ (phase' = phase \/ phase' = "undo")
    BY <1>3 DEF Then, Error, Exit, command
  <1> QED
    BY <1>1, <1>2, <1>4, EarlierPackages

LEMMA EndingPackages ==
  ASSUME TypeInv, PackagesOK, Restore \/ Finish \/ Fail \/ Kill
  PROVE  PackagesOK'
  <1>1. CASE Restore
    <2>1. phase' = "undo"
      BY <1>1, AtStep, Phases DEF Restore, Then, command
    <2> QED
      BY <2>1, NotLast DEF PackagesOK, SameOK
  <1>2. CASE Kill
    BY <1>2, NotLast DEF PackagesOK, SameOK, Kill, Exit
  <1>3. CASE Fail
    <2>1. phase' = "undo" \/ result' = "failed"
      BY <1>3 DEF Fail, Error, Exit
    <2> QED
      BY <2>1, NotLast DEF PackagesOK, SameOK
  <1>4. CASE Finish
    <2>1. /\ result = "running" /\ todo = <<>> /\ todo' = <<>>
          /\ UNCHANGED <<phase, start, packages, listed, services, repos, path, upgraded, missing>>
          /\ result' \in {"ok", "rolledBack"}
      BY <1>4 DEF Finish, Exit, local, notes
    <2>2. SameOK'
      BY <2>1, SamePackages DEF PackagesOK
    <2>3. CASE phase = "last"
      <3>1. AllSettled
        BY <2>1, <2>3 DEF PackagesOK, LastOK
      <3>2. AllSettled'
        BY <2>1, <3>1, SameSettled
      <3> QED
        BY <2>1, <2>2, <3>2 DEF PackagesOK, LastOK
    <2>4. CASE phase # "last"
      BY <2>1, <2>2, <2>4, NotLast DEF PackagesOK
    <2> QED
      BY <2>3, <2>4
  <1> QED
    BY <1>1, <1>2, <1>3, <1>4

LEMMA QuietPackages ==
  ASSUME PackagesOK, UNCHANGED <<local, notes, todo, phase, result, start>>
  PROVE  PackagesOK'
  <1>1. UNCHANGED <<packages, listed, services, repos, path, upgraded, missing>>
    BY DEF local, notes
  <1>2. SameOK'
    BY <1>1, SamePackages DEF PackagesOK
  <1>3. AllSettled => AllSettled'
    BY <1>1, SameSettled
  <1>4. (upgraded => Upgraded) => (upgraded => Upgraded)'
    BY <1>1 DEF Upgraded, InPath, NamesIn
  <1>5. /\ todo = <<Of("check", None)>> => (todo = <<Of("check", None)>>)'
        /\ (\A s \in ToSet(todo) : s.op \in {"release", "checked"})
              => (\A s \in ToSet(todo) : s.op \in {"release", "checked"})'
    BY DEF Of, ToSet
  <1>6. LastOK'
    BY <1>3, <1>4, <1>5 DEF PackagesOK, LastOK
  <1> QED
    BY <1>2, <1>6 DEF PackagesOK

LEMMA NextPackages ==
  ASSUME TypeInv, PathInv, BaseOK, PackagesOK, [Next]_vars
  PROVE  PackagesOK'
  <1>1. ASSUME Step PROVE PackagesOK'
    BY <1>1, checkPackages, InstallPackages, checkedPackages, upgradePackagesPackages, LookupPackages,
       ApplyPackages, RollbackPackages, EndingPackages DEF Step
  <1>2. CASE Signal \/ Publish \/ UNCHANGED vars
    <2>1. UNCHANGED <<local, notes, todo, phase, result, start>>
      BY <1>2 DEF Signal, Publish, vars, command
    <2> QED
      BY <2>1, QuietPackages
  <1>3. CASE BootSnapshot
    BY <1>3, NotLast DEF BootSnapshot, PackagesOK, SameOK
  <1>4. ASSUME NEW c, NEW f, Start(c, f) PROVE PackagesOK'
    <2>1. /\ phase' \in {"check", "undo"} /\ UNCHANGED <<packages, listed>>
          /\ start'.packages = packages /\ start'.listed = listed
      BY <1>4 DEF Start, local
    <2> QED
      BY <2>1, NotLast DEF PackagesOK, SameOK
  <1> QED
    BY <1>1, <1>2, <1>3, <1>4, EndingPackages DEF Next

LEMMA InitPackages ==
  Init => PackagesOK
  BY DEF Init, PackagesOK, SameOK, LastOK

\* What holds of every state of a migration, of what it is to leave behind.
LEMMA CompletionHolds == Spec => [](MigrationInv /\ ServicesOK /\ PackagesOK)
  <1>1. Init => ServicesOK /\ PackagesOK
    BY InitServices, InitPackages
  <1>2. MigrationInv /\ ServicesOK /\ PackagesOK /\ [Next]_vars => (ServicesOK /\ PackagesOK)'
    BY NextServices, NextPackages DEF MigrationInv
  <1> QED
    BY <1>1, <1>2, InvariantHolds, PTL DEF Spec

\* What the services come to, when the migration reports success.
ServicesMigrated ==
    result = "ok" /\ path # <<>> =>
        /\ InPath \subseteq act
        /\ InPath \ services \subseteq known \ migrated
        /\ known # {} => services \ (Foreign \cup Plugins) \subseteq InPath
LEMMA MovedServices ==
  ASSUME MigrationInv, ServicesOK
  PROVE  ServicesMigrated
  <1>1. result = "ok" /\ path # <<>> => phase = "last" /\ ServicesMoved
    BY DEF ServicesOK
  <1>2. phase = "last" => InPath \subseteq act
    BY DEF MigrationInv, PathInv, ComesOK
  <1> QED
    BY <1>1, <1>2 DEF ServicesMigrated, ServicesMoved, Others

\* A migration that reports success has the products of its path activated; each has its
\* service, unless it was listed and the server did not name it as replaced; and no other
\* service of the server is left, if the services could be listed (migrateSystem).
THEOREM MigratesServices == Spec => []ServicesMigrated
  <1>1. MigrationInv /\ ServicesOK => ServicesMigrated
    BY MovedServices
  <1> QED
    BY <1>1, CompletionHolds, PTL

\* Unless something else was offered under the name of a product whose release package is
\* not there, or another base product's release package took the place of its, the
\* migration is complete: the products are installed and listed, too (migrateSystem,
\* upgradePackages, checkSystemProducts).
Undisturbed == upgraded /\ ~missing => \A p \in InPath \ packages : Newest(p) /\ ~Displaced(p)
THEOREM CompletesMigration == Spec => [](Undisturbed => MigrationComplete)
  <1>1. ASSUME MigrationInv, ServicesOK, PackagesOK, Undisturbed, result = "ok", path # <<>>
        PROVE  /\ upgraded /\ ~missing => InPath \subseteq packages
               /\ upgraded /\ ~missing /\ start.packages = start.listed => InPath \subseteq listed
    <2>1. phase = "last"
      BY <1>1 DEF ServicesOK
    <2>2. todo = <<>>
      BY <1>1 DEF MigrationInv, TypeInv, ControlOK, TodoOK
    <2>3. ToSet(todo) = {}
      BY <2>2, ToSetOfOne
    <2>4. upgraded /\ ~missing => InPath \subseteq packages
      BY <1>1, <2>1, <2>3 DEF PackagesOK, LastOK, AllSettled, Settled, Undisturbed
    <2>5. start.packages = start.listed => packages = listed
      BY <1>1, <2>1 DEF PackagesOK, SameOK
    <2> QED
      BY <2>4, <2>5
  <1>2. MigrationInv /\ ServicesOK /\ PackagesOK => (Undisturbed => MigrationComplete)
    BY <1>1, MovedServices DEF MigrationComplete, ServicesMigrated
  <1> QED
    BY <1>2, CompletionHolds, PTL

-----------------------------------------------------------------------------
(* Which repositories are disabled.                                         *)
\* Only products of the path have their obsolete repositories disabled, and those of a
\* Leap all.
ReposOK ==
    result = "running" /\ phase = "apply" =>
        \A s \in ToSet(todo) : /\ s.op = "cleanupRepos" => s.on \in InPath
                               /\ s.op = "disableAll" => "Leap" \in NamesIn(products)

Marked == {"cleanupRepos", "disableAll"}
\* What is still to be done, when the steps of the state after are known.
LEMMA LaterRepos ==
  ASSUME UNCHANGED <<path, products>>,
         \A s \in ToSet(todo') : /\ s.op = "cleanupRepos" => s.on \in InPath
                                 /\ s.op = "disableAll" => "Leap" \in NamesIn(products)
  PROVE  ReposOK'
  <1>1. (InPath)' = InPath /\ (ToSet(todo))' = ToSet(todo') /\ (NamesIn(products))' = NamesIn(products)
    BY DEF InPath, ToSet, NamesIn
  <1> QED
    BY <1>1 DEF ReposOK

LEMMA ThenRepos ==
  ASSUME TypeInv, ReposOK, phase = "apply", todo # <<>>,
         NEW O, O \cap Marked = {},
         NEW steps \in Seq(Steps(O)), Then(steps), UNCHANGED <<path, products>>
  PROVE  ReposOK'
  <1>1. /\ ToSet(todo) = {Head(todo)} \cup ToSet(Tail(todo))
        /\ ToSet(todo') = ToSet(steps) \cup ToSet(Tail(todo))
        /\ result = "running"
    BY ApplyParts
  <1>2. \A s \in ToSet(steps) : s.op \notin Marked
    BY StepsElements
  <1>3. \A s \in ToSet(todo') : s.op \in Marked => s \in ToSet(todo)
    BY <1>1, <1>2
  <1>4. \A s \in ToSet(todo') : /\ s.op = "cleanupRepos" => s.on \in InPath
                                /\ s.op = "disableAll" => "Leap" \in NamesIn(products)
    BY <1>1, <1>3 DEF ReposOK, Marked
  <1> QED
    BY <1>4, LaterRepos

LEMMA ApplyRepos ==
  ASSUME TypeInv, ReposOK, phase = "apply",
         RefreshRepos \/ CreatePreSnapshot \/ checkInterrupted \/ disableAllRepos
         \/ InstalledServices \/ UpgradeProduct \/ MigrationRemoveService \/ cleanupProductRepos
         \/ MigrationAddService \/ dropUnmigrated
  PROVE  ReposOK'
  <1>1. result = "running" /\ todo # <<>> /\ act \subseteq Product
    BY AtStep DEF RefreshRepos, CreatePreSnapshot, checkInterrupted, disableAllRepos,
       InstalledServices, UpgradeProduct, MigrationRemoveService, cleanupProductRepos,
       MigrationAddService, dropUnmigrated, TypeInv, DataOK
  <1>2. UNCHANGED <<path, products>>
    BY DEF RefreshRepos, CreatePreSnapshot, checkInterrupted, disableAllRepos, InstalledServices,
       UpgradeProduct, MigrationRemoveService, cleanupProductRepos, MigrationAddService,
       dropUnmigrated, notes
  <1>3. \/ Error \/ Exit("abandoned") \/ Then(<<>>)
        \/ \E S \in SUBSET Product : Then(OfSet("remove", S))
    <2>1. Obsolete(On) \in SUBSET Product /\ Unmigrated \in SUBSET Product
      BY <1>1 DEF Obsolete, Unmigrated
    <2> QED
      BY <2>1 DEF RefreshRepos, CreatePreSnapshot, checkInterrupted, disableAllRepos,
         InstalledServices, UpgradeProduct, MigrationRemoveService, cleanupProductRepos,
         MigrationAddService, dropUnmigrated
  <1>4. CASE Error \/ Exit("abandoned")
    BY <1>4 DEF Error, Exit, ReposOK
  <1>5. ASSUME NEW steps \in Seq(Steps({"remove"})), Then(steps) PROVE ReposOK'
    <2>1. {"remove"} \cap Marked = {}
      BY DEF Marked
    <2> QED
      BY <1>1, <1>2, <1>5, <2>1, ThenRepos
  <1>6. <<>> \in Seq(Steps({"remove"}))
    BY NoSteps
  <1>7. \A S \in SUBSET Product : OfSet("remove", S) \in Seq(Steps({"remove"}))
    BY OfSetOK DEF OnOne
  <1> QED
    BY <1>3, <1>4, <1>5, <1>6, <1>7

LEMMA BackupRepos ==
  ASSUME TypeInv, Backup
  PROVE  ReposOK'
  <1>1. /\ phase = "apply" /\ result = "running" /\ todo # <<>> /\ Head(todo).op = "backup"
        /\ EndsInFinal(todo) /\ todo \in Seq(Steps(Allowed)) /\ path \in Seq(Product)
    BY AtStep, Phases DEF Backup, TypeInv, ControlOK, TodoOK, DataOK, NotesOK
  <1>2. UNCHANGED <<path, products>> /\ Then(applyMigration(path))
    BY DEF Backup
  <1>3. Tail(todo) = <<>>
    BY <1>1, FinalAlone DEF Final, EndsInFinal
  <1>4. todo' = applyMigration(path)
    <2>1. applyMigration(path) \in Seq(Steps(ApplyOps))
      BY <1>1, applyMigrationOK
    <2>2. applyMigration(path) \o <<>> = applyMigration(path)
      BY <2>1
    <2> QED
      BY <1>2, <1>3, <2>2 DEF Then
  <1>5. \A s \in ToSet(todo') : /\ s.op = "cleanupRepos" => s.on \in InPath
                                /\ s.op = "disableAll" => "Leap" \in NamesIn(products)
    <2>1. \A s \in ToSet(applyMigration(path)) :
                /\ s.op = "cleanupRepos" => s.on \in ToSet(path)
                /\ s.op = "disableAll" => "Leap" \in NamesIn(products)
      BY <1>1, applyMigrationServices
    <2>2. InPath = ToSet(path)
      BY DEF InPath, ToSet
    <2> QED
      BY <1>4, <2>1, <2>2
  <1> QED
    BY <1>2, <1>5, LaterRepos

LEMMA SelectRepos ==
  ASSUME TypeInv, ReposOK, selectMigration
  PROVE  ReposOK'
  <1>1. CASE result' # "running"
    BY <1>1 DEF ReposOK
  <1>2. ASSUME NEW i \in DOMAIN Paths, Select(i) PROVE ReposOK'
    <2>1. \A s \in ToSet(todo') : s.op \in {"preSnapshot", "backup"}
      BY <1>2, ChosenOK DEF Select
    <2>2. \A s \in (ToSet(todo))' : s.op \in {"preSnapshot", "backup"}
      BY <2>1 DEF ToSet
    <2> QED
      BY <2>2 DEF ReposOK
  <1> QED
    BY <1>1, <1>2 DEF selectMigration, Exit, migrations, AllOffered

LEMMA EndingRepos ==
  ASSUME ReposOK, Finish \/ Fail \/ Kill \/ upgradePackages
  PROVE  ReposOK'
  <1>1. result' # "running" \/ phase' # "apply"
    BY DEF Finish, Fail, Kill, upgradePackages, Exit, Error
  <1> QED
    BY <1>1 DEF ReposOK

\* Nothing is disabled while the migration is not being applied.
LEMMA OutsideRepos ==
  ASSUME TypeInv, ReposOK,
         \/ PatchCheck \/ Patch \/ PatchRecheck \/ checkSystemProducts \/ InstallReleasePackage
         \/ releasePackagesChecked \/ rereadProducts \/ RollbackBase \/ RollbackExtension
         \/ ReaddService \/ syncProducts \/ SetReleaseVersion \/ Restore
         \/ (RefreshRepos /\ phase # "apply") \/ (MigrationRemoveService /\ phase # "apply")
  PROVE  ReposOK'
  <1>1. phase # "apply"
    BY Phases DEF PatchCheck, Patch, PatchRecheck, checkSystemProducts, InstallReleasePackage,
       releasePackagesChecked, rereadProducts, RollbackBase, RollbackExtension, ReaddService,
       syncProducts, SetReleaseVersion, Restore
  <1>2. phase' = phase \/ result' # "running"
    BY <1>1 DEF PatchCheck, Patch, PatchRecheck, checkSystemProducts, InstallReleasePackage,
       releasePackagesChecked, rereadProducts, RollbackBase, RollbackExtension, ReaddService,
       syncProducts, SetReleaseVersion, Restore, RefreshRepos, MigrationRemoveService,
       Then, Exit, Error, command
  <1> QED
    BY <1>1, <1>2 DEF ReposOK

LEMMA NextRepos ==
  ASSUME TypeInv, ReposOK, [Next]_vars
  PROVE  ReposOK'
  <1>1. CASE checkInterrupted \/ disableAllRepos \/ InstalledServices \/ UpgradeProduct
             \/ cleanupProductRepos \/ MigrationAddService \/ dropUnmigrated \/ CreatePreSnapshot
    <2>1. phase = "apply"
      BY <1>1, Phases DEF checkInterrupted, disableAllRepos, InstalledServices, UpgradeProduct,
         cleanupProductRepos, MigrationAddService, dropUnmigrated, CreatePreSnapshot
    <2> QED
      BY <1>1, <2>1, ApplyRepos
  <1>2. ASSUME Step PROVE ReposOK'
    BY <1>1, <1>2, ApplyRepos, SelectRepos, BackupRepos, EndingRepos, OutsideRepos DEF Step
  <1>3. CASE Signal \/ Publish \/ BootSnapshot \/ UNCHANGED vars
    <2>1. UNCHANGED <<path, products, todo, phase>> /\ (result' = result \/ result' # "running")
      BY <1>3 DEF Signal, Publish, BootSnapshot, vars, notes, command
    <2> QED
      BY <2>1 DEF ReposOK, InPath, NamesIn, ToSet
  <1>4. ASSUME NEW c, NEW f, Start(c, f) PROVE ReposOK'
    <2>1. phase' # "apply"
      BY <1>4 DEF Start
    <2> QED
      BY <2>1 DEF ReposOK
  <1> QED
    BY <1>2, <1>3, <1>4, EndingRepos DEF Next

LEMMA InitRepos ==
  Init => ReposOK
  BY DEF Init, ReposOK

\* A number in parts that is compared part by part, as Weight weighs it.
LEMMA OlderIsLess ==
  ASSUME NEW v \in Seq(0..99), NEW w \in Seq(0..99), Len(v) <= 2, Len(w) <= 2,
         compareEditions(v, w)
  PROVE  Weight(v) < Weight(w)
  <1>1. \A i \in Nat \ {0} : /\ Part(v, i) \in 0..99 /\ Part(w, i) \in 0..99
                             /\ i > 2 => Part(v, i) = 0 /\ Part(w, i) = 0
    <2>1. \A u, S : u \in Seq(S) => Len(u) \in Nat /\ \A i \in 1..Len(u) : u[i] \in S
      OBVIOUS
    <2>2. ASSUME NEW i \in Nat \ {0}
          PROVE  /\ Part(v, i) \in 0..99 /\ Part(w, i) \in 0..99
                 /\ i > 2 => Part(v, i) = 0 /\ Part(w, i) = 0
      BY <2>1 DEF Part
    <2> QED
      BY <2>2
  <1>2. PICK i \in 1..(Len(v) + Len(w)) : /\ Part(v, i) < Part(w, i)
                                          /\ \A j \in 1..(i - 1) : Part(v, j) = Part(w, j)
    BY DEF compareEditions
  <1>3. i = 1 \/ (i = 2 /\ Part(v, 1) = Part(w, 1))
    <2>1. i \in Nat \ {0} /\ ~(i > 2)
      BY <1>1, <1>2
    <2>2. i = 1 \/ i = 2
      BY <2>1
    <2>3. i = 2 => 1 \in 1..(i - 1)
      OBVIOUS
    <2> QED
      BY <1>2, <2>2, <2>3
  <1> DEFINE a == Part(v, 1)  b == Part(v, 2)  c == Part(w, 1)  d == Part(w, 2)
  <1>4. a \in 0..99 /\ b \in 0..99 /\ c \in 0..99 /\ d \in 0..99
    BY <1>1
  <1>5. a < c \/ (a = c /\ b < d)
    BY <1>2, <1>3
  <1>6. Weight(v) = 100 * a + b /\ Weight(w) = 100 * c + d
    BY DEF Weight
  <1> HIDE DEF a, b, c, d
  <1>7. 100 * a + b < 100 * c + d
    BY <1>4, <1>5
  <1> QED
    BY <1>6, <1>7

\* The versions are numbers of at most two parts below a hundred, which Weight can weigh.
TwoParts == \A v \in Versions : v \in Seq(0..99) /\ Len(v) <= 2
LEMMA DisabledIsObsolete ==
  ASSUME TwoParts, TypeInv, ReposOK, [Next]_vars
  PROVE  DisablesOnlyObsolete
  <1> SUFFICES ASSUME result = "running", phase = "apply", "Leap" \notin NamesIn(products),
                      NEW r \in repos \ repos'
               PROVE  ReallyObsolete(r)
    BY DEF DisablesOnlyObsolete
  <1>0. \A s \in ToSet(todo) : s.op = "disableAll" => "Leap" \in NamesIn(products)
    BY DEF ReposOK
  <1>1. CASE cleanupProductRepos
    <2>1. /\ todo # <<>> /\ Head(todo).op = "cleanupRepos" /\ On \in Product /\ result = "running"
          /\ ToSet(todo) = {Head(todo)} \cup ToSet(Tail(todo))
      BY <1>1, AtStep, HeadStep DEF cleanupProductRepos, OnOne, TypeInv, ControlOK
    <2>2. On \in InPath
      <3>1. Head(todo) \in ToSet(todo)
        BY <2>1
      <3>2. Head(todo).op = "cleanupRepos" => Head(todo).on \in InPath
        BY <3>1 DEF ReposOK
      <3> QED
        BY <2>1, <3>2 DEF On
    <2>3. r \in ObsoleteRepos(On)
      BY <1>1 DEF cleanupProductRepos
    <2>4. PICK q \in Offers[r] : q.name = On.name /\ compareEditions(q.version, On.version)
      BY <2>3 DEF ObsoleteRepos
    <2>5. q \in Product
      BY <2>4, OptionsAssumption DEF TypeInv, DataOK, LocalOK
    <2>6. q.version \in Versions /\ On.version \in Versions
      BY <2>1, <2>5 DEF Product
    <2>7. Weight(q.version) < Weight(On.version)
      BY <2>4, <2>6, OlderIsLess DEF TwoParts
    <2> QED
      BY <2>2, <2>4, <2>7 DEF ReallyObsolete
  <1>2. CASE disableAllRepos
    <2>1. /\ todo # <<>> /\ Head(todo).op = "disableAll" /\ result = "running"
          /\ ToSet(todo) = {Head(todo)} \cup ToSet(Tail(todo))
      BY <1>2, AtStep, HeadStep DEF disableAllRepos, TypeInv, ControlOK
    <2>2. Head(todo) \in ToSet(todo)
      BY <2>1
    <2>3. \A s \in ToSet(todo) : s.op = "disableAll" => "Leap" \in NamesIn(products)
      BY <1>0
    <2> QED
      BY <2>1, <2>2, <2>3
  <1>3. CASE Restore
    BY <1>3, Phases DEF Restore
  <1>4. CASE BootSnapshot
    BY <1>4 DEF BootSnapshot
  <1>5. CASE UNCHANGED repos
    BY <1>5
  <1>6. ASSUME Step PROVE cleanupProductRepos \/ disableAllRepos \/ Restore \/ UNCHANGED repos
    BY <1>6 DEF Step, PatchCheck, Patch, PatchRecheck, RefreshRepos, checkSystemProducts,
       InstallReleasePackage, releasePackagesChecked, rereadProducts, selectMigration,
       CreatePreSnapshot, Backup, checkInterrupted, InstalledServices, UpgradeProduct,
       MigrationRemoveService, MigrationAddService, dropUnmigrated, upgradePackages,
       RollbackBase, RollbackExtension, ReaddService, syncProducts, SetReleaseVersion, Finish,
       Downgrade, local
  <1> QED
    BY <1>1, <1>2, <1>3, <1>4, <1>5, <1>6 DEF Next, Fail, Kill, Signal, Publish, Start, vars, local

\* The migration of a system that is no Leap disables a repository only if it has a product
\* of the path in a version that really is older (cleanupProductRepos, disableAllRepos).
THEOREM DisablesObsolete ==
  ASSUME TwoParts
  PROVE  Spec => OnlyObsoleteRepos
  <1>1. Init => ReposOK
    BY InitRepos
  <1>2. MigrationInv /\ ReposOK /\ [Next]_vars => ReposOK'
    BY NextRepos DEF MigrationInv
  <1>3. MigrationInv /\ ReposOK /\ [Next]_vars => [DisablesOnlyObsolete]_vars
    BY DisabledIsObsolete DEF MigrationInv
  <1> QED
    BY <1>1, <1>2, <1>3, InvariantHolds, PTL DEF Spec, OnlyObsoleteRepos

\* What the rollback does before the migration or after it, step by step.
LEMMA RollbackSteps ==
  ASSUME TypeInv,
         RollbackBase \/ RollbackExtension \/ MigrationRemoveService \/ ReaddService
         \/ syncProducts \/ SetReleaseVersion
  PROVE  /\ result = "running" /\ todo # <<>> /\ Head(todo).op \in RollbackOps
         /\ UNCHANGED <<repos, listed, packages, backup, backedUp, snapshot, path, products>>
         /\ Error \/ \E steps \in Seq(Steps(RollbackOps)) : Then(steps)
  <1>1. /\ result = "running" /\ todo # <<>> /\ Head(todo).op \in RollbackOps
        /\ Head(todo).op \in {"downgrade"} => On \in Product
        /\ act \subseteq Product
    BY AtStep DEF RollbackBase, RollbackExtension, MigrationRemoveService, ReaddService,
       syncProducts, SetReleaseVersion, RollbackOps, OnOne, TypeInv, DataOK
  <1>2. UNCHANGED <<repos, listed, packages, backup, backedUp, snapshot, path, products>>
    BY DEF RollbackBase, RollbackExtension, MigrationRemoveService, ReaddService,
       syncProducts, SetReleaseVersion, Downgrade, local, saved, notes
  <1>3. Error \/ \E steps \in Seq(Steps(RollbackOps)) : Then(steps)
    <2>1. CASE RollbackBase /\ ~Error
      <3>1. PICK b \in Bases(listed) : Then(Refresh(b) \o DowngradeExtensions(b) \o Just("sync"))
        BY <2>1 DEF RollbackBase
      <3>2. b \in Bases(Product) /\ b \in Product
        BY DEF Bases, TypeInv, DataOK, LocalOK
      <3>3. Refresh(b) \in Seq(Steps(RollbackOps))
        BY <1>1, <3>2, RefreshOK
      <3>4. DowngradeExtensions(b) \in Seq(Steps(RollbackOps)) /\ Just("sync") \in Seq(Steps(RollbackOps))
        BY <3>2, DowngradeExtensionsOK, DoOK DEF RollbackOps, OnOne
      <3>5. Refresh(b) \o DowngradeExtensions(b) \o Just("sync") \in Seq(Steps(RollbackOps))
        BY <3>3, <3>4, JoinSteps
      <3> QED
        BY <3>1, <3>5
    <2>2. CASE RollbackExtension
      <3>1. Refresh(On) \in Seq(Steps(RollbackOps))
        BY <1>1, <2>2, RefreshOK DEF RollbackExtension, At
      <3> QED
        BY <2>2, <3>1 DEF RollbackExtension
    <2>3. CASE syncProducts
      <3>1. Just("releasever") \in Seq(Steps(RollbackOps))
        BY DoOK DEF RollbackOps, OnOne
      <3> QED
        BY <2>3, <3>1 DEF syncProducts
    <2>4. CASE MigrationRemoveService \/ ReaddService \/ SetReleaseVersion
      BY <2>4, NoSteps DEF MigrationRemoveService, ReaddService, SetReleaseVersion
    <2> QED
      BY <2>1, <2>2, <2>3, <2>4
  <1> QED
    BY <1>1, <1>2, <1>3

-----------------------------------------------------------------------------
(* The order of the upgrades.                                               *)
\* The base product the path leads to is not one that is listed and not activated.
Based == \A b \in Bases(InPath) : b \in start.listed => b \in start.act
\* It comes before the products that are no base product, in the path, or in the steps.
BaseLeads(b) == \A j \in DOMAIN path : path[j].name \notin BaseNames => \E i \in 1..(j - 1) : path[i] = b
BaseComes(b) == \A p \in InPath : p.name \notin BaseNames => Behind(Upgrading(p), {Upgrading(b)}, todo)
Leading(b)   == \/ b \in act
                \/ BackingUp \in ToSet(todo) /\ BaseLeads(b)
                \/ BackingUp \notin ToSet(todo) /\ BaseComes(b)
CheckedOps == {"release", "checked", "fetch"}
OrderOK ==
    /\ result = "running" /\ phase = "check" =>
        /\ todo \in Lookups => listed = start.listed
        /\ todo \notin Lookups /\ ~missing =>
            /\ act = start.act /\ products = start.listed \cup start.act
            /\ \A s \in ToSet(todo) : s.op \in CheckedOps
    /\ result = "running" /\ phase = "apply" /\ ~missing =>
        \A b \in Bases(InPath) : (b \in start.listed => b \in start.act) => Leading(b)

\* The sort puts a base product that is not installed before every other product.
LEMMA SortLeads ==
  ASSUME NEW m \in Seq(Product), NEW ids, NEW r \in sortMigrationProducts(m, ids),
         NEW k \in DOMAIN r, r[k].name \in BaseNames, r[k] \notin ids,
         NEW j \in DOMAIN r, r[j].name \notin BaseNames
  PROVE  k \in 1..(j - 1)
  <1>1. PICK f \in Bijection(DOMAIN m, DOMAIN m) :
           /\ r = [i \in DOMAIN m |-> m[f[i]]]
           /\ \A i, l \in DOMAIN m : i < l =>
                LET before(p, q) == IF (p \in ids) # (q \in ids) THEN p \notin ids
                                    ELSE p.name \in BaseNames /\ q.name \notin BaseNames
                IN  before(m[f[i]], m[f[l]]) \/ (~before(m[f[l]], m[f[i]]) /\ f[i] < f[l])
    BY DEF sortMigrationProducts, InOrder
  <1>2. /\ DOMAIN r = DOMAIN m /\ DOMAIN m = 1..Len(m) /\ Len(m) \in Nat
        /\ \A i \in DOMAIN m : r[i] = m[f[i]]
    BY <1>1
  <1>3. ~(j < k)
    <2> SUFFICES ASSUME j < k PROVE FALSE
      OBVIOUS
    <2>1. LET before(p, q) == IF (p \in ids) # (q \in ids) THEN p \notin ids
                              ELSE p.name \in BaseNames /\ q.name \notin BaseNames
          IN  before(r[j], r[k]) \/ ~before(r[k], r[j])
      BY <1>1, <1>2
    <2> QED
      BY <2>1
  <1>4. j # k
    OBVIOUS
  <1> QED
    BY <1>2, <1>3, <1>4

\* So does the loop of migrateSystem, for a path that does.
LEMMA LoopLeads ==
  ASSUME NEW m \in Seq(Product), NEW b \in Product, NEW p \in Product,
         \A j \in DOMAIN m : m[j] = p => \E i \in 1..(j - 1) : m[i] = b
  PROVE  Behind(Upgrading(p), {Upgrading(b)}, FlattenSeq([i \in DOMAIN m |-> MigrateProduct(m[i])]))
  <1> DEFINE S == Steps(Inner)
             ss == [i \in DOMAIN m |-> MigrateProduct(m[i])]
             x  == Upgrading(p)
             Y  == {Upgrading(b)}
  <1>1. Len(m) \in Nat /\ DOMAIN m = 1..Len(m) /\ \A i \in 1..Len(m) : m[i] \in Product
    OBVIOUS
  <1>2. /\ ss \in Seq(Seq(S)) /\ Len(ss) = Len(m)
        /\ \A i \in 1..Len(m) : ss[i] = MigrateProduct(m[i]) /\ ss[i] \in Seq(S)
    <2>1. ss \in [1..Len(m) -> Seq(S)]
      BY <1>1, MigrateProductOK
    <2> QED
      BY <1>1, <2>1
  <1> HIDE DEF ss, S
  <1>3. PICK f \in [0..Len(ss) -> Seq(S)] :
           /\ f[0] = <<>> /\ f[Len(ss)] = FlattenSeq(ss)
           /\ \A i \in 1..Len(ss) : f[i] = f[i - 1] \o ss[i]
    BY <1>2, FlattenSteps
  <1>4. \A i \in 1..Len(m) : /\ f[i] = f[i - 1] \o ss[i] /\ f[i - 1] \in Seq(S) /\ ss[i] \in Seq(S)
                             /\ ToSet(f[i]) = ToSet(f[i - 1]) \cup ToSet(ss[i])
    <2>1. ASSUME NEW i \in 1..Len(m)
          PROVE  f[i] = f[i - 1] \o ss[i] /\ f[i - 1] \in Seq(S) /\ ss[i] \in Seq(S)
      <3>1. i - 1 \in 0..Len(ss) /\ i \in 1..Len(ss)
        BY <1>1, <1>2
      <3>2. f[i] = f[i - 1] \o ss[i] /\ f[i - 1] \in Seq(S)
        BY <1>3, <3>1
      <3> QED
        BY <1>2, <3>2
    <2> QED
      BY <2>1, ToSetOfJoin
  <1>5. \A i \in 1..Len(m) : /\ Upgrading(m[i]) \in ToSet(ss[i])
                             /\ x \in ToSet(ss[i]) => m[i] = p
    <2>1. ASSUME NEW i \in 1..Len(m)
          PROVE  Upgrading(m[i]) \in ToSet(ss[i]) /\ (x \in ToSet(ss[i]) => m[i] = p)
      <3>1. ss[i] = MigrateProduct(m[i]) /\ m[i] \in Product
        BY <1>1, <1>2
      <3>2. /\ [op |-> "upgrade", on |-> m[i]] \in ToSet(MigrateProduct(m[i]))
            /\ \A s \in ToSet(MigrateProduct(m[i])) : s.op = "upgrade" => s.on = m[i]
        BY <3>1, MigrateProductOK
      <3> QED
        BY <3>1, <3>2 DEF Upgrading
    <2> QED
      BY <2>1
  <1> HIDE DEF x, Y
  <1> DEFINE Seen(i) == \A j \in 1..i : m[j] = b => ToSet(f[i]) \cap Y # {}
             G == {i \in 0..Len(m) : Behind(x, Y, f[i]) /\ Seen(i)}
  <1>6. 0 \in G
    <2>1. Behind(x, Y, <<>>)
      BY BehindNone, ToSetOfOne, NoSteps
    <2> QED
      BY <1>1, <1>3, <2>1
  <1>7. ASSUME NEW i \in 1..Len(m), i - 1 \in G PROVE i \in G
    <2>1. Behind(x, Y, f[i - 1]) /\ Seen(i - 1)
      BY <1>7
    <2>2. Seen(i)
      <3> SUFFICES ASSUME NEW j \in 1..i, m[j] = b PROVE ToSet(f[i]) \cap Y # {}
        OBVIOUS
      <3>1. CASE j = i
        BY <1>4, <1>5, <3>1 DEF Y
      <3>2. CASE j # i
        <4>1. j \in 1..(i - 1)
          BY <3>2
        <4>2. ToSet(f[i - 1]) \cap Y # {}
          BY <2>1, <4>1
        <4> QED
          BY <1>4, <4>2
      <3> QED
        BY <3>1, <3>2
    <2>3. Behind(x, Y, ss[i]) \/ ToSet(f[i - 1]) \cap Y # {}
      <3>1. CASE x \notin ToSet(ss[i])
        BY <1>4, <3>1, BehindNone
      <3>2. CASE m[i] = p
        <4>1. PICK j \in 1..(i - 1) : m[j] = b
          BY <1>1, <3>2
        <4> QED
          BY <2>1, <4>1
      <3> QED
        BY <1>5, <3>1, <3>2
    <2>4. Behind(x, Y, f[i])
      BY <1>4, <2>1, <2>3, BehindJoin
    <2> QED
      BY <1>1, <2>2, <2>4
  <1>8. Behind(x, Y, f[Len(m)])
    <2> HIDE DEF G
    <2>1. \A i \in 0..Len(m) : i \in G
      BY <1>1, <1>6, <1>7, UpTo
    <2>2. Len(m) \in G
      BY <1>1, <2>1
    <2> QED
      BY <2>2 DEF G
  <1> QED
    BY <1>2, <1>3, <1>8 DEF x, Y, ss

LEMMA NoOrder ==
  ASSUME result' # "running" \/ phase' \notin {"check", "apply"}
  PROVE  OrderOK'
  BY DEF OrderOK

\* While the migrations are looked up.
LEMMA LateLook ==
  ASSUME TypeInv, CheckOK, result = "running", phase = "check", todo # <<>>,
         Head(todo).op \notin Early,
         NEW O, O \cap Early = {}, NEW steps \in Seq(Steps(O)), Then(steps)
  PROVE  /\ todo \notin Lookups /\ todo' \notin Lookups
         /\ Head(todo) \in ToSet(todo)
         /\ ToSet(todo') \subseteq ToSet(steps) \cup ToSet(todo)
         /\ \A s \in ToSet(steps) : s.op \in O
         /\ UNCHANGED <<start, result, phase>>
  <1>1. /\ ToSet(todo) = {Head(todo)} \cup ToSet(Tail(todo)) /\ Tail(todo) \in Seq(Steps(Allowed))
    BY HeadStep DEF TypeInv, ControlOK
  <1>2. /\ steps \in Seq(Steps(O \cup Allowed)) /\ Tail(todo) \in Seq(Steps(O \cup Allowed))
    BY <1>1, MoreSteps
  <1>3. /\ ToSet(todo') = ToSet(steps) \cup ToSet(Tail(todo)) /\ UNCHANGED <<start, result, phase>>
        /\ todo' \in Seq(Steps(O \cup Allowed))
    BY <1>2, ToSetOfJoin DEF Then, command
  <1>4. \A s \in ToSet(steps) : s.op \in O
    BY StepsElements
  <1>5. todo \notin Lookups
    BY LookupSteps
  <1>6. \A s \in ToSet(todo') : s.op \notin Early
    BY <1>1, <1>3, <1>4, <1>5 DEF CheckOK
  <1>7. ASSUME todo' \in Lookups PROVE FALSE
    <2>1. todo' # <<>> /\ Head(todo').op \in Early
      BY <1>7, LookupSteps
    <2>2. Head(todo') \in ToSet(todo')
      <3>1. Head(todo') = todo'[1] /\ 1 \in 1..Len(todo')
        BY <1>3, <2>1
      <3> QED
        BY <1>3, <3>1, ElementAt
    <2> QED
      BY <1>6, <2>1, <2>2
  <1> QED
    BY <1>1, <1>3, <1>4, <1>5, <1>7

LEMMA LookOrder ==
  ASSUME result' = "running", phase' = "check", todo' \in Lookups, listed' = start'.listed
  PROVE  OrderOK'
  <1>1. (todo \in Lookups)'
    BY DEF Lookups, Checking, Refreshing, Patching, Of
  <1> QED
    BY <1>1 DEF OrderOK

LEMMA LaterOrder ==
  ASSUME result' = "running", phase' = "check", todo' \notin Lookups,
         ~missing' => /\ act' = start'.act /\ products' = start'.listed \cup start'.act
                      /\ \A s \in ToSet(todo') : s.op \in CheckedOps
  PROVE  OrderOK'
  <1>1. (todo \notin Lookups)'
    BY DEF Lookups, Checking, Refreshing, Patching, Of
  <1>2. ~missing' => (\A s \in ToSet(todo) : s.op \in CheckedOps)'
    BY DEF ToSet, CheckedOps
  <1> QED
    BY <1>1, <1>2 DEF OrderOK

LEMMA PatchOrder ==
  ASSUME TypeInv, FilesInv, OrderOK, PatchCheck \/ Patch \/ PatchRecheck
  PROVE  OrderOK'
  <1>1. /\ phase = "check" /\ result = "running" /\ todo # <<>> /\ cmd = "migration"
        /\ Head(todo).op \in {"patchCheck", "patch", "patchRecheck"}
        /\ Head(todo) \in ToSet(todo)
    BY AtStep, Phases, HeadStep DEF PatchCheck, Patch, PatchRecheck, TypeInv, ControlOK, SignalOK
  <1>2. /\ UNCHANGED listed /\ UNCHANGED <<start, phase>>
    BY DEF PatchCheck, Patch, PatchRecheck, local, Then, command, Exit
  <1>3. todo \in Lookups
    BY <1>1 DEF FilesInv, CheckOK, Early
  <1>4. Tail(todo) = Refreshing /\ listed = start.listed
    BY <1>1, <1>3, LookupSteps DEF OrderOK
  <1>5. Exit("failed") \/ (UNCHANGED result /\ todo' \in Lookups)
    <2>1. CASE PatchCheck
      BY <1>4, <2>1, PatchLookup DEF PatchCheck, Then, command, Lookups
    <2>2. CASE Patch
      BY <1>4, <2>2, PatchLookup DEF Patch, Then, command, Lookups
    <2>3. CASE PatchRecheck
      BY <1>1, <2>3, BeginLookup DEF PatchRecheck
    <2> QED
      BY <2>1, <2>2, <2>3
  <1> QED
    BY <1>1, <1>2, <1>4, <1>5, NoOrder, LookOrder DEF Exit

LEMMA RefreshOrder ==
  ASSUME TypeInv, FilesInv, OrderOK, RefreshRepos, phase = "check"
  PROVE  OrderOK'
  <1>1. /\ result = "running" /\ todo # <<>> /\ Head(todo).op = "refresh"
        /\ Head(todo) \in ToSet(todo)
    BY AtStep, HeadStep DEF RefreshRepos, TypeInv, ControlOK
  <1>2. todo \in Lookups
    BY <1>1 DEF FilesInv, CheckOK, Early
  <1>3. Tail(todo) = Checking /\ listed = start.listed
    BY <1>1, <1>2, LookupSteps DEF OrderOK
  <1>4. UNCHANGED <<listed, start, phase, result>> /\ todo' = Checking
    BY <1>3, PatchLookup DEF RefreshRepos, local, Then, command
  <1> QED
    BY <1>1, <1>3, <1>4, LookOrder DEF Lookups

LEMMA checkOrder ==
  ASSUME TypeInv, FilesInv, OrderOK, checkSystemProducts
  PROVE  OrderOK'
  <1>1. /\ phase \in {"check", "last"} /\ result = "running" /\ todo # <<>>
        /\ Head(todo).op = "check" /\ Head(todo) \in ToSet(todo)
        /\ act \subseteq Product /\ listed \subseteq Product
    BY AtStep, Phases, HeadStep DEF checkSystemProducts, TypeInv, ControlOK, DataOK, LocalOK
  <1> DEFINE R == {p \in products' : ~environ \/ p.name \notin NamesIn(packages)}
             u == OfSet("release", R) \o Just("checked")
  <1>2. /\ UNCHANGED <<act, listed, start, phase, result>>
        /\ products' = listed \cup act /\ Then(u)
    BY DEF checkSystemProducts, server, local, Then, command, SystemProducts
  <1>3. CASE phase = "last"
    BY <1>2, <1>3, NoOrder
  <1>4. CASE phase = "check"
    <2>1. todo \in Lookups /\ act = start.act
      BY <1>1, <1>4 DEF FilesInv, CheckOK, Early
    <2>2. Tail(todo) = Fetching /\ listed = start.listed
      BY <1>1, <1>4, <2>1, LookupSteps DEF OrderOK
    <2>3. R \in SUBSET Product
      BY <1>1, <1>2
    <2> HIDE DEF R
    <2>4. OfSet("release", R) \in Seq(Steps(CheckedOps)) /\ Just("checked") \in Seq(Steps(CheckedOps))
      BY <2>3, OfSetOK, DoOK DEF OnOne, CheckedOps
    <2>5. u \in Seq(Steps(CheckedOps)) /\ Fetching \in Seq(Steps(CheckedOps))
      <3>1. Just("fetch") \in Seq(Steps(CheckedOps))
        BY DoOK DEF OnOne, CheckedOps
      <3>2. Just("fetch") = Fetching
        BY DEF Fetching, Just, Do, Of
      <3> QED
        BY <2>4, <3>1, <3>2, JoinSteps
    <2> HIDE DEF u
    <2>6. todo' = u \o Fetching
      BY <1>2, <2>2 DEF Then
    <2>7. todo' \in Seq(Steps(CheckedOps))
      BY <2>5, <2>6, JoinSteps
    <2>8. \A s \in ToSet(todo') : s.op \in CheckedOps
      BY <2>7, StepsElements
    <2>9. CASE todo' \in Lookups
      BY <1>1, <1>2, <1>4, <2>2, <2>9, LookOrder
    <2>10. CASE todo' \notin Lookups
      BY <1>1, <1>2, <1>4, <2>1, <2>2, <2>8, <2>10, LaterOrder
    <2> QED
      BY <2>9, <2>10
  <1> QED
    BY <1>1, <1>3, <1>4

LEMMA InstallOrder ==
  ASSUME TypeInv, FilesInv, OrderOK, InstallReleasePackage
  PROVE  OrderOK'
  <1>1. /\ phase \in {"check", "last"} /\ result = "running" /\ todo # <<>>
        /\ Head(todo).op = "release" /\ Then(<<>>) /\ UNCHANGED <<act, products, phase, result>>
        /\ ~missing' => ~missing
    BY AtStep, Phases DEF InstallReleasePackage, server, Then, command, TypeInv, DataOK, NotesOK
  <1>2. CASE phase = "last"
    BY <1>1, <1>2, NoOrder
  <1>3. CASE phase = "check"
    <2>1. <<>> \in Seq(Steps({})) /\ {} \cap Early = {} /\ Head(todo).op \notin Early
      BY <1>1, NoSteps DEF Early
    <2>2. /\ todo \notin Lookups /\ todo' \notin Lookups
          /\ ToSet(todo') \subseteq ToSet(<<>>) \cup ToSet(todo) /\ \A s \in ToSet(<<>>) : s.op \in {}
          /\ start' = start
      BY <1>1, <1>3, <2>1, LateLook DEF FilesInv
    <2>3. ToSet(todo') \subseteq ToSet(todo)
      BY <2>2
    <2>4. ~missing => /\ act = start.act /\ products = start.listed \cup start.act
                      /\ \A s \in ToSet(todo) : s.op \in CheckedOps
      BY <1>1, <1>3, <2>2 DEF OrderOK
    <2> QED
      BY <1>1, <1>3, <2>2, <2>3, <2>4, LaterOrder
  <1> QED
    BY <1>1, <1>2, <1>3

\* What is done after a release package was missing, and the look at that.
LEMMA MissedOrder ==
  ASSUME TypeInv, FilesInv, OrderOK, phase = "check",
         releasePackagesChecked \/ rereadProducts \/ RollbackBase \/ RollbackExtension
         \/ MigrationRemoveService \/ ReaddService \/ syncProducts \/ SetReleaseVersion
  PROVE  OrderOK'
  <1> DEFINE O == {"base", "reread"} \cup RollbackOps
  <1>1. /\ result = "running" /\ todo # <<>> /\ UNCHANGED <<missing, products>>
        /\ Head(todo).op \in {"checked", "reread"} \cup RollbackOps
        /\ \/ Error
           \/ \E steps \in Seq(Steps(O)) : Then(steps)
        /\ Head(todo).op = "checked" /\ ~missing => Then(<<>>) /\ UNCHANGED act
    <2>1. CASE releasePackagesChecked \/ rereadProducts
      <3>1. Just("base") \in Seq(Steps(O)) /\ Just("reread") \in Seq(Steps(O)) /\ <<>> \in Seq(Steps(O))
        BY DoOK, NoSteps DEF OnOne
      <3>2. Just("base") \o Just("reread") \in Seq(Steps(O))
        <4> HIDE DEF O
        <4> QED
          BY <3>1, JoinSteps
      <3>3. Then(<<>>) \/ Then(Just("base") \o Just("reread"))
        BY <2>1 DEF releasePackagesChecked, rereadProducts
      <3> HIDE DEF O
      <3>4. /\ result = "running" /\ todo # <<>> /\ UNCHANGED <<missing, products, act>>
            /\ Head(todo).op \in {"checked", "reread"}
            /\ Head(todo).op = "checked" /\ ~missing => Then(<<>>)
        BY <2>1, AtStep DEF releasePackagesChecked, rereadProducts, notes, server
      <3> QED
        BY <3>1, <3>2, <3>3, <3>4
    <2>2. CASE ~(releasePackagesChecked \/ rereadProducts)
      <3>1. /\ result = "running" /\ todo # <<>> /\ Head(todo).op \in RollbackOps
            /\ UNCHANGED products
            /\ Error \/ \E steps \in Seq(Steps(RollbackOps)) : Then(steps)
        BY <2>2, RollbackSteps
      <3>2. UNCHANGED missing
        BY <2>2 DEF RollbackBase, RollbackExtension, MigrationRemoveService, ReaddService,
           syncProducts, SetReleaseVersion, Downgrade, notes
      <3>3. RollbackOps \subseteq O
        OBVIOUS
      <3>4. \A steps \in Seq(Steps(RollbackOps)) : steps \in Seq(Steps(O))
        <4> HIDE DEF O
        <4> QED
          BY <3>3, MoreSteps
      <3>5. Head(todo).op # "checked"
        BY <3>1 DEF RollbackOps
      <3> HIDE DEF O
      <3> QED
        BY <3>1, <3>2, <3>4, <3>5
    <2> QED
      BY <2>1, <2>2
  <1>2. CASE Error
    BY <1>2, NoOrder DEF Error, Exit
  <1>3. O \cap Early = {} /\ Head(todo).op \notin Early
    BY <1>1 DEF RollbackOps, Early
  <1>4. ASSUME NEW steps \in Seq(Steps(O)), Then(steps) PROVE OrderOK'
    <2> HIDE DEF O
    <2>1. /\ todo \notin Lookups /\ todo' \notin Lookups /\ Head(todo) \in ToSet(todo)
          /\ UNCHANGED <<start, result, phase>>
          /\ ToSet(todo') \subseteq ToSet(steps) \cup ToSet(todo)
      BY <1>1, <1>3, <1>4, LateLook DEF FilesInv
    <2>2. ~missing => /\ act = start.act /\ products = start.listed \cup start.act
                      /\ \A s \in ToSet(todo) : s.op \in CheckedOps
      BY <1>1, <2>1 DEF OrderOK
    <2>3. ASSUME ~missing
          PROVE  /\ act' = start'.act /\ products' = start'.listed \cup start'.act
                 /\ \A s \in ToSet(todo') : s.op \in CheckedOps
      <3>1. Head(todo).op = "checked"
        BY <1>1, <2>1, <2>2, <2>3 DEF CheckedOps, RollbackOps
      <3>2. Then(<<>>) /\ act' = act
        BY <1>1, <2>3, <3>1
      <3>3. <<>> \in Seq(Steps(O)) /\ ToSet(<<>>) = {}
        BY NoSteps, ToSetOfOne
      <3>4. ToSet(todo') \subseteq ToSet(<<>>) \cup ToSet(todo)
        BY <1>1, <1>3, <3>2, <3>3, LateLook DEF FilesInv
      <3> QED
        BY <1>1, <2>1, <2>2, <2>3, <3>2, <3>3, <3>4
    <2> QED
      BY <1>1, <2>1, <2>3, LaterOrder
  <1> QED
    BY <1>1, <1>2, <1>4

\* While a migration is applied.
LEMMA ApplyingOrder ==
  ASSUME phase' = "apply", UNCHANGED <<path, start>>,
         ~missing' => \A b \in Bases(InPath) : (b \in start.listed => b \in start.act) =>
            \/ b \in act'
            \/ BackingUp \in ToSet(todo') /\ BaseLeads(b)
            \/ /\ BackingUp \notin ToSet(todo')
               /\ \A p \in InPath : p.name \notin BaseNames =>
                      Behind(Upgrading(p), {Upgrading(b)}, todo')
  PROVE  OrderOK'
  <1>1. (Bases(InPath))' = Bases(InPath) /\ (InPath)' = InPath
    BY DEF Bases, InPath
  <1>2. (BackingUp \in ToSet(todo))' <=> BackingUp \in ToSet(todo')
    BY DEF BackingUp, ToSet
  <1>3. \A b : (BaseLeads(b))' <=> BaseLeads(b)
    BY DEF BaseLeads
  <1>4. \A b : (BaseComes(b))' <=> \A p \in InPath : p.name \notin BaseNames =>
                      Behind(Upgrading(p), {Upgrading(b)}, todo')
    BY <1>1 DEF BaseComes, Behind, Upgrading
  <1> QED
    BY <1>1, <1>2, <1>3, <1>4 DEF OrderOK, Leading

LEMMA SelectOrder ==
  ASSUME TypeInv, PathInv, FilesInv, OrderOK, selectMigration
  PROVE  OrderOK'
  <1>1. /\ phase = "check" /\ result = "running" /\ todo # <<>> /\ Head(todo).op = "fetch"
        /\ UNCHANGED <<act, products, missing>>
    BY AtStep, Phases DEF selectMigration, server
  <1>2. todo \notin Lookups
    BY <1>1, LookupSteps DEF Early
  <1>3. ~missing => act = start.act /\ products = start.listed \cup start.act
    BY <1>1, <1>2 DEF OrderOK
  <1>4. ASSUME NEW i \in DOMAIN Paths, Select(i) PROVE OrderOK'
    <2>1. /\ path' \in sortMigrationProducts(Paths[i].to, products)
          /\ todo' = Chosen /\ phase' = "apply" /\ UNCHANGED start
      BY <1>4 DEF Select
    <2>2. Paths[i].to \in Seq(Product)
      <3>1. Paths[i] \in [from : SUBSET Product, to : Seq(Product)]
        BY ProductsAssumption, ElementIn
      <3> QED
        BY <3>1
    <2>3. BackingUp \in ToSet(todo')
      BY <2>1, ChosenOK DEF BackingUp
    <2>4. ASSUME ~missing, NEW b, b \in (Bases(InPath))', b \in start.listed => b \in start.act,
                 b \notin act'
          PROVE  (BaseLeads(b))'
      <3>1. b.name \in BaseNames /\ \E k \in DOMAIN path' : path'[k] = b
        BY <2>4 DEF Bases, InPath
      <3>2. PICK k \in DOMAIN path' : path'[k] = b
        BY <3>1
      <3>3. b \notin products
        BY <1>1, <1>3, <2>4
      <3>4. ASSUME NEW j \in DOMAIN path', path'[j].name \notin BaseNames PROVE k \in 1..(j - 1)
        BY <2>1, <2>2, <3>1, <3>2, <3>3, <3>4, SortLeads
      <3> QED
        BY <3>2, <3>4 DEF BaseLeads
    <2>5. (BackingUp \in ToSet(todo))'
      BY <2>3 DEF BackingUp, ToSet
    <2> QED
      BY <1>1, <2>1, <2>4, <2>5 DEF OrderOK, Leading
  <1> QED
    BY <1>1, <1>4, NoOrder DEF selectMigration, Exit, migrations, AllOffered

LEMMA BackupOrder ==
  ASSUME TypeInv, OrderOK, Backup
  PROVE  OrderOK'
  <1>1. /\ phase = "apply" /\ result = "running" /\ todo # <<>> /\ Head(todo).op = "backup"
        /\ Head(todo) \in ToSet(todo) /\ Head(todo) \in Steps(Allowed)
        /\ Tail(todo) \in Seq(Steps(Allowed)) /\ EndsInFinal(todo) /\ todo \in Seq(Steps(Allowed))
        /\ path \in Seq(Product)
    BY AtStep, Phases, HeadStep DEF Backup, TypeInv, ControlOK, TodoOK, DataOK, NotesOK
  <1>2. Head(todo) = BackingUp
    BY <1>1 DEF Steps, BackingUp, OnOne
  <1>3. UNCHANGED <<start, phase, act, path, missing>> /\ Then(applyMigration(path))
    BY DEF Backup, server, Then, command
  <1>4. Tail(todo) = <<>>
    BY <1>1, FinalAlone DEF Final, EndsInFinal
  <1>5. todo' = applyMigration(path) /\ BackingUp \notin ToSet(todo')
    <2>1. applyMigration(path) \in Seq(Steps(ApplyOps))
      BY <1>1, applyMigrationOK
    <2>2. applyMigration(path) \o <<>> = applyMigration(path)
      BY <2>1
    <2>3. todo' = applyMigration(path)
      BY <1>3, <1>4, <2>2 DEF Then
    <2>4. \A s \in ToSet(applyMigration(path)) : s.op # "backup"
      BY <1>1, applyMigrationOK
    <2> QED
      BY <2>3, <2>4 DEF BackingUp
  <1>6. ASSUME NEW b \in Bases(InPath), BaseLeads(b), NEW p \in InPath, p.name \notin BaseNames
        PROVE  Behind(Upgrading(p), {Upgrading(b)}, todo')
    <2>1. b \in Product /\ p \in Product
      BY <1>1, ElementIn DEF Bases, InPath
    <2>2. \A j \in DOMAIN path : path[j] = p => \E i \in 1..(j - 1) : path[i] = b
      BY <1>6 DEF BaseLeads
    <2>3. Behind(Upgrading(p), {Upgrading(b)},
                 FlattenSeq([i \in DOMAIN path |-> MigrateProduct(path[i])]))
      BY <1>1, <2>1, <2>2, LoopLeads
    <2>4. \A x, Y : x.op = "upgrade"
                    /\ Behind(x, Y, FlattenSeq([i \in DOMAIN path |-> MigrateProduct(path[i])]))
                    => Behind(x, Y, applyMigration(path))
      BY <1>1, applyMigrationServices
    <2> QED
      BY <1>5, <2>3, <2>4 DEF Upgrading
  <1>7. ~missing => \A b \in Bases(InPath) : (b \in start.listed => b \in start.act) =>
           b \in act \/ BaseLeads(b)
    <2>1. BackingUp \in ToSet(todo)
      BY <1>1, <1>2
    <2> QED
      BY <1>1, <2>1 DEF OrderOK, Leading
  <1> QED
    BY <1>1, <1>3, <1>5, <1>6, <1>7, ApplyingOrder

\* What stays behind an upgrade when the first step is done.
LEMMA ThenOrder ==
  ASSUME TypeInv, OrderOK, phase = "apply", todo # <<>>, Head(todo).op # "backup",
         NEW O, O \cap {"backup", "upgrade"} = {}, NEW steps \in Seq(Steps(O)), Then(steps),
         UNCHANGED <<path, missing>>,
         \A b \in Bases(InPath) : b \in act => b \in act',
         Head(todo).op = "upgrade" => On \in act'
  PROVE  OrderOK'
  <1>1. /\ ToSet(todo) = {Head(todo)} \cup ToSet(Tail(todo)) /\ Head(todo) \in Steps(ApplyOps)
        /\ todo \in Seq(Steps(ApplyOps)) /\ Tail(todo) \in Seq(Steps(ApplyOps))
        /\ todo' = steps \o Tail(todo) /\ ToSet(todo') = ToSet(steps) \cup ToSet(Tail(todo))
        /\ result = "running" /\ phase' = "apply"
    BY ApplyParts
  <1>2. \A s \in ToSet(steps) : s.op \notin {"backup", "upgrade"}
    BY StepsElements
  <1>3. BackingUp \in ToSet(todo') <=> BackingUp \in ToSet(todo)
    BY <1>1, <1>2 DEF BackingUp
  <1>4. UNCHANGED start
    BY DEF Then, command
  <1>5. ASSUME NEW b \in Bases(InPath), BaseComes(b), NEW p \in InPath, p.name \notin BaseNames
        PROVE  b \in act' \/ Behind(Upgrading(p), {Upgrading(b)}, todo')
    <2> DEFINE x == Upgrading(p)
               Y == {Upgrading(b)}
    <2>1. Behind(x, Y, todo)
      BY <1>5 DEF BaseComes
    <2>2. CASE Head(todo) = Upgrading(b)
      <3>1. Head(todo).op = "upgrade" /\ On = b
        BY <2>2 DEF Upgrading, On
      <3> QED
        BY <3>1
    <2>3. CASE Head(todo) # Upgrading(b)
      <3>1. x.op = "upgrade" /\ Head(todo) \notin Y
        BY <2>3 DEF Upgrading
      <3> HIDE DEF x, Y
      <3>2. Behind(x, Y, Tail(todo))
        BY <1>1, <2>1, <3>1, BehindTail
      <3>3. x \notin ToSet(steps)
        BY <1>2, <3>1
      <3>4. steps \in Seq(Steps(O \cup ApplyOps)) /\ Tail(todo) \in Seq(Steps(O \cup ApplyOps))
        BY <1>1, MoreSteps
      <3>5. Behind(x, Y, steps)
        BY <3>3, BehindNone
      <3>6. Behind(x, Y, steps \o Tail(todo))
        BY <3>2, <3>4, <3>5, BehindJoin
      <3> QED
        BY <1>1, <3>6 DEF x, Y
    <2> QED
      BY <2>2, <2>3
  <1>6. ~missing => \A b \in Bases(InPath) : (b \in start.listed => b \in start.act) => Leading(b)
    BY <1>1 DEF OrderOK
  <1>7. ~missing => \A b \in Bases(InPath) : (b \in start.listed => b \in start.act) =>
            \/ b \in act'
            \/ BackingUp \in ToSet(todo') /\ BaseLeads(b)
            \/ /\ BackingUp \notin ToSet(todo')
               /\ \A p \in InPath : p.name \notin BaseNames =>
                      Behind(Upgrading(p), {Upgrading(b)}, todo')
    BY <1>3, <1>5, <1>6 DEF Leading
  <1> QED
    BY <1>1, <1>4, <1>7, ApplyingOrder

LEMMA ApplyOrder ==
  ASSUME TypeInv, PathInv, FilesInv, OrderOK, phase = "apply",
         CreatePreSnapshot \/ RefreshRepos \/ checkInterrupted \/ disableAllRepos
         \/ InstalledServices \/ UpgradeProduct \/ MigrationRemoveService
         \/ cleanupProductRepos \/ MigrationAddService \/ dropUnmigrated
  PROVE  OrderOK'
  <1>1. /\ result = "running" /\ todo # <<>> /\ Head(todo).op # "backup"
        /\ act \subseteq Product /\ (Head(todo).op = "upgrade" => UpgradeProduct)
        /\ UpgradeProduct => Head(todo) \in ToSet(todo) /\ Head(todo).op = "upgrade"
    BY AtStep, HeadStep DEF CreatePreSnapshot, RefreshRepos, checkInterrupted, disableAllRepos,
       InstalledServices, UpgradeProduct, MigrationRemoveService, cleanupProductRepos,
       MigrationAddService, dropUnmigrated, TypeInv, DataOK, ControlOK
  <1>2. UNCHANGED <<path, missing>>
    BY DEF CreatePreSnapshot, RefreshRepos, checkInterrupted, disableAllRepos, InstalledServices,
       UpgradeProduct, MigrationRemoveService, cleanupProductRepos, MigrationAddService,
       dropUnmigrated, notes
  <1>3. /\ \A b \in Bases(InPath) : b \in act => b \in act'
        /\ Head(todo).op = "upgrade" => On \in act'
    <2>1. CASE UpgradeProduct
      <3>1. On \in InPath
        BY <1>1, <2>1 DEF PathInv, ComesOK, On
      <3>2. \A b \in InPath : b \notin Obsolete(On)
        BY <3>1 DEF PathInv, PathOK, Obsolete
      <3>3. act' = (act \ Obsolete(On)) \cup {On}
        BY <2>1 DEF UpgradeProduct
      <3> QED
        BY <3>2, <3>3 DEF Bases
    <2>2. CASE ~UpgradeProduct
      <3>1. UNCHANGED act
        BY <2>2 DEF CreatePreSnapshot, RefreshRepos, checkInterrupted, disableAllRepos,
           InstalledServices, MigrationRemoveService, cleanupProductRepos, MigrationAddService,
           dropUnmigrated, server
      <3> QED
        BY <1>1, <2>2, <3>1
    <2> QED
      BY <2>1, <2>2
  <1>4. \/ Error \/ Exit("abandoned") \/ Then(<<>>)
        \/ \E S \in SUBSET Product : Then(OfSet("remove", S))
    <2>1. Obsolete(On) \in SUBSET Product /\ Unmigrated \in SUBSET Product
      BY <1>1 DEF Obsolete, Unmigrated
    <2> QED
      BY <2>1 DEF CreatePreSnapshot, RefreshRepos, checkInterrupted, disableAllRepos,
         InstalledServices, UpgradeProduct, MigrationRemoveService, cleanupProductRepos,
         MigrationAddService, dropUnmigrated
  <1>5. CASE Error \/ Exit("abandoned")
    BY <1>5, NoOrder DEF Error, Exit
  <1>6. ASSUME NEW steps \in Seq(Steps({"remove"})), Then(steps) PROVE OrderOK'
    <2>1. {"remove"} \cap {"backup", "upgrade"} = {}
      OBVIOUS
    <2> QED
      BY <1>1, <1>2, <1>3, <1>6, <2>1, ThenOrder
  <1>7. <<>> \in Seq(Steps({"remove"})) /\ \A S \in SUBSET Product : OfSet("remove", S) \in Seq(Steps({"remove"}))
    BY NoSteps, OfSetOK DEF OnOne
  <1> QED
    BY <1>4, <1>5, <1>6, <1>7

LEMMA QuietOrder ==
  ASSUME OrderOK, UNCHANGED <<act, listed, products, missing, path, phase, todo, result, start>>
  PROVE  OrderOK'
  <1>1. /\ (Bases(InPath))' = Bases(InPath) /\ \A b : (Leading(b))' <=> Leading(b)
    BY DEF Bases, InPath, Leading, BaseLeads, BaseComes, Behind, Upgrading, BackingUp, ToSet
  <1>2. (todo \in Lookups)' <=> todo \in Lookups
    BY DEF Lookups, Checking, Refreshing, Patching, Of
  <1>3. (\A s \in ToSet(todo) : s.op \in CheckedOps)' <=> \A s \in ToSet(todo) : s.op \in CheckedOps
    BY DEF ToSet, CheckedOps
  <1> QED
    BY <1>1, <1>2, <1>3 DEF OrderOK

LEMMA OtherOrder ==
  ASSUME TypeInv, OrderOK,
         \/ upgradePackages \/ Restore \/ Finish \/ Fail \/ Kill \/ BootSnapshot
         \/ \E f : Start("migration", f) \/ Start("rollback", {})
  PROVE  OrderOK'
  <1>1. CASE upgradePackages
    BY <1>1, Phases, NoOrder DEF upgradePackages, Exit, Error
  <1>2. CASE Restore
    <2>1. phase = "undo"
      BY <1>2, Phases DEF Restore
    <2> QED
      BY <1>2, <2>1, NoOrder DEF Restore, Then, command
  <1>3. CASE Finish \/ Fail \/ Kill \/ BootSnapshot
    BY <1>3, NoOrder DEF Finish, Fail, Kill, BootSnapshot, Exit, Error
  <1>4. CASE Start("rollback", {})
    BY <1>4, NoOrder DEF Start
  <1>5. ASSUME NEW f, Start("migration", f) PROVE OrderOK'
    <2>1. /\ result' = "running" /\ phase' = "check" /\ todo' = Begin("migration", f)
          /\ listed' = start'.listed
      BY <1>5 DEF Start, local
    <2> QED
      BY <2>1, BeginLookup, LookOrder
  <1> QED
    BY <1>1, <1>2, <1>3, <1>4, <1>5

LEMMA NextOrder ==
  ASSUME TypeInv, PathInv, FilesInv, OrderOK, [Next]_vars
  PROVE  OrderOK'
  <1>1. CASE releasePackagesChecked \/ rereadProducts \/ RollbackBase \/ RollbackExtension
             \/ MigrationRemoveService \/ ReaddService \/ syncProducts \/ SetReleaseVersion
    <2>1. CASE phase = "check"
      BY <1>1, <2>1, MissedOrder
    <2>2. CASE phase = "apply"
      BY <1>1, <2>2, Phases, ApplyOrder DEF releasePackagesChecked, rereadProducts, RollbackBase,
         RollbackExtension, ReaddService, syncProducts, SetReleaseVersion
    <2>3. CASE phase \notin {"check", "apply"}
      <3>1. CASE releasePackagesChecked \/ rereadProducts
        BY <2>3, <3>1, NoOrder DEF releasePackagesChecked, rereadProducts, Then, command
      <3>2. CASE ~(releasePackagesChecked \/ rereadProducts)
        BY <1>1, <2>3, <3>2, RollbackSteps, NoOrder DEF Error, Exit, Then, command
      <3> QED
        BY <3>1, <3>2
    <2> QED
      BY <2>1, <2>2, <2>3
  <1>2. CASE CreatePreSnapshot \/ checkInterrupted \/ disableAllRepos \/ InstalledServices
             \/ UpgradeProduct \/ cleanupProductRepos \/ MigrationAddService \/ dropUnmigrated
    <2>1. phase = "apply"
      BY <1>2, Phases DEF CreatePreSnapshot, checkInterrupted, disableAllRepos, InstalledServices,
         UpgradeProduct, cleanupProductRepos, MigrationAddService, dropUnmigrated
    <2> QED
      BY <1>2, <2>1, ApplyOrder
  <1>3. CASE RefreshRepos
    <2>1. phase \in {"check", "apply"}
      BY <1>3, AtStep DEF RefreshRepos, Allowed, UndoOps, RollbackOps, LastOps
    <2> QED
      BY <1>3, <2>1, RefreshOrder, ApplyOrder
  <1>4. ASSUME Step PROVE OrderOK'
    BY <1>1, <1>2, <1>3, <1>4, PatchOrder, checkOrder, InstallOrder, SelectOrder, BackupOrder,
       OtherOrder DEF Step
  <1>5. CASE Signal \/ Publish \/ UNCHANGED vars
    <2>1. UNCHANGED <<act, listed, products, missing, path, phase, todo, result, start>>
      BY <1>5 DEF Signal, Publish, vars, server, local, notes, command
    <2> QED
      BY <2>1, QuietOrder
  <1> QED
    BY <1>4, <1>5, OtherOrder DEF Next

LEMMA InitOrder ==
  Init => OrderOK
  BY DEF Init, OrderOK

\* A product that is no base product is upgraded when the base products are.
LEMMA UpgradedInOrder ==
  ASSUME TypeInv, PathInv, FilesInv, OrderOK, [Next]_vars, Based
  PROVE  BaseUpgradedFirst
  <1> SUFFICES ASSUME NEW p \in act' \ act, phase = "apply", ~missing, p.name \notin BaseNames,
                      NEW b \in Bases(InPath), b \notin act
               PROVE  FALSE
    BY DEF BaseUpgradedFirst
  <1>1. CASE UpgradeProduct
    <2>1. /\ todo # <<>> /\ Head(todo).op = "upgrade" /\ On \in Product /\ result = "running"
          /\ ToSet(todo) = {Head(todo)} \cup ToSet(Tail(todo)) /\ Head(todo) \in Steps(Allowed)
          /\ todo \in Seq(Steps(Allowed))
      BY <1>1, AtStep, HeadStep DEF UpgradeProduct, OnOne, TypeInv, ControlOK, TodoOK
    <2>2. p = On
      BY <1>1 DEF UpgradeProduct
    <2>3. Head(todo) = Upgrading(p)
      BY <2>1, <2>2, StepOn DEF OnOne, Of, On, Upgrading
    <2>4. BackingUp \notin ToSet(todo)
      BY <2>1 DEF FilesInv, BackupOK
    <2>5. BaseComes(b)
      BY <2>1, <2>4 DEF OrderOK, Leading, Based
    <2>6. p \in InPath
      <3>1. Head(todo) \in ToSet(todo)
        BY <2>1
      <3> QED
        BY <2>1, <2>2, <3>1 DEF PathInv, ComesOK, On
    <2>7. Behind(Upgrading(p), {Upgrading(b)}, todo)
      BY <2>5, <2>6 DEF BaseComes
    <2> QED
      BY <2>1, <2>3, <2>7, BehindTail
  <1>2. CASE UNCHANGED act
    BY <1>2
  <1>3. ASSUME Step PROVE UpgradeProduct \/ UNCHANGED act \/ phase \in {"check", "undo"}
    <2>1. CASE RollbackBase \/ RollbackExtension \/ syncProducts
      BY <2>1, Phases DEF RollbackBase, RollbackExtension, syncProducts
    <2> QED
      BY <1>3, <2>1 DEF Step, PatchCheck, Patch, PatchRecheck, RefreshRepos, checkSystemProducts,
         InstallReleasePackage, releasePackagesChecked, rereadProducts, selectMigration,
         CreatePreSnapshot, Backup, checkInterrupted, disableAllRepos, InstalledServices,
         MigrationRemoveService, cleanupProductRepos, MigrationAddService, dropUnmigrated,
         upgradePackages, Restore, ReaddService, SetReleaseVersion, Finish, server
  <1> QED
    BY <1>1, <1>2, <1>3 DEF Next, Fail, Kill, Signal, Publish, BootSnapshot, Start, vars, server

\* The server never has a product of the path activated that is not there yet before its
\* base product, as long as no release package was missing: the base comes first in the
\* sorted path and so among the upgrades (sortMigrationProducts, migrateSystem). It need
\* not when zypper lists the base product and the server has not activated it.
THEOREM UpgradesBaseFirst == Spec => [][Based => BaseUpgradedFirst]_vars /\ ([]Based => BaseFirst)
  <1>1. Init => OrderOK
    BY InitOrder
  <1>2. MigrationInv /\ OrderOK /\ [Next]_vars => OrderOK'
    BY NextOrder DEF MigrationInv
  <1>3. MigrationInv /\ OrderOK /\ [Next]_vars => [Based => BaseUpgradedFirst]_vars
    BY UpgradedInOrder DEF MigrationInv
  <1>4. Spec => [][Based => BaseUpgradedFirst]_vars
    BY <1>1, <1>2, <1>3, InvariantHolds, PTL DEF Spec
  <1>5. [][Based => BaseUpgradedFirst]_vars /\ []Based => BaseFirst
    BY PTL DEF BaseFirst
  <1> QED
    BY <1>4, <1>5, PTL
===============================================================================
