--------------------------- MODULE RegistrationProofs ---------------------------
(***************************************************************************)
(* Theorems about the commands of SUSEConnect, for any tree of products,    *)
(* any services and faults: the types, and what a command that succeeds,    *)
(* or that no step of failed, leaves behind. The order of the steps still   *)
(* to do is the heart of each invariant: what was not yet done is to come,  *)
(* and what must not be done too early comes only behind something else.    *)
(***************************************************************************)
EXTENDS Registration, SeqLemmas

(* The steps a command may have, and what they are on.                      *)
ServiceOps  == {"removeservice", "removeServiceCreds", "addservice", "writeServiceCreds"}
RemoveOps   == {"removeservice", "removeServiceCreds"}
EnableOps   == ServiceOps \cup {"activate", "install"}
DisableOps  == RemoveOps \cup {"deactivate", "uninstall"}
RegisterOps == EnableOps \cup {"announce", "tree"}
CleanupOps  == RemoveOps \cup {"removeCreds", "removeServices"}
SystemOps   == DisableOps \cup CleanupOps \cup {"upgrade", "dependencies", "deleteSystem"}
CmdOps(c) ==
    IF c \in {"register", "registerProduct"} THEN RegisterOps
    ELSE IF c = "deregister" THEN SystemOps
    ELSE IF c = "deregisterProduct" THEN DisableOps ELSE CleanupOps
OnBase      == {"upgrade", "dependencies", "deleteSystem", "removeCreds", "removeServices"}
Place(op) ==
    IF op \in ServiceOps THEN Own ELSE IF op = "uninstall" THEN Products \ {Base}
    ELSE IF op \in OnBase THEN {Base} ELSE Products
St(op, x)   == [op |-> op, on |-> x]
Steps(O)    == {x \in [op : O, on : Own] : x.on \in Place(x.op)}

LEMMA PlaceOK ==
  \A op : Place(op) \subseteq Own
  BY TreeAssumption DEF Place, Own

LEMMA StepIn ==
  ASSUME NEW O, NEW op \in O, NEW x \in Place(op)
  PROVE  St(op, x) \in Steps(O)
  <1>1. x \in Own
    BY PlaceOK
  <1> QED
    BY <1>1 DEF St, Steps

LEMMA StepFields ==
  ASSUME NEW O, NEW x \in Steps(O)
  PROVE  x.op \in O /\ x.on \in Place(x.op) /\ x.on \in Own /\ x = St(x.op, x.on)
  BY DEF Steps, St

LEMMA SameStep ==
  \A a, b, x, y : St(a, x) = St(b, y) <=> a = b /\ x = y
  <1> SUFFICES ASSUME NEW a, NEW b, NEW x, NEW y PROVE St(a, x) = St(b, y) <=> a = b /\ x = y
    OBVIOUS
  <1>1. St(a, x).op = a /\ St(a, x).on = x /\ St(b, y).op = b /\ St(b, y).on = y
    BY DEF St
  <1> QED
    BY <1>1

LEMMA MoreSteps ==
  ASSUME NEW O, NEW P, O \subseteq P, NEW s \in Seq(Steps(O))
  PROVE  s \in Seq(Steps(P))
  <1>1. Steps(O) \subseteq Steps(P)
    BY DEF Steps
  <1> QED
    BY <1>1

LEMMA SeqWiden ==
  ASSUME NEW S, NEW T, S \subseteq T, NEW s \in Seq(S)
  PROVE  s \in Seq(T)
  OBVIOUS

LEMMA NotIn ==
  ASSUME NEW O, NEW s \in Seq(Steps(O)), NEW op, op \notin O
  PROVE  \A x : St(op, x) \notin ToSet(s)
  <1>1. ToSet(s) \subseteq Steps(O)
    BY ElementsIn
  <1> QED
    BY <1>1, StepFields DEF St

LEMMA JoinSteps ==
  ASSUME NEW S, NEW s \in Seq(S), NEW t \in Seq(S)
  PROVE  s \o t \in Seq(S)
  OBVIOUS

LEMMA JoinNone ==
  ASSUME NEW S, NEW s \in Seq(S)
  PROVE  s \o <<>> = s /\ <<>> \o s = s /\ <<>> \in Seq(S)
  OBVIOUS

LEMMA JoinAgain ==
  ASSUME NEW S, NEW s \in Seq(S), NEW t \in Seq(S), NEW u \in Seq(S)
  PROVE  s \o t \o u = s \o (t \o u)
  OBVIOUS

LEMMA DoOK ==
  ASSUME NEW O, NEW op \in O, NEW x \in Place(op)
  PROVE  Do(op, x) \in Seq(Steps(O)) /\ ToSet(Do(op, x)) = {St(op, x)}
  <1>1. Do(op, x) = <<St(op, x)>>
    BY DEF Do, St
  <1>2. St(op, x) \in Steps(O)
    BY StepIn
  <1> QED
    BY <1>1, <1>2, ToSetOfOne

-----------------------------------------------------------------------------
(* The order of the steps. A service is removed with its credentials file,  *)
(* and added with it; registering gives back a service it removes; and      *)
(* a service of U is removed only behind what makes it useless.             *)
Removal(z) == St("removeservice", z)
Removed(z) == St("removeServiceCreds", z)
Adding(z)  == St("addservice", z)
Added(z)   == St("writeServiceCreds", z)
Frees(z)   == {St("deactivate", z), St("deleteSystem", Base)}
Halves(t)  == \A z \in Own : Paired(Removal(z), Removed(z), t) /\ Paired(Adding(z), Added(z), t)
Returns(t) == \A z \in Own : Leads(Removal(z), Adding(z), t) /\ Leads(Removed(z), Added(z), t)
Freed(U, t) == \A z \in U : Behind(Removal(z), Frees(z), t)

LEMMA HalvesJoin ==
  ASSUME NEW S, NEW s \in Seq(S), NEW t \in Seq(S), Halves(s), Halves(t)
  PROVE  Halves(s \o t)
  BY PairedJoin DEF Halves

LEMMA ReturnsJoin ==
  ASSUME NEW S, NEW s \in Seq(S), NEW t \in Seq(S), Returns(s), Returns(t)
  PROVE  Returns(s \o t)
  BY LeadsJoin DEF Returns

LEMMA FreedJoin ==
  ASSUME NEW S, NEW s \in Seq(S), NEW t \in Seq(S), NEW U, Freed(U, s), Freed(U, t)
  PROVE  Freed(U, s \o t)
  BY BehindJoin DEF Freed

\* Steps that are on no services.
LEMMA NoServices ==
  ASSUME NEW O, O \cap ServiceOps = {}, NEW s \in Seq(Steps(O))
  PROVE  Halves(s) /\ Returns(s) /\ \A U : Freed(U, s)
  <1>1. \A z : /\ Removal(z) \notin ToSet(s) /\ Removed(z) \notin ToSet(s)
               /\ Adding(z) \notin ToSet(s) /\ Added(z) \notin ToSet(s)
    BY NotIn DEF ServiceOps, Removal, Removed, Adding, Added
  <1>2. Halves(s)
    BY <1>1, PairedNone DEF Halves
  <1>3. Returns(s)
    BY <1>1, LeadsNone DEF Returns
  <1>4. \A U : Freed(U, s)
    BY <1>1, BehindNone DEF Freed
  <1> QED
    BY <1>2, <1>3, <1>4

LEMMA NothingServices ==
  Halves(<<>>) /\ Returns(<<>>) /\ \A U : Freed(U, <<>>)
  <1>1. <<>> \in Seq(Steps({})) /\ {} \cap ServiceOps = {}
    OBVIOUS
  <1> QED
    BY <1>1, NoServices

\* Two steps that belong together.
LEMMA BothHalves ==
  ASSUME NEW a \in {"removeservice", "addservice"}, NEW b, NEW x \in Own,
         b = IF a = "removeservice" THEN "removeServiceCreds" ELSE "writeServiceCreds",
         NEW O, {a, b} \subseteq O
  PROVE  /\ Do(a, x) \o Do(b, x) \in Seq(Steps(O))
         /\ ToSet(Do(a, x) \o Do(b, x)) = {St(a, x), St(b, x)}
         /\ Halves(Do(a, x) \o Do(b, x))
  <1> DEFINE t == Do(a, x) \o Do(b, x)
  <1>1. a \in ServiceOps /\ b \in ServiceOps /\ a # b /\ x \in Place(a) /\ x \in Place(b)
    BY DEF ServiceOps, Place
  <1>2. Do(a, x) \in Seq(Steps(O)) /\ Do(b, x) \in Seq(Steps(O))
        /\ ToSet(Do(a, x)) = {St(a, x)} /\ ToSet(Do(b, x)) = {St(b, x)}
    BY <1>1, DoOK
  <1>3. t \in Seq(Steps(O)) /\ ToSet(t) = {St(a, x), St(b, x)}
    BY <1>2, ToSetOfJoin, JoinSteps
  <1>4. t = <<St(a, x)>> \o <<St(b, x)>>
    BY DEF Do, St
  <1>5. Paired(St(a, x), St(b, x), t)
    <2>1. St(a, x) # St(b, x)
      BY <1>1, SameStep
    <2> QED
      BY <1>4, <2>1, PairedTwo
  <1> HIDE DEF t
  <1>6. ASSUME NEW z \in Own PROVE Paired(Removal(z), Removed(z), t)
    <2>1. CASE a = "removeservice" /\ z = x
      BY <1>5, <2>1 DEF Removal, Removed
    <2>2. CASE ~(a = "removeservice" /\ z = x)
      <3>1. Removal(z) \notin ToSet(t) /\ Removed(z) \notin ToSet(t)
        BY <1>3, <2>2, SameStep DEF Removal, Removed
      <3> QED
        BY <1>3, <3>1, PairedNone
    <2> QED
      BY <2>1, <2>2
  <1>7. ASSUME NEW z \in Own PROVE Paired(Adding(z), Added(z), t)
    <2>1. CASE a = "addservice" /\ z = x
      BY <1>5, <2>1 DEF Adding, Added
    <2>2. CASE ~(a = "addservice" /\ z = x)
      <3>1. Adding(z) \notin ToSet(t) /\ Added(z) \notin ToSet(t)
        BY <1>3, <2>2, SameStep DEF Adding, Added
      <3> QED
        BY <1>3, <3>1, PairedNone
    <2> QED
      BY <2>1, <2>2
  <1>8. Halves(t)
    BY <1>6, <1>7 DEF Halves
  <1> QED
    BY <1>3, <1>8 DEF t

LEMMA RemoveServiceOK ==
  ASSUME NEW s \in Own, NEW O, RemoveOps \subseteq O
  PROVE  /\ RemoveService(s) \in Seq(Steps(O)) /\ ToSet(RemoveService(s)) = {Removal(s), Removed(s)}
         /\ Halves(RemoveService(s))
  BY BothHalves DEF RemoveService, RemoveOps, Removal, Removed

LEMMA AddServiceOK ==
  ASSUME NEW s \in Own, NEW O, ServiceOps \subseteq O
  PROVE  /\ AddService(s) \in Seq(Steps(O))
         /\ ToSet(AddService(s)) = {Removal(s), Removed(s), Adding(s), Added(s)}
         /\ Halves(AddService(s)) /\ Returns(AddService(s))
  <1> DEFINE r == RemoveService(s)
             a == Do("addservice", s) \o Do("writeServiceCreds", s)
             t == r \o a
  <1>1. RemoveOps \subseteq O /\ {"addservice", "writeServiceCreds"} \subseteq O
    BY DEF RemoveOps, ServiceOps
  <1>2. r \in Seq(Steps(O)) /\ ToSet(r) = {Removal(s), Removed(s)} /\ Halves(r)
    BY <1>1, RemoveServiceOK
  <1>3. a \in Seq(Steps(O)) /\ ToSet(a) = {Adding(s), Added(s)} /\ Halves(a)
    BY <1>1, BothHalves DEF Adding, Added
  <1>4. AddService(s) = t
    <2>1. Do("addservice", s) \in Seq(Steps(O)) /\ Do("writeServiceCreds", s) \in Seq(Steps(O))
      <3>1. s \in Place("addservice") /\ s \in Place("writeServiceCreds")
        BY DEF Place, ServiceOps
      <3> QED
        BY <1>1, <3>1, DoOK
    <2> HIDE DEF r
    <2>2. r \o Do("addservice", s) \o Do("writeServiceCreds", s) = t
      BY <1>2, <2>1, JoinAgain
    <2> QED
      BY <2>2 DEF AddService, r
  <1> HIDE DEF r, a
  <1>5. t \in Seq(Steps(O)) /\ ToSet(t) = {Removal(s), Removed(s), Adding(s), Added(s)}
    <2>1. t \in Seq(Steps(O)) /\ ToSet(t) = ToSet(r) \cup ToSet(a)
      BY <1>2, <1>3, ToSetOfJoin
    <2> QED
      BY <1>2, <1>3, <2>1
  <1>6. Halves(t)
    BY <1>2, <1>3, HalvesJoin
  <1>7. ASSUME NEW z \in Own PROVE Leads(Removal(z), Adding(z), t)
    <2>1. Removal(z) \notin ToSet(a)
      BY <1>3, SameStep DEF Removal, Adding, Added
    <2>2. Leads(Removal(z), Adding(z), a)
      BY <1>3, <2>1, LeadsNone
    <2>3. CASE z = s
      <3>1. Adding(z) \in ToSet(a)
        BY <1>3, <2>3
      <3> QED
        BY <1>2, <1>3, <2>2, <3>1, LeadsJoin
    <2>4. CASE z # s
      <3>1. Removal(z) \notin ToSet(r)
        BY <1>2, <2>4, SameStep DEF Removal, Removed
      <3>2. Leads(Removal(z), Adding(z), r)
        BY <1>2, <3>1, LeadsNone
      <3> QED
        BY <1>2, <1>3, <2>2, <3>2, LeadsJoin
    <2> QED
      BY <2>3, <2>4
  <1>8. ASSUME NEW z \in Own PROVE Leads(Removed(z), Added(z), t)
    <2>1. Removed(z) \notin ToSet(a)
      BY <1>3, SameStep DEF Removed, Adding, Added
    <2>2. Leads(Removed(z), Added(z), a)
      BY <1>3, <2>1, LeadsNone
    <2>3. CASE z = s
      <3>1. Added(z) \in ToSet(a)
        BY <1>3, <2>3
      <3> QED
        BY <1>2, <1>3, <2>2, <3>1, LeadsJoin
    <2>4. CASE z # s
      <3>1. Removed(z) \notin ToSet(r)
        BY <1>2, <2>4, SameStep DEF Removal, Removed
      <3>2. Leads(Removed(z), Added(z), r)
        BY <1>2, <3>1, LeadsNone
      <3> QED
        BY <1>2, <1>3, <2>2, <3>2, LeadsJoin
    <2> QED
      BY <2>3, <2>4
  <1>9. Returns(t)
    BY <1>7, <1>8 DEF Returns
  <1> QED
    BY <1>4, <1>5, <1>6, <1>9

LEMMA ServiceOfOwn ==
  \A p \in Products : ServiceOf(p) \in Own
  BY DEF ServiceOf, Own

\* What registering a product does to it, and to no other.
Enabled(p, inst, sk, t) ==
    /\ St("activate", p) \in ToSet(t)
    /\ \A x \in ToSet(t) : x.op = "activate" => x.on = p
    /\ ~sk => Adding(ServiceOf(p)) \in ToSet(t) /\ Added(ServiceOf(p)) \in ToSet(t)
    /\ ~sk /\ inst => St("install", p) \in ToSet(t)

LEMMA registerProductOK ==
  ASSUME NEW p \in Products, NEW inst \in BOOLEAN, NEW sk \in BOOLEAN
  PROVE  /\ registerProduct(p, inst, sk) \in Seq(Steps(EnableOps))
         /\ Halves(registerProduct(p, inst, sk)) /\ Returns(registerProduct(p, inst, sk))
         /\ Enabled(p, inst, sk, registerProduct(p, inst, sk))
  <1> DEFINE O == EnableOps
             a == Do("activate", p)
             b == IF sk THEN <<>> ELSE AddService(ServiceOf(p))
             c == IF sk \/ ~inst THEN <<>> ELSE Do("install", p)
             t == a \o b \o c
             s == ServiceOf(p)
  <1>1. s \in Own /\ ServiceOps \subseteq O /\ "activate" \in O /\ "install" \in O
        /\ p \in Place("activate") /\ p \in Place("install")
    BY ServiceOfOwn DEF EnableOps, Place, ServiceOps, OnBase
  <1>2. {"activate", "install"} \cap ServiceOps = {}
    BY DEF ServiceOps
  <1> HIDE DEF O
  <1>3. a \in Seq(Steps(O)) /\ ToSet(a) = {St("activate", p)} /\ Halves(a) /\ Returns(a)
    <2>1. a \in Seq(Steps({"activate", "install"}))
      BY <1>1, DoOK
    <2> QED
      BY <1>1, <1>2, <2>1, DoOK, NoServices
  <1>4. /\ b \in Seq(Steps(O)) /\ Halves(b) /\ Returns(b)
        /\ ToSet(b) = IF sk THEN {} ELSE {Removal(s), Removed(s), Adding(s), Added(s)}
    <2>1. CASE sk
      BY <2>1, JoinNone, NothingServices, ToSetOfOne
    <2>2. CASE ~sk
      BY <1>1, <2>2, AddServiceOK
    <2> QED
      BY <2>1, <2>2
  <1>5. /\ c \in Seq(Steps(O)) /\ Halves(c) /\ Returns(c)
        /\ ToSet(c) = IF sk \/ ~inst THEN {} ELSE {St("install", p)}
    <2>1. CASE sk \/ ~inst
      <3>1. c = <<>>
        BY <2>1
      <3> HIDE DEF c
      <3>2. c \in Seq(Steps(O)) /\ ToSet(c) = {}
        BY <3>1, JoinNone, ToSetOfOne
      <3>3. Halves(c) /\ Returns(c)
        BY <3>1, NothingServices
      <3> QED
        BY <2>1, <3>2, <3>3
    <2>2. CASE ~(sk \/ ~inst)
      <3>1. Do("install", p) \in Seq(Steps({"activate", "install"}))
        BY <1>1, DoOK
      <3> QED
        BY <1>1, <1>2, <2>2, <3>1, DoOK, NoServices
    <2> QED
      BY <2>1, <2>2
  <1>6. registerProduct(p, inst, sk) = t
    BY DEF registerProduct
  <1> HIDE DEF a, b, c, s
  <1>7. /\ a \o b \in Seq(Steps(O)) /\ Halves(a \o b) /\ Returns(a \o b)
        /\ ToSet(a \o b) = ToSet(a) \cup ToSet(b)
    BY <1>3, <1>4, ToSetOfJoin, HalvesJoin, ReturnsJoin
  <1>8. /\ t \in Seq(Steps(O)) /\ Halves(t) /\ Returns(t)
        /\ ToSet(t) = ToSet(a) \cup ToSet(b) \cup ToSet(c)
    <2> DEFINE ab == a \o b
    <2>1. ab \in Seq(Steps(O)) /\ Halves(ab) /\ Returns(ab) /\ ToSet(ab) = ToSet(a) \cup ToSet(b)
      BY <1>7
    <2> HIDE DEF ab
    <2>2. ab \o c \in Seq(Steps(O)) /\ ToSet(ab \o c) = ToSet(ab) \cup ToSet(c)
      BY <1>5, <2>1, ToSetOfJoin
    <2>3. Halves(ab \o c) /\ Returns(ab \o c)
      BY <1>5, <2>1, HalvesJoin, ReturnsJoin
    <2> QED
      BY <2>1, <2>2, <2>3 DEF ab
  <1>9. ASSUME NEW x \in ToSet(t), x.op = "activate" PROVE x.on = p
    BY <1>3, <1>4, <1>5, <1>8, <1>9 DEF St, Removal, Removed, Adding, Added
  <1>10. /\ St("activate", p) \in ToSet(t)
         /\ ~sk => Adding(s) \in ToSet(t) /\ Added(s) \in ToSet(t)
         /\ ~sk /\ inst => St("install", p) \in ToSet(t)
    BY <1>3, <1>4, <1>5, <1>8
  <1>11. Enabled(p, inst, sk, t)
    BY <1>9, <1>10 DEF Enabled, s
  <1> QED
    BY <1>6, <1>8, <1>11 DEF O

LEMMA removeOrRefreshOK ==
  ASSUME NEW s \in Own, NEW O, RemoveOps \subseteq O
  PROVE  /\ removeOrRefreshService(s) \in Seq(Steps(O)) /\ Halves(removeOrRefreshService(s))
         /\ ToSet(removeOrRefreshService(s)) = IF s = Shared THEN {} ELSE {Removal(s), Removed(s)}
  BY RemoveServiceOK, JoinNone, NothingServices, ToSetOfOne DEF removeOrRefreshService

\* What deregistering a product does to it, and to no other.
LEMMA deregisterProductOK ==
  ASSUME NEW p \in Products, p # Base, NEW sk \in BOOLEAN
  PROVE  /\ deregisterProduct(p, sk) \in Seq(Steps(DisableOps))
         /\ Halves(deregisterProduct(p, sk)) /\ Freed(Own, deregisterProduct(p, sk))
         /\ St("deactivate", p) \in ToSet(deregisterProduct(p, sk))
         /\ \A x \in ToSet(deregisterProduct(p, sk)) : x.op = "deactivate" => x.on = p
         /\ ~sk => St("uninstall", p) \in ToSet(deregisterProduct(p, sk))
  <1> DEFINE O == DisableOps
             a == Do("deactivate", p)
             r == removeOrRefreshService(ServiceOf(p))
             u == Do("uninstall", p)
             b == IF sk THEN <<>> ELSE r \o u
             t == a \o b
             s == ServiceOf(p)
  <1>1. s \in Own /\ RemoveOps \subseteq O /\ "deactivate" \in O /\ "uninstall" \in O
        /\ p \in Place("deactivate") /\ p \in Place("uninstall")
    BY ServiceOfOwn DEF DisableOps, RemoveOps, Place, ServiceOps, OnBase
  <1>2. {"deactivate", "uninstall"} \cap ServiceOps = {}
    BY DEF ServiceOps
  <1> HIDE DEF O
  <1>3. a \in Seq(Steps(O)) /\ ToSet(a) = {St("deactivate", p)} /\ Halves(a) /\ Freed(Own, a)
    <2>1. a \in Seq(Steps({"deactivate", "uninstall"}))
      BY <1>1, DoOK
    <2> QED
      BY <1>1, <1>2, <2>1, DoOK, NoServices
  <1>4. u \in Seq(Steps(O)) /\ ToSet(u) = {St("uninstall", p)} /\ Halves(u)
    <2>1. u \in Seq(Steps({"deactivate", "uninstall"}))
      BY <1>1, DoOK
    <2> QED
      BY <1>1, <1>2, <2>1, DoOK, NoServices
  <1>5. /\ r \in Seq(Steps(O)) /\ Halves(r)
        /\ ToSet(r) = IF s = Shared THEN {} ELSE {Removal(s), Removed(s)}
    BY <1>1, removeOrRefreshOK
  <1>6. /\ r \o u \in Seq(Steps(O)) /\ Halves(r \o u) /\ ToSet(r \o u) = ToSet(r) \cup ToSet(u)
    <2> HIDE DEF r, u
    <2> QED
      BY <1>4, <1>5, ToSetOfJoin, HalvesJoin
  <1>7. /\ b \in Seq(Steps(O)) /\ Halves(b)
        /\ ToSet(b) = IF sk THEN {} ELSE ToSet(r) \cup ToSet(u)
    <2> HIDE DEF r, u
    <2>1. CASE sk
      BY <2>1, JoinNone, NothingServices, ToSetOfOne
    <2>2. CASE ~sk
      BY <1>6, <2>2
    <2> QED
      BY <2>1, <2>2
  <1>8. deregisterProduct(p, sk) = t
    BY DEF deregisterProduct
  <1>9. s # Shared => s = p
    BY DEF ServiceOf
  <1> HIDE DEF a, b, r, u, s
  <1>10. t \in Seq(Steps(O)) /\ Halves(t) /\ ToSet(t) = ToSet(a) \cup ToSet(b)
    BY <1>3, <1>7, ToSetOfJoin, HalvesJoin
  <1>11. ASSUME NEW z \in Own PROVE Behind(Removal(z), Frees(z), t)
    <2>1. Behind(Removal(z), Frees(z), a)
      BY <1>3, <1>11 DEF Freed
    <2>2. CASE z = p
      <3>1. ToSet(a) \cap Frees(z) # {}
        BY <1>3, <2>2 DEF Frees
      <3> QED
        BY <1>3, <1>7, <2>1, <3>1, BehindJoin
    <2>3. CASE z # p
      <3>1. Removal(z) \notin ToSet(b)
        BY <1>4, <1>5, <1>7, <1>9, <2>3, SameStep DEF Removal, Removed
      <3>2. Behind(Removal(z), Frees(z), b)
        BY <1>7, <3>1, BehindNone
      <3> QED
        BY <1>3, <1>7, <2>1, <3>2, BehindJoin
    <2> QED
      BY <2>2, <2>3
  <1>12. Freed(Own, t)
    BY <1>11 DEF Freed
  <1>13. ASSUME NEW x \in ToSet(t), x.op = "deactivate" PROVE x.on = p
    BY <1>3, <1>4, <1>5, <1>7, <1>10, <1>13 DEF St, Removal, Removed
  <1>14. St("deactivate", p) \in ToSet(t) /\ (~sk => St("uninstall", p) \in ToSet(t))
    BY <1>3, <1>4, <1>7, <1>10
  <1> QED
    BY <1>8, <1>10, <1>12, <1>13, <1>14 DEF O

LEMMA ChildrenOK ==
  ASSUME NEW p \in Products
  PROVE  /\ Extensions[p] \in Seq(Products) /\ DOMAIN Extensions[p] = 1..Len(Extensions[p])
         /\ Len(Extensions[p]) \in Nat
         /\ Children(p) \subseteq Products
         /\ \A i \in 1..Len(Extensions[p]) : Extensions[p][i] \in Children(p)
         /\ \A e \in Children(p) : \E i \in 1..Len(Extensions[p]) : Extensions[p][i] = e
  <1> DEFINE s == Extensions[p]
  <1>1. s \in Seq(Products)
    BY TreeAssumption
  <1> HIDE DEF s
  <1>2. DOMAIN s = 1..Len(s) /\ Len(s) \in Nat /\ \A i \in 1..Len(s) : s[i] \in Products
    BY <1>1
  <1>3. Children(p) = {s[i] : i \in 1..Len(s)}
    BY <1>2 DEF Children, s
  <1> QED
    BY <1>1, <1>2, <1>3 DEF s

TreeOps == EnableOps \cup {"tree"}
\* The products below p are activated, and descended from only behind that.
Descends(p, t) ==
    /\ \A x \in ToSet(t) : x.op \in {"activate", "tree"} => x.on \in Children(p)
    /\ \A z \in Products : Behind(St("tree", z), {St("activate", z)}, t)

LEMMA DescendsJoin ==
  ASSUME NEW S, NEW s \in Seq(S), NEW t \in Seq(S), NEW p, Descends(p, s), Descends(p, t)
  PROVE  Descends(p, s \o t)
  <1>1. ToSet(s \o t) = ToSet(s) \cup ToSet(t)
    BY ToSetOfJoin
  <1>2. \A z \in Products : Behind(St("tree", z), {St("activate", z)}, s \o t)
    BY BehindJoin DEF Descends
  <1> QED
    BY <1>1, <1>2 DEF Descends

LEMMA DescendsNothing ==
  \A p : Descends(p, <<>>)
  <1>1. \A z : Behind(St("tree", z), {St("activate", z)}, <<>>)
    <2>1. <<>> \in Seq({}) /\ ToSet(<<>>) = {}
      BY ToSetOfOne
    <2> QED
      BY <2>1, BehindNone
  <1> QED
    BY <1>1, ToSetOfOne DEF Descends

LEMMA VisitOK ==
  ASSUME NEW p \in Products, NEW e \in Children(p), skip \in BOOLEAN,
         NEW v, v = registerProduct(e, TRUE, skip) \o Do("tree", e)
  PROVE  /\ v \in Seq(Steps(TreeOps)) /\ Halves(v) /\ Returns(v) /\ Descends(p, v)
         /\ Enabled(e, TRUE, skip, v) /\ St("tree", e) \in ToSet(v)
  <1> DEFINE O == TreeOps
             r == registerProduct(e, TRUE, skip)
             d == Do("tree", e)
  <1>1. e \in Products
    BY ChildrenOK
  <1>2. /\ r \in Seq(Steps(EnableOps)) /\ Halves(r) /\ Returns(r) /\ Enabled(e, TRUE, skip, r)
    BY <1>1, registerProductOK
  <1>3. r \in Seq(Steps(O))
    <2> HIDE DEF r
    <2> QED
      BY <1>2, MoreSteps DEF TreeOps
  <1>4. d \in Seq(Steps(O)) /\ ToSet(d) = {St("tree", e)} /\ Halves(d) /\ Returns(d)
    <2>1. e \in Place("tree") /\ "tree" \in {"tree"} /\ "tree" \in O /\ {"tree"} \cap ServiceOps = {}
      BY <1>1 DEF Place, ServiceOps, OnBase, TreeOps
    <2>2. d \in Seq(Steps({"tree"}))
      BY <2>1, DoOK
    <2> HIDE DEF O, d
    <2>3. Halves(d) /\ Returns(d)
      BY <2>1, <2>2, NoServices
    <2> QED
      BY <2>1, <2>3, DoOK DEF d
  <1>5. "tree" \notin EnableOps
    BY DEF EnableOps, ServiceOps
  <1> HIDE DEF O, r, d
  <1>6. v = r \o d
    BY DEF r, d
  <1>7. v \in Seq(Steps(O)) /\ ToSet(v) = ToSet(r) \cup {St("tree", e)}
    <2>1. r \o d \in Seq(Steps(O)) /\ ToSet(r \o d) = ToSet(r) \cup ToSet(d)
      BY <1>3, <1>4, ToSetOfJoin
    <2> QED
      BY <1>4, <1>6, <2>1
  <1>8. Halves(v) /\ Returns(v)
    BY <1>2, <1>3, <1>4, <1>6, HalvesJoin, ReturnsJoin
  <1>9. ASSUME NEW x \in ToSet(v), x.op \in {"activate", "tree"} PROVE x.on = e
    <2>1. CASE x \in ToSet(r)
      <3>1. x \in Steps(EnableOps)
        BY <1>2, <2>1, ElementsIn
      <3>2. x.op = "activate"
        BY <1>5, <1>9, <3>1, StepFields
      <3> QED
        BY <1>2, <2>1, <3>2 DEF Enabled
    <2>2. CASE x = St("tree", e)
      BY <2>2 DEF St
    <2> QED
      BY <1>7, <2>1, <2>2
  <1>10. ASSUME NEW z \in Products PROVE Behind(St("tree", z), {St("activate", z)}, v)
    <2>1. St("tree", z) \notin ToSet(r)
      BY <1>2, <1>5, NotIn
    <2>2. Behind(St("tree", z), {St("activate", z)}, r)
      BY <1>3, <2>1, BehindNone
    <2>3. CASE z = e
      <3>1. ToSet(r) \cap {St("activate", z)} # {}
        BY <1>2, <2>3 DEF Enabled
      <3> QED
        BY <1>3, <1>4, <1>6, <2>2, <3>1, BehindJoin
    <2>4. CASE z # e
      <3>1. St("tree", z) \notin ToSet(d)
        BY <1>4, <2>4, SameStep
      <3>2. Behind(St("tree", z), {St("activate", z)}, d)
        BY <1>4, <3>1, BehindNone
      <3> QED
        BY <1>3, <1>4, <1>6, <2>2, <3>2, BehindJoin
    <2> QED
      BY <2>3, <2>4
  <1>11. Descends(p, v)
    BY <1>9, <1>10 DEF Descends
  <1>12. Enabled(e, TRUE, skip, v)
    BY <1>2, <1>7, <1>9 DEF Enabled
  <1> QED
    BY <1>7, <1>8, <1>11, <1>12 DEF O

LEMMA registerProductTreeOK ==
  ASSUME NEW p \in Products, skip \in BOOLEAN
  PROVE  /\ registerProductTree(p) \in Seq(Steps(TreeOps))
         /\ Halves(registerProductTree(p)) /\ Returns(registerProductTree(p))
         /\ Descends(p, registerProductTree(p))
         /\ \A e \in Children(p) : Wanted(e) =>
              /\ St("activate", e) \in ToSet(registerProductTree(p))
              /\ St("tree", e) \in ToSet(registerProductTree(p))
              /\ ~skip => /\ Adding(ServiceOf(e)) \in ToSet(registerProductTree(p))
                          /\ Added(ServiceOf(e)) \in ToSet(registerProductTree(p))
                          /\ St("install", e) \in ToSet(registerProductTree(p))
  <1> DEFINE S == Steps(TreeOps)
             G == {s \in Seq(S) : Halves(s) /\ Returns(s) /\ Descends(p, s)}
             visit(e) == registerProduct(e, TRUE, skip) \o Do("tree", e)
             below == Extensions[p]
             ss == [i \in DOMAIN below |-> IF Wanted(below[i]) THEN visit(below[i]) ELSE <<>>]
             t == registerProductTree(p)
  <1>1. t = FlattenSeq(ss)
    BY DEF registerProductTree
  <1>2. \A e \in Children(p) :
          /\ visit(e) \in G /\ Enabled(e, TRUE, skip, visit(e)) /\ St("tree", e) \in ToSet(visit(e))
    BY VisitOK
  <1>3. <<>> \in G
    BY JoinNone, NothingServices, DescendsNothing
  <1> HIDE DEF visit, t
  <1>4. \A s1, s2 \in G : s1 \o s2 \in G
    <2> HIDE DEF S
    <2> QED
      BY JoinSteps, HalvesJoin, ReturnsJoin, DescendsJoin
  <1>5. /\ DOMAIN below = 1..Len(below) /\ Len(below) \in Nat
        /\ \A i \in 1..Len(below) : below[i] \in Children(p)
        /\ \A e \in Children(p) : \E i \in 1..Len(below) : below[i] = e
    BY ChildrenOK
  <1> HIDE DEF below
  <1>6. ss \in [1..Len(below) -> G] /\ DOMAIN ss = 1..Len(below)
    <2> HIDE DEF G
    <2> QED
      BY <1>2, <1>3, <1>5
  <1>7. ss \in Seq(G) /\ Len(ss) = Len(below)
    <2> HIDE DEF G, ss
    <2> QED
      BY <1>5, <1>6
  <1>8. t \in G
    <2>1. G \in SUBSET Seq(S)
      OBVIOUS
    <2> HIDE DEF G, ss, S
    <2> QED
      BY <1>1, <1>3, <1>4, <1>7, <2>1, FlattenKeeps
  <1>9. ToSet(t) = UNION {ToSet(ss[i]) : i \in 1..Len(ss)}
    <2>1. ss \in Seq(Seq(S))
      BY <1>7
    <2> HIDE DEF ss, S
    <2> QED
      BY <1>1, <2>1, FlattenOK
  <1>10. ASSUME NEW e \in Children(p), Wanted(e) PROVE ToSet(visit(e)) \subseteq ToSet(t)
    <2>1. PICK i \in 1..Len(below) : below[i] = e
      BY <1>5
    <2>2. ss[i] = visit(e) /\ i \in 1..Len(ss)
      BY <1>5, <1>7, <1>10, <2>1
    <2> HIDE DEF ss
    <2> QED
      BY <1>9, <2>2
  <1>11. ASSUME NEW e \in Children(p), Wanted(e)
         PROVE  /\ St("activate", e) \in ToSet(t) /\ St("tree", e) \in ToSet(t)
                /\ ~skip => /\ Adding(ServiceOf(e)) \in ToSet(t) /\ Added(ServiceOf(e)) \in ToSet(t)
                            /\ St("install", e) \in ToSet(t)
    BY <1>2, <1>10, <1>11 DEF Enabled
  <1> HIDE DEF ss
  <1> QED
    BY <1>8, <1>11 DEF t

-----------------------------------------------------------------------------
(* The list of the products below a product.                                *)
Below(L, p) ==
    [i \in DOMAIN Extensions[p] |-> <<Extensions[p][i]>> \o L[Extensions[p][i]]]
Lists == [Products -> Seq(Products)]

LEMMA BelowOK ==
  ASSUME NEW L \in Lists, NEW p \in Products
  PROVE  /\ Below(L, p) \in Seq(Seq(Products)) /\ FlattenSeq(Below(L, p)) \in Seq(Products)
         /\ Len(Below(L, p)) = Len(Extensions[p])
         /\ \A i \in 1..Len(Extensions[p]) :
              Below(L, p)[i] = <<Extensions[p][i]>> \o L[Extensions[p][i]]
  <1> DEFINE below == Extensions[p]
             ss == Below(L, p)
  <1>1. /\ DOMAIN below = 1..Len(below) /\ Len(below) \in Nat
        /\ \A i \in 1..Len(below) : below[i] \in Products
    BY ChildrenOK
  <1>2. ss = [i \in 1..Len(below) |-> <<below[i]>> \o L[below[i]]]
    BY <1>1 DEF Below
  <1> HIDE DEF below, ss
  <1>3. \A i \in 1..Len(below) : <<below[i]>> \o L[below[i]] \in Seq(Products)
    BY <1>1 DEF Lists
  <1>4. ss \in [1..Len(below) -> Seq(Products)]
    BY <1>2, <1>3
  <1>5. ss \in Seq(Seq(Products)) /\ Len(ss) = Len(below)
    BY <1>1, <1>4
  <1>6. FlattenSeq(ss) \in Seq(Products)
    BY <1>5, FlattenOK
  <1> QED
    BY <1>2, <1>5, <1>6 DEF below, ss

LEMMA ExtensionsListsOK ==
  /\ ExtensionsLists \in [Nat -> Lists]
  /\ \A p \in Products : ExtensionsLists[0][p] = <<>>
  /\ \A n \in Nat, p \in Products :
       ExtensionsLists[n + 1][p] = FlattenSeq(Below(ExtensionsLists[n], p))
  <1> DEFINE none == [p \in Products |-> <<>>]
             more(L) == [p \in Products |-> FlattenSeq(Below(L, p))]
             H == [L \in Lists |-> more(L)]
             Eq(f) == f = [n \in Nat |->
                             [p \in Products |->
                                IF n = 0 THEN <<>> ELSE FlattenSeq(Below(f[n - 1], p))]]
  <1>1. none \in Lists
    BY DEF Lists
  <1>2. H \in [Lists -> Lists]
    BY BelowOK DEF Lists
  <1>3. PICK f \in [Nat -> Lists] : f[0] = none /\ \A n \in Nat : f[n + 1] = H[f[n]]
    <2> HIDE DEF none, H
    <2> QED
      BY <1>1, <1>2, Iterates
  <1>4. Eq(f)
    <2> DEFINE g == [n \in Nat |->
                       [p \in Products |->
                          IF n = 0 THEN <<>> ELSE FlattenSeq(Below(f[n - 1], p))]]
    <2>1. ASSUME NEW n \in Nat PROVE f[n] = g[n]
      <3>1. CASE n = 0
        BY <1>3, <3>1
      <3>2. CASE n # 0
        <4>1. n - 1 \in Nat /\ (n - 1) + 1 = n
          BY <3>2
        <4>2. f[n] = H[f[n - 1]] /\ f[n - 1] \in Lists
          BY <1>3, <4>1
        <4> QED
          BY <3>2, <4>2
      <3> QED
        BY <3>1, <3>2
    <2> HIDE DEF g
    <2>2. f = g
      <3>1. DOMAIN g = Nat /\ g = [n \in Nat |-> g[n]]
        BY DEF g
      <3>2. f = [n \in Nat |-> f[n]]
        BY <1>3
      <3> QED
        BY <2>1, <3>1, <3>2
    <2> QED
      BY <2>2 DEF g
  <1> DEFINE E == ExtensionsLists
  <1>5. Eq(E)
    <2>1. E = CHOOSE e : Eq(e)
      BY DEF ExtensionsLists, Below
    <2> HIDE DEF Eq, E
    <2> QED
      BY <1>4, <2>1
  <1> HIDE DEF E, H, none
  <1>6. /\ E[0] = [p \in Products |-> <<>>]
        /\ \A n \in Nat : E[n + 1] = more(E[n])
    <2>1. E[0] = [p \in Products |-> <<>>]
      BY <1>5
    <2>2. ASSUME NEW n \in Nat PROVE E[n + 1] = more(E[n])
      <3>1. n + 1 \in Nat /\ n + 1 # 0 /\ (n + 1) - 1 = n
        OBVIOUS
      <3> QED
        BY <1>5, <3>1
    <2> QED
      BY <2>1, <2>2
  <1>7. ASSUME NEW n \in Nat PROVE E[n] \in Lists
    <2> DEFINE G == {m \in 0..n : E[m] \in Lists}
    <2>1. 0 \in G
      <3>1. E[0] \in Lists
        BY <1>1, <1>6 DEF none
      <3> QED
        BY <3>1
    <2>2. ASSUME NEW m \in 1..n, m - 1 \in G PROVE m \in G
      <3>1. m - 1 \in Nat /\ (m - 1) + 1 = m /\ E[m - 1] \in Lists
        BY <2>2
      <3>2. more(E[m - 1]) \in Lists
        BY <3>1, BelowOK DEF Lists
      <3> QED
        BY <1>6, <3>1, <3>2
    <2> HIDE DEF G
    <2>3. n \in G
      <3>1. \A i \in 0..n : i \in G
        BY <2>1, <2>2, UpTo
      <3> QED
        BY <3>1
    <2> QED
      BY <2>3 DEF G
  <1>8. E \in [Nat -> Lists]
    <2>1. E = [n \in Nat |-> E[n]]
      BY <1>5
    <2> QED
      BY <1>7, <2>1
  <1> QED
    BY <1>6, <1>8 DEF E

\* Behind each product of the list come its extensions.
Precedes(s) ==
    \A p \in Products : \A e \in Children(p) : Leads(p, e, s)

LEMMA PrecedesJoin ==
  ASSUME NEW s \in Seq(Products), NEW t \in Seq(Products), Precedes(s), Precedes(t)
  PROVE  Precedes(s \o t)
  BY LeadsJoin DEF Precedes

LEMMA ExtensionsFollow ==
  /\ toExtensionsList(Base) \in Seq(Products)
  /\ Precedes(toExtensionsList(Base))
  <1> DEFINE N == Cardinality(Products)
             E == ExtensionsLists
  <1>1. N \in Nat
    BY BelowBaseAssumption, FS_CardinalityType
  <1> HIDE DEF N
  <1>2. PICK depth \in [Products -> 0..N] :
            \A p \in Products : \A e \in Children(p) : depth[e] < depth[p]
    BY NoCyclesAssumption DEF N
  <1> DEFINE Good(n, p) == Precedes(E[n][p]) /\ Children(p) \subseteq ToSet(E[n][p])
             G == {n \in 0..N : \A p \in Products : depth[p] <= n => Good(n, p)}
  <1>3. E \in [Nat -> Lists] /\ \A n \in Nat, p \in Products : E[n][p] \in Seq(Products)
    BY ExtensionsListsOK DEF Lists
  <1>4. 0 \in G
    <2>1. ASSUME NEW p \in Products, depth[p] <= 0 PROVE Good(0, p)
      <3>1. \A e \in Children(p) : FALSE
        <4>1. \A e \in Children(p) : depth[e] \in 0..N /\ depth[e] < depth[p]
          BY <1>2, ChildrenOK
        <4> QED
          BY <1>1, <1>2, <2>1, <4>1
      <3>2. E[0][p] = <<>> /\ <<>> \in Seq(Products) /\ ToSet(<<>>) = {}
        BY ExtensionsListsOK, ToSetOfOne
      <3>3. Precedes(<<>>)
        BY <3>2, LeadsNone DEF Precedes
      <3> QED
        BY <3>1, <3>2, <3>3
    <2> HIDE DEF Good
    <2> QED
      BY <1>1, <2>1
  <1>5. ASSUME NEW n \in 1..N, n - 1 \in G PROVE n \in G
    <2>1. ASSUME NEW p \in Products, depth[p] <= n PROVE Good(n, p)
      <3> DEFINE below == Extensions[p]
                 L == E[n - 1]
                 ss == Below(L, p)
                 K == {s \in Seq(Products) : Precedes(s)}
      <3>1. n - 1 \in Nat /\ (n - 1) + 1 = n /\ L \in Lists
        BY <1>1, <1>3
      <3>2. E[n][p] = FlattenSeq(ss)
        BY <3>1, ExtensionsListsOK
      <3>3. /\ Len(below) \in Nat /\ \A i \in 1..Len(below) : below[i] \in Children(p)
            /\ \A e \in Children(p) : e \in Products /\ \E i \in 1..Len(below) : below[i] = e
        BY ChildrenOK
      <3>4. /\ ss \in Seq(Seq(Products)) /\ Len(ss) = Len(below)
            /\ \A i \in 1..Len(below) : ss[i] = <<below[i]>> \o L[below[i]]
        BY <3>1, BelowOK
      <3>5. ASSUME NEW e \in Children(p) PROVE <<e>> \o L[e] \in K /\ e \in ToSet(<<e>> \o L[e])
        <4>1. e \in Products /\ depth[e] < depth[p] /\ depth[e] \in 0..N /\ depth[p] \in 0..N
          BY <1>2, <3>3
        <4>2. depth[e] <= n - 1
          BY <1>1, <2>1, <4>1
        <4>3. Precedes(L[e]) /\ Children(e) \subseteq ToSet(L[e])
          BY <1>5, <4>1, <4>2
        <4>4. L[e] \in Seq(Products) /\ <<e>> \in Seq(Products) /\ ToSet(<<e>>) = {e}
          BY <1>3, <3>1, <4>1, ToSetOfOne
        <4>5. <<e>> \o L[e] \in Seq(Products) /\ ToSet(<<e>> \o L[e]) = ToSet(<<e>>) \cup ToSet(L[e])
          BY <4>4, ToSetOfJoin
        <4>6. ASSUME NEW q \in Products, NEW c \in Children(q) PROVE Leads(q, c, <<e>> \o L[e])
          <5>1. Leads(q, c, L[e])
            BY <4>3 DEF Precedes
          <5>2. CASE q = e
            <6>1. c \in ToSet(L[e])
              BY <4>3, <5>2
            <6> QED
              BY <4>4, <5>1, <6>1, LeadsJoin
          <5>3. CASE q # e
            <6>1. Leads(q, c, <<e>>)
              BY <4>4, <5>3, LeadsNone
            <6> QED
              BY <4>4, <5>1, <6>1, LeadsJoin
          <5> QED
            BY <5>2, <5>3
        <4>7. Precedes(<<e>> \o L[e])
          BY <4>6 DEF Precedes
        <4> QED
          BY <4>4, <4>5, <4>7
      <3> HIDE DEF below, L, ss
      <3>6. ss \in Seq(K)
        <4>1. \A i \in 1..Len(ss) : ss[i] \in K
          <5> SUFFICES ASSUME NEW i \in 1..Len(ss) PROVE ss[i] \in K
            OBVIOUS
          <5>1. ss[i] = <<below[i]>> \o L[below[i]] /\ below[i] \in Children(p)
            BY <3>3, <3>4
          <5>2. <<below[i]>> \o L[below[i]] \in K
            <6> HIDE DEF K
            <6> QED
              BY <3>5, <5>1
          <5> HIDE DEF K
          <5> QED
            BY <5>1, <5>2
        <4>2. Len(ss) \in Nat /\ ss = [i \in 1..Len(ss) |-> ss[i]]
          BY <3>4
        <4>3. ss \in [1..Len(ss) -> K]
          <5> HIDE DEF K
          <5> QED
            BY <4>1, <4>2
        <4> HIDE DEF K
        <4> QED
          BY <4>2, <4>3
      <3>7. FlattenSeq(ss) \in K
        <4>1. <<>> \in K
          <5>1. <<>> \in Seq(Products) /\ ToSet(<<>>) = {}
            BY ToSetOfOne
          <5> QED
            BY <5>1, LeadsNone DEF Precedes
        <4>2. \A s, t \in K : s \o t \in K
          BY PrecedesJoin, JoinSteps
        <4>3. K \in SUBSET Seq(Products)
          OBVIOUS
        <4> HIDE DEF K
        <4> QED
          BY <3>6, <4>1, <4>2, <4>3, FlattenKeeps
      <3>8. ToSet(FlattenSeq(ss)) = UNION {ToSet(ss[i]) : i \in 1..Len(ss)}
        BY <3>4, FlattenOK
      <3>9. ASSUME NEW e \in Children(p) PROVE e \in ToSet(FlattenSeq(ss))
        <4>1. PICK i \in 1..Len(below) : below[i] = e
          BY <3>3
        <4>2. e \in ToSet(ss[i]) /\ i \in 1..Len(ss)
          BY <3>4, <3>5, <4>1
        <4> QED
          BY <3>8, <4>2
      <3> QED
        BY <3>2, <3>7, <3>9
    <2> HIDE DEF Good
    <2> QED
      BY <2>1
  <1> HIDE DEF Good, G
  <1>6. N \in G
    <2>1. \A i \in 0..N : i \in G
      BY <1>1, <1>4, <1>5, UpTo
    <2> QED
      BY <1>1, <2>1
  <1>7. Good(N, Base)
    <2>1. depth[Base] <= N
      BY <1>1, <1>2, TreeAssumption
    <2> QED
      BY <1>6, <2>1, TreeAssumption DEF G
  <1> QED
    BY <1>1, <1>3, <1>7, TreeAssumption DEF toExtensionsList, Good, N

LEMMA BehindReverse ==
  ASSUME NEW S, NEW s \in Seq(S), NEW x, NEW y, Leads(x, y, s)
  PROVE  Behind(x, {y}, Reverse(s))
  <1>1. Len(s) \in Nat /\ DOMAIN s = 1..Len(s)
    OBVIOUS
  <1> DEFINE r == Reverse(s)
  <1>2. r = [i \in 1..Len(s) |-> s[Len(s) - i + 1]]
    BY DEF Reverse
  <1>3. \A i \in 1..Len(s) : Len(s) - i + 1 \in 1..Len(s) /\ s[Len(s) - i + 1] \in S
    BY <1>1
  <1>4. r \in [1..Len(s) -> S]
    BY <1>2, <1>3
  <1>5. Len(r) = Len(s) /\ r \in Seq(S)
    BY <1>1, <1>4
  <1> HIDE DEF r
  <1>6. ASSUME NEW i \in 1..Len(r), r[i] = x PROVE \E j \in 1..(i - 1) : r[j] \in {y}
    <2>1. s[Len(s) - i + 1] = x /\ Len(s) - i + 1 \in 1..Len(s)
      BY <1>2, <1>3, <1>5, <1>6
    <2>2. PICK k \in (Len(s) - i + 1 + 1)..Len(s) : s[k] = y
      BY <2>1 DEF Leads
    <2>3. Len(s) - k + 1 \in 1..(i - 1) /\ Len(s) - k + 1 \in 1..Len(s)
          /\ Len(s) - (Len(s) - k + 1) + 1 = k
      BY <1>1, <1>5, <2>2
    <2>4. r[Len(s) - k + 1] = y
      BY <1>2, <2>2, <2>3
    <2> QED
      BY <2>3, <2>4
  <1> QED
    BY <1>6 DEF Behind, r

LEMMA ReverseOK ==
  ASSUME NEW S, NEW s \in Seq(S)
  PROVE  Reverse(s) \in Seq(S) /\ ToSet(Reverse(s)) = ToSet(s)
  <1>1. Len(s) \in Nat /\ DOMAIN s = 1..Len(s) /\ \A i \in 1..Len(s) : s[i] \in S
    OBVIOUS
  <1> DEFINE r == Reverse(s)
  <1>2. r = [i \in 1..Len(s) |-> s[Len(s) - i + 1]]
    BY DEF Reverse
  <1>3. \A i \in 1..Len(s) : Len(s) - i + 1 \in 1..Len(s) /\ Len(s) - (Len(s) - i + 1) + 1 = i
    BY <1>1
  <1>4. r \in [1..Len(s) -> S]
    BY <1>1, <1>2, <1>3
  <1>5. Len(r) = Len(s) /\ r \in Seq(S)
    BY <1>1, <1>4
  <1> HIDE DEF r
  <1>6. \A i \in 1..Len(s) : r[i] \in ToSet(s) /\ s[i] \in ToSet(r)
    <2> SUFFICES ASSUME NEW i \in 1..Len(s) PROVE r[i] \in ToSet(s) /\ s[i] \in ToSet(r)
      OBVIOUS
    <2>1. r[i] = s[Len(s) - i + 1] /\ r[Len(s) - i + 1] = s[i]
      BY <1>2, <1>3
    <2> QED
      BY <1>3, <1>5, <2>1, ElementAt
  <1>7. \A x : x \in ToSet(r) <=> x \in ToSet(s)
    <2>1. ASSUME NEW x \in ToSet(r) PROVE x \in ToSet(s)
      <3>1. PICK i \in 1..Len(r) : r[i] = x
        BY <1>5, ElementAt
      <3> QED
        BY <1>5, <1>6, <3>1
    <2>2. ASSUME NEW x \in ToSet(s) PROVE x \in ToSet(r)
      <3>1. PICK i \in 1..Len(s) : s[i] = x
        BY ElementAt
      <3> QED
        BY <1>6, <3>1
    <2> QED
      BY <2>1, <2>2
  <1> QED
    BY <1>5, <1>7 DEF r

LEMMA deregisterDependenciesOK ==
  ASSUME NEW known \in SUBSET Products, skip \in BOOLEAN
  PROVE  /\ deregisterDependencies(known) \in Seq(Steps(DisableOps))
         /\ Halves(deregisterDependencies(known)) /\ Freed(Own, deregisterDependencies(known))
         /\ ~skip => \A p \in known \ {Base} :
                        St("uninstall", p) \in ToSet(deregisterDependencies(known))
         /\ \A p \in Products : \A e \in Children(p) \cap known :
              Behind(St("deactivate", p), {St("deactivate", e)}, deregisterDependencies(known))
  <1> DEFINE S == Steps(DisableOps)
             K == {s \in Seq(S) : Halves(s) /\ Freed(Own, s)}
             deps == Reverse(toExtensionsList(Base))
             drop(p) == deregisterProduct(p, skip)
             ss == [i \in DOMAIN deps |-> IF deps[i] \in known THEN drop(deps[i]) ELSE <<>>]
             t == deregisterDependencies(known)
  <1>1. t = FlattenSeq(ss)
    BY DEF deregisterDependencies
  <1>2. deps \in Seq(Products) /\ ToSet(deps) = Products \ {Base}
    BY ExtensionsFollow, ReverseOK, BelowBaseAssumption
  <1>3. \A p \in Products : \A e \in Children(p) : Behind(p, {e}, deps)
    BY ExtensionsFollow, BehindReverse DEF Precedes
  <1>4. \A p \in Products \ {Base} :
          /\ drop(p) \in K /\ St("deactivate", p) \in ToSet(drop(p))
          /\ \A x \in ToSet(drop(p)) : x.op = "deactivate" => x.on = p
          /\ ~skip => St("uninstall", p) \in ToSet(drop(p))
    BY deregisterProductOK
  <1>5. <<>> \in K /\ ToSet(<<>>) = {}
    BY JoinNone, NothingServices, ToSetOfOne
  <1> HIDE DEF drop, t, deps
  <1>6. \A s1, s2 \in K : s1 \o s2 \in K
    <2> HIDE DEF S
    <2> QED
      BY JoinSteps, HalvesJoin, FreedJoin
  <1>7. /\ DOMAIN deps = 1..Len(deps) /\ Len(deps) \in Nat
        /\ \A i \in 1..Len(deps) : deps[i] \in Products \ {Base}
        /\ \A p \in Products \ {Base} : \E i \in 1..Len(deps) : deps[i] = p
    <2>1. DOMAIN deps = 1..Len(deps) /\ Len(deps) \in Nat
      BY <1>2
    <2> QED
      BY <1>2, <2>1, ElementAt
  <1>8. /\ ss \in [1..Len(deps) -> K] /\ DOMAIN ss = 1..Len(deps)
        /\ \A i \in 1..Len(deps) : ss[i] = IF deps[i] \in known THEN drop(deps[i]) ELSE <<>>
    <2> HIDE DEF K
    <2> QED
      BY <1>4, <1>5, <1>7
  <1>9. ss \in Seq(K) /\ Len(ss) = Len(deps)
    <2> HIDE DEF K, ss
    <2> QED
      BY <1>7, <1>8
  <1> HIDE DEF ss
  <1>10. t \in K
    <2>1. K \in SUBSET Seq(S)
      OBVIOUS
    <2> HIDE DEF K, S
    <2> QED
      BY <1>1, <1>5, <1>6, <1>9, <2>1, FlattenKeeps
  <1>11. ss \in Seq(Seq(S))
    BY <1>9
  <1>12. PICK f \in [0..Len(ss) -> Seq(S)] :
            /\ f[0] = <<>> /\ f[Len(ss)] = FlattenSeq(ss)
            /\ \A i \in 1..Len(ss) : f[i] = f[i - 1] \o ss[i]
    <2> HIDE DEF S
    <2> QED
      BY <1>11, FlattenSteps
  <1>13. ASSUME ~skip, NEW p \in known \ {Base} PROVE St("uninstall", p) \in ToSet(t)
    <2>1. PICK i \in 1..Len(deps) : deps[i] = p
      BY <1>7, <1>13
    <2>2. ss[i] = drop(p) /\ i \in 1..Len(ss) /\ St("uninstall", p) \in ToSet(ss[i])
      BY <1>4, <1>8, <1>9, <1>13, <2>1
    <2>3. ToSet(t) = UNION {ToSet(ss[j]) : j \in 1..Len(ss)}
      <3> HIDE DEF S
      <3> QED
        BY <1>1, <1>11, FlattenOK
    <2> QED
      BY <2>2, <2>3
  <1>14. ASSUME NEW p \in Products, NEW e \in Children(p) \cap known
         PROVE  Behind(St("deactivate", p), {St("deactivate", e)}, t)
    <2> DEFINE x == St("deactivate", p)
               Y == {St("deactivate", e)}
               G == {i \in 0..Len(ss) :
                       /\ Behind(x, Y, f[i])
                       /\ (\E j \in 1..i : deps[j] = e) => ToSet(f[i]) \cap Y # {}}
    <2>1. 0 \in G
      <3>1. Behind(x, Y, <<>>)
        <4>1. <<>> \in Seq(S)
          BY <1>5
        <4> QED
          BY <1>5, <4>1, BehindNone
      <3> QED
        BY <1>7, <1>9, <1>12, <3>1
    <2>2. ASSUME NEW i \in 1..Len(ss), i - 1 \in G PROVE i \in G
      <3>1. /\ i \in 0..Len(ss) /\ f[i] = f[i - 1] \o ss[i] /\ f[i - 1] \in Seq(S) /\ ss[i] \in Seq(S)
            /\ Behind(x, Y, f[i - 1])
            /\ (\E j \in 1..(i - 1) : deps[j] = e) => ToSet(f[i - 1]) \cap Y # {}
        <4>1. Len(ss) \in Nat /\ i \in 0..Len(ss) /\ i - 1 \in 0..Len(ss)
          BY <1>7, <1>9
        <4>2. f[i] = f[i - 1] \o ss[i]
          BY <1>12
        <4>3. f[i - 1] \in Seq(S)
          BY <1>12, <4>1
        <4>4. ss[i] \in Seq(S)
          <5> HIDE DEF S
          <5> QED
            BY <1>11
        <4> HIDE DEF x, Y, S
        <4> QED
          BY <2>2, <4>1, <4>2, <4>3, <4>4
      <3>2. i \in 1..Len(deps) /\ deps[i] \in Products \ {Base}
        BY <1>7, <1>9
      <3>3. ToSet(f[i]) = ToSet(f[i - 1]) \cup ToSet(ss[i])
        <4> HIDE DEF S
        <4> QED
          BY <3>1, ToSetOfJoin
      <3>4. Behind(x, Y, f[i])
        <4>1. CASE deps[i] = p
          <5>1. \E j \in 1..(i - 1) : deps[j] = e
            BY <1>3, <3>2, <4>1 DEF Behind
          <5>2. ToSet(f[i - 1]) \cap Y # {}
            BY <3>1, <5>1
          <5> HIDE DEF x, Y, S
          <5> QED
            BY <3>1, <5>2, BehindJoin
        <4>2. CASE deps[i] # p
          <5>1. x \notin ToSet(ss[i])
            <6>1. ASSUME deps[i] \in known PROVE x \notin ToSet(ss[i])
              <7>1. ss[i] = drop(deps[i]) /\ x.op = "deactivate" /\ x.on = p
                BY <1>8, <3>2, <6>1 DEF St
              <7> QED
                BY <1>4, <3>2, <4>2, <7>1
            <6>2. ASSUME deps[i] \notin known PROVE x \notin ToSet(ss[i])
              BY <1>5, <1>8, <3>2, <6>2
            <6> QED
              BY <6>1, <6>2
          <5> HIDE DEF x, Y, S
          <5>2. Behind(x, Y, ss[i])
            BY <3>1, <5>1, BehindNone
          <5> QED
            BY <3>1, <5>2, BehindJoin
        <4> QED
          BY <4>1, <4>2
      <3>5. ASSUME NEW j \in 1..i, deps[j] = e PROVE ToSet(f[i]) \cap Y # {}
        <4>1. CASE j = i
          <5>1. St("deactivate", e) \in ToSet(ss[i])
            BY <1>4, <1>8, <3>2, <3>5, <4>1
          <5> QED
            BY <3>3, <5>1
        <4>2. CASE j # i
          <5>1. j \in 1..(i - 1)
            BY <4>2
          <5>2. ToSet(f[i - 1]) \cap Y # {}
            BY <3>1, <3>5, <5>1
          <5> QED
            BY <3>3, <5>2
        <4> QED
          BY <4>1, <4>2
      <3> HIDE DEF x, Y
      <3> QED
        BY <3>1, <3>4, <3>5
    <2>3. Len(ss) \in G
      <3> HIDE DEF G
      <3>1. Len(ss) \in Nat /\ \A i \in 0..Len(ss) : i \in G
        BY <1>7, <1>9, <2>1, <2>2, UpTo
      <3> QED
        BY <3>1
    <2> HIDE DEF x, Y
    <2> QED
      BY <1>1, <1>12, <2>3 DEF x, Y
  <1> QED
    BY <1>10, <1>13, <1>14 DEF t

-----------------------------------------------------------------------------
(* The type invariant.                                                      *)
DataOK ==
    /\ smt \in BOOLEAN /\ sameUrl \in BOOLEAN /\ alive \in BOOLEAN /\ act \subseteq Products
    /\ registered \in BOOLEAN
    /\ services \subseteq Services /\ Foreign \subseteq services
    /\ svcCreds \in [Services -> {"none", "current", "stale", "blank"}]
    /\ installed \subseteq Products /\ Base \in installed
    /\ ~alive => act = {}
TokenOK == token \in BOOLEAN /\ svcToken \subseteq Services
CommandOK ==
    /\ cmd \in Commands /\ skip \in BOOLEAN /\ result \in {"ok", "failed", "running"}
    /\ faults \in 0..MaxFaults /\ blind \in BOOLEAN
TodoOK ==
    /\ todo \in Seq(Steps(CmdOps(cmd)))
    /\ result # "running" => todo = <<>>
TypeInv == DataOK /\ TokenOK /\ CommandOK /\ TodoOK

LEMMA OpsOK ==
  \A c : CmdOps(c) \subseteq Ops
  BY DEF CmdOps, RegisterOps, EnableOps, ServiceOps, SystemOps, DisableOps, RemoveOps,
         CleanupOps, Ops

LEMMA TypeInvImplies ==
  ASSUME TypeInv
  PROVE  TypeOK
  <1>1. todo \in Seq(Steps(CmdOps(cmd)))
    BY DEF TypeInv, TodoOK
  <1>2. Steps(CmdOps(cmd)) \subseteq [op : Ops, on : Products \cup Services]
    BY OpsOK DEF Steps, Own, Services
  <1>3. todo \in Seq([op : Ops, on : Products \cup Services])
    BY <1>1, <1>2, SeqWiden
  <1> QED
    BY <1>3 DEF TypeInv, DataOK, TokenOK, CommandOK, TodoOK, TypeOK

\* The first step to do, and the rest.
LEMMA HeadStep ==
  ASSUME TypeInv, todo # <<>>
  PROVE  /\ Head(todo).op \in CmdOps(cmd) /\ On \in Place(Head(todo).op) /\ On \in Own
         /\ Head(todo) = St(Head(todo).op, On)
         /\ Tail(todo) \in Seq(Steps(CmdOps(cmd)))
         /\ ToSet(todo) = {Head(todo)} \cup ToSet(Tail(todo))
         /\ result = "running" /\ todo \in Seq(Steps(CmdOps(cmd)))
  <1>1. todo \in Seq(Steps(CmdOps(cmd))) /\ result = "running"
    BY DEF TypeInv, TodoOK
  <1>2. Head(todo) \in Steps(CmdOps(cmd)) /\ Tail(todo) \in Seq(Steps(CmdOps(cmd)))
    BY <1>1, HeadAndTail
  <1>3. ToSet(todo) = {Head(todo)} \cup ToSet(Tail(todo))
    BY <1>1, ToSetOfTail
  <1> QED
    BY <1>1, <1>2, <1>3, StepFields DEF On

LEMMA PlaceIs ==
  /\ \A op \in ServiceOps : Place(op) = Own
  /\ Place("uninstall") = Products \ {Base}
  /\ \A op \in OnBase : Place(op) = {Base}
  /\ \A op \in {"announce", "activate", "deactivate", "tree", "install"} : Place(op) = Products
  BY DEF Place, ServiceOps, OnBase

-----------------------------------------------------------------------------
(* What the steps do. A step of the system leaves it as it is, begins a     *)
(* command, stops the running one, or does the first step of its list.      *)
Op    == Head(todo).op
Known == <<registered, services, svcCreds, installed>>
Rests ==
    /\ UNCHANGED <<server, Known, cmd, skip, todo, faults, blind>>
    /\ result' = result \/ (result = "running" /\ todo = <<>> /\ result' = "ok")
Stops ==
    /\ todo # <<>> /\ todo' = <<>> /\ result' = "failed"
    /\ UNCHANGED <<smt, sameUrl, registered, services, installed, cmd, skip, blind>>
    /\ alive' \in BOOLEAN /\ act' \subseteq Products /\ (~alive' => act' = {})
    /\ svcCreds' \in [Services -> {"none", "current", "stale", "blank"}]
    /\ \/ faults' \in 1..MaxFaults
       \/ Refused /\ UNCHANGED <<alive, act, svcCreds, faults>>
Callable ==
    /\ Op = "announce" => ~registered \/ alive
    /\ Op \in {"activate", "deactivate", "upgrade", "deleteSystem"} => alive
    /\ Op = "activate" => HasParent(On)
Serves ==
    /\ alive' = IF Op = "announce" THEN TRUE ELSE IF Op = "deleteSystem" THEN FALSE ELSE alive
    /\ act' = IF Op = "activate" THEN act \cup {On}
              ELSE IF Op = "deactivate" THEN act \ {On}
              ELSE IF Op = "upgrade" THEN act \cup {Base}
              ELSE IF Op = "deleteSystem" \/ (Op = "announce" /\ ~registered) THEN {} ELSE act
Changes ==
    /\ registered' = IF Op = "announce" THEN TRUE
                     ELSE IF Op = "removeCreds" THEN FALSE ELSE registered
    /\ services' = IF Op = "removeservice" THEN services \ {On}
                   ELSE IF Op = "addservice" THEN services \cup {On} ELSE services
    /\ svcCreds' = IF Op = "removeServiceCreds" THEN [svcCreds EXCEPT ![On] = "none"]
                   ELSE IF Op = "writeServiceCreds" THEN [svcCreds EXCEPT ![On] = IF faults' = faults THEN "current"
                                                                 ELSE "blank"]
                   ELSE IF Op = "announce" /\ ~registered
                        THEN [s \in Services |-> IF svcCreds[s] = "current" THEN "stale"
                                                 ELSE svcCreds[s]]
                   ELSE svcCreds
    /\ installed' = IF Op = "install" THEN installed \cup {On}
                    ELSE IF Op = "uninstall" THEN installed \ {On} ELSE installed
Continues ==
    \/ /\ Op \notin {"tree", "dependencies", "removeServices"}
       /\ todo' = Tail(todo) /\ UNCHANGED <<faults, blind>>
    \/ /\ Op = "tree"
       /\ todo' = registerProductTree(On) \o Tail(todo) /\ UNCHANGED <<faults, blind>>
    \/ /\ Op = "dependencies"
       /\ todo' = deregisterDependencies(installed) \o Tail(todo) /\ UNCHANGED <<faults, blind>>
    \/ /\ Op \in {"dependencies", "writeServiceCreds"}
       /\ todo' = Tail(todo) /\ faults' \in 1..MaxFaults /\ blind' = TRUE
    \/ /\ Op = "removeServices" /\ UNCHANGED <<faults, blind>>
       /\ \E s \in Recognised : todo' = RemoveService(s) \o todo
    \/ /\ Op = "removeServices" /\ UNCHANGED <<faults, blind>>
       /\ Recognised = {} /\ todo' = Tail(todo)
Goes ==
    /\ todo # <<>> /\ UNCHANGED <<smt, sameUrl, cmd, skip, result>>
    /\ Callable /\ Serves /\ Changes /\ Continues

LEMMA ThenNothing ==
  ASSUME TypeInv, todo # <<>>, Then(<<>>)
  PROVE  todo' = Tail(todo) /\ UNCHANGED command
  <1>1. Tail(todo) \in Seq(Steps(CmdOps(cmd)))
    BY HeadStep
  <1>2. <<>> \o Tail(todo) = Tail(todo)
    BY <1>1, JoinNone
  <1> QED
    BY <1>2 DEF Then

LEMMA FaultyIs ==
  ASSUME TypeInv, Faulty
  PROVE  faults' \in 1..MaxFaults /\ todo' = <<>> /\ result' = "failed" /\ UNCHANGED <<cmd, skip, blind>>
  BY BoundsAssumption DEF Faulty, Fail, TypeInv, CommandOK

LEMMA BlindIs ==
  ASSUME TypeInv, GoOnBlind
  PROVE  /\ faults' \in 1..MaxFaults /\ faults' # faults /\ blind' = TRUE
         /\ todo' = Tail(todo) /\ UNCHANGED <<cmd, skip, result>>
  BY BoundsAssumption DEF GoOnBlind, TypeInv, CommandOK

\* The answer of the server comes, or it is lost.
LEMMA AnsweredIs ==
  ASSUME TypeInv, todo # <<>>, Answered
  PROVE  /\ token' \in BOOLEAN
         /\ \/ todo' = Tail(todo) /\ UNCHANGED command
            \/ /\ faults' \in 1..MaxFaults /\ todo' = <<>> /\ result' = "failed"
               /\ UNCHANGED <<cmd, skip, blind>>
  <1>1. CASE Then(<<>>) /\ token' \in (IF SendsTokens THEN {token, TRUE} ELSE {token})
    BY <1>1, ThenNothing DEF TypeInv, TokenOK
  <1>2. CASE Faulty /\ UNCHANGED token
    BY <1>2, FaultyIs DEF TypeInv, TokenOK
  <1> QED
    BY <1>1, <1>2 DEF Answered

LEMMA announceGoes ==
  ASSUME TypeInv, announceOrUpdate
  PROVE  (Stops \/ Goes) /\ TokenOK'
  <1>1. todo # <<>> /\ Op = "announce" /\ UNCHANGED <<services, svcToken, installed>>
    BY DEF announceOrUpdate, At, Op
  <1>2. CASE registered /\ alive /\ Answered /\ UNCHANGED <<registered, server, svcCreds>>
    <2>1. TokenOK'
      BY <1>1, <1>2, AnsweredIs DEF TypeInv, TokenOK
    <2>2. CASE todo' = Tail(todo) /\ UNCHANGED command
      <3>1. Callable /\ Continues
        BY <1>1, <1>2, <2>2 DEF Callable, Continues, command
      <3>2. Serves /\ Changes
        BY <1>1, <1>2 DEF Serves, Changes, server, setup, TypeInv, DataOK
      <3>3. Goes
        BY <1>1, <1>2, <2>2, <3>1, <3>2 DEF Goes, command, server, setup
      <3> QED
        BY <2>1, <3>3
    <2>3. CASE /\ faults' \in 1..MaxFaults /\ todo' = <<>> /\ result' = "failed"
               /\ UNCHANGED <<cmd, skip, blind>>
      <3>1. Stops
        BY <1>1, <1>2, <2>3 DEF Stops, server, setup, TypeInv, DataOK
      <3> QED
        BY <2>1, <3>1
    <2> QED
      BY <1>1, <1>2, <2>2, <2>3, AnsweredIs
  <1>3. CASE /\ ~registered
             /\ registered' = TRUE /\ alive' = TRUE /\ act' = {} /\ token' = FALSE
             /\ svcCreds' = [s \in Services |-> IF svcCreds[s] = "current" THEN "stale"
                                                ELSE svcCreds[s]]
             /\ Then(<<>>) /\ UNCHANGED setup
    <2>1. TokenOK'
      BY <1>1, <1>3 DEF TypeInv, TokenOK
    <2>2. todo' = Tail(todo) /\ UNCHANGED command
      BY <1>1, <1>3, ThenNothing
    <2>3. Callable /\ Continues
      BY <1>1, <1>3, <2>2 DEF Callable, Continues, command
    <2>4. Serves
      BY <1>1, <1>3 DEF Serves
    <2>5. Changes
      BY <1>1, <1>3 DEF Changes
    <2>6. Goes
      BY <1>1, <1>3, <2>2, <2>3, <2>4, <2>5 DEF Goes, command, setup
    <2> QED
      BY <2>1, <2>6
  <1> QED
    BY <1>2, <1>3 DEF announceOrUpdate

LEMMA callGoes ==
  ASSUME TypeInv, activateProduct \/ deactivateProduct \/ upgradeProduct \/ deregisterSystem
  PROVE  (Stops \/ Goes) /\ TokenOK'
  <1>1. /\ todo # <<>> /\ alive /\ Answered
        /\ UNCHANGED <<setup, registered, services, svcCreds, svcToken, installed>>
        /\ Op \in {"activate", "deactivate", "upgrade", "deleteSystem"}
        /\ Op = "activate" => HasParent(On)
    BY DEF activateProduct, deactivateProduct, upgradeProduct, deregisterSystem, At, Op
  <1>2. Serves
    BY DEF activateProduct, deactivateProduct, upgradeProduct, deregisterSystem, At, Op, Serves
  <1>3. On \in Products \/ Op = "deleteSystem"
    <2>1. On \in Place(Op)
      BY <1>1, HeadStep DEF Op
    <2> QED
      BY <1>1, <2>1, PlaceIs, TreeAssumption DEF OnBase
  <1>4. TokenOK'
    BY <1>1, AnsweredIs DEF TypeInv, TokenOK
  <1>5. CASE todo' = Tail(todo) /\ UNCHANGED command
    <2>1. Callable /\ Continues
      BY <1>1, <1>5 DEF Callable, Continues, command
    <2>2. Changes
      BY <1>1 DEF Changes
    <2>3. Goes
      BY <1>1, <1>2, <1>5, <2>1, <2>2 DEF Goes, command, setup
    <2> QED
      BY <1>4, <2>3
  <1>6. CASE /\ faults' \in 1..MaxFaults /\ todo' = <<>> /\ result' = "failed"
             /\ UNCHANGED <<cmd, skip, blind>>
    <2>1. alive' \in BOOLEAN /\ act' \subseteq Products /\ (~alive' => act' = {})
      BY <1>1, <1>2, <1>3, TreeAssumption DEF Serves, TypeInv, DataOK
    <2>2. Stops
      BY <1>1, <1>6, <2>1 DEF Stops, setup, TypeInv, DataOK
    <2> QED
      BY <1>4, <2>2
  <1> QED
    BY <1>1, <1>5, <1>6, AnsweredIs

LEMMA listGoes ==
  ASSUME TypeInv, showTree \/ listDependencies \/ removeOwnServices
  PROVE  (Stops \/ Goes) /\ TokenOK'
  <1>1. /\ todo # <<>> /\ UNCHANGED <<server, local>>
        /\ UNCHANGED <<cmd, skip, result>> /\ Op \in {"tree", "dependencies", "removeServices"}
    BY DEF showTree, listDependencies, GoOnBlind, removeOwnServices, At, Op, Then, command
  <1>2. TokenOK'
    BY <1>1 DEF TypeInv, TokenOK, local
  <1>3. Callable /\ Serves /\ Changes
    BY <1>1 DEF Callable, Serves, Changes, server, setup, local
  <1>4. Continues
    <2>1. CASE showTree
      BY <2>1 DEF showTree, At, Op, Then, command, Continues
    <2>2. CASE listDependencies
      BY <2>2, BlindIs DEF listDependencies, At, Op, Then, command, Continues
    <2>3. CASE removeOwnServices
      BY <2>3 DEF removeOwnServices, At, Op, command, Continues
    <2> QED
      BY <2>1, <2>2, <2>3
  <1> QED
    BY <1>1, <1>2, <1>3, <1>4 DEF Goes, server, setup

LEMMA localGoes ==
  ASSUME TypeInv, \/ zypperRemoveService \/ removeServiceCreds \/ zypperAddService
                  \/ InstallReleasePackage \/ RemoveReleasePackage \/ removeSystemCreds
  PROVE  (Stops \/ Goes) /\ TokenOK'
  <1>1. /\ todo # <<>> /\ UNCHANGED server /\ Then(<<>>)
        /\ Op \in ServiceOps \cup {"install", "uninstall", "removeCreds"}
    BY DEF zypperRemoveService, removeServiceCreds, zypperAddService, InstallReleasePackage,
       RemoveReleasePackage, removeSystemCreds, At, Op, ServiceOps
  <1>2. todo' = Tail(todo) /\ UNCHANGED command
    BY <1>1, ThenNothing
  <1>3. Callable /\ Continues
    BY <1>1, <1>2 DEF Callable, Continues, command, ServiceOps
  <1>4. Serves
    BY <1>1 DEF Serves, server, setup, ServiceOps
  <1>5. Changes /\ TokenOK'
    <2>1. CASE zypperRemoveService
      BY <2>1 DEF zypperRemoveService, At, Op, Changes, TypeInv, TokenOK
    <2>2. CASE removeServiceCreds
      BY <2>2 DEF removeServiceCreds, At, Op, Changes, TypeInv, TokenOK
    <2>3. CASE zypperAddService
      BY <2>3 DEF zypperAddService, At, Op, Changes, TypeInv, TokenOK
    <2>5. CASE InstallReleasePackage
      BY <2>5 DEF InstallReleasePackage, At, Op, Changes, TypeInv, TokenOK
    <2>6. CASE RemoveReleasePackage
      BY <2>6 DEF RemoveReleasePackage, At, Op, Changes, TypeInv, TokenOK
    <2>7. CASE removeSystemCreds
      BY <2>7 DEF removeSystemCreds, At, Op, Changes, TypeInv, TokenOK
    <2> QED
      BY <2>1, <2>2, <2>3, <2>5, <2>6, <2>7
  <1> QED
    BY <1>1, <1>2, <1>3, <1>4, <1>5 DEF Goes, command, server, setup

\* The credentials are copied, or blank ones are written, after which the command goes
\* on or ends with the refresh.
LEMMA writeGoes ==
  ASSUME TypeInv, writeServiceCreds
  PROVE  (Stops \/ Goes) /\ TokenOK'
  <1>1. /\ todo # <<>> /\ Op = "writeServiceCreds"
        /\ UNCHANGED <<server, registered, token, services, installed>>
    BY DEF writeServiceCreds, At, Op
  <1>2. On \in Services
    BY <1>1, HeadStep DEF Services
  <1>3. TokenOK'
    BY <1>2 DEF writeServiceCreds, TypeInv, TokenOK
  <1>4. Callable /\ Serves
    BY <1>1 DEF Callable, Serves, server
  <1>5. CASE svcCreds' = [svcCreds EXCEPT ![On] = "current"] /\ Then(<<>>)
    <2>1. todo' = Tail(todo) /\ UNCHANGED command
      BY <1>1, <1>5, ThenNothing
    <2>2. Continues /\ Changes
      BY <1>1, <1>5, <2>1 DEF Continues, Changes, command
    <2> QED
      BY <1>1, <1>3, <1>4, <2>1, <2>2 DEF Goes, command, server, setup
  <1>6. CASE svcCreds' = [svcCreds EXCEPT ![On] = "blank"] /\ GoOnBlind
    <2>1. /\ faults' \in 1..MaxFaults /\ faults' # faults /\ blind' = TRUE
          /\ todo' = Tail(todo) /\ UNCHANGED <<cmd, skip, result>>
      BY <1>6, BlindIs
    <2>2. Continues /\ Changes
      BY <1>1, <1>6, <2>1 DEF Continues, Changes
    <2> QED
      BY <1>1, <1>3, <1>4, <2>1, <2>2 DEF Goes, server, setup
  <1>7. CASE svcCreds' = [svcCreds EXCEPT ![On] = "blank"] /\ Faulty
    <2>1. svcCreds' \in [Services -> {"none", "current", "stale", "blank"}]
      BY <1>2, <1>7 DEF TypeInv, DataOK
    <2>2. Stops
      BY <1>1, <1>7, <2>1, FaultyIs DEF Stops, server, setup, TypeInv, DataOK
    <2> QED
      BY <1>3, <2>2
  <1> QED
    BY <1>5, <1>6, <1>7 DEF writeServiceCreds

LEMMA endGoes ==
  ASSUME TypeInv, Refused \/ Abort
  PROVE  Stops /\ TokenOK'
  <1>1. CASE Refused
    <2>1. todo # <<>> /\ UNCHANGED <<server, local, faults>> /\ Fail
      BY <1>1 DEF Refused, At
    <2> QED
      BY <1>1, <2>1 DEF Fail, Stops, Known, server, setup, local, TypeInv, DataOK, TokenOK
  <1>2. CASE Abort
    BY <1>2, FaultyIs DEF Abort, Stops, Known, server, setup, local, TypeInv, DataOK, TokenOK
  <1> QED
    BY <1>1, <1>2

LEMMA restGoes ==
  ASSUME TypeInv, Finish \/ UNCHANGED vars
  PROVE  Rests /\ TokenOK'
  BY DEF Finish, Rests, Known, vars, server, setup, local, command, TypeInv, TokenOK

LEMMA Moves ==
  ASSUME TypeInv, [Next]_vars
  PROVE  /\ Rests \/ Stops \/ Goes \/ \E c \in Commands, p \in Products, sk \in BOOLEAN : Start(c, p, sk)
         /\ TokenOK'
  <1>1. ASSUME Step PROVE (Rests \/ Stops \/ Goes) /\ TokenOK'
    BY <1>1, announceGoes, callGoes, listGoes, localGoes, writeGoes, endGoes, restGoes DEF Step
  <1>2. ASSUME NEW c \in Commands, NEW p \in Products, NEW sk \in BOOLEAN, Start(c, p, sk)
        PROVE  TokenOK'
    BY <1>2 DEF Start, local, TypeInv, TokenOK
  <1> QED
    BY <1>1, <1>2, endGoes, restGoes DEF Next

-----------------------------------------------------------------------------
(* The shape of what is to do: only the first step announces or upgrades,   *)
(* only the second half of a pair may be left of it, and once the system is *)
(* deleted, or its credentials, nothing but the cleanup follows.            *)
First     == {"announce", "upgrade"}
CallOps   == {"announce", "activate", "deactivate", "upgrade", "deleteSystem", "tree",
              "dependencies"}
Calls     == [op : CallOps, on : Own]
EndOps    == {"deleteSystem", "removeCreds"}
FirstOnly(t) == t # <<>> => \A x \in ToSet(Tail(t)) : x.op \notin First
Half(x, y, t) == Paired(x, y, t) \/ (t # <<>> /\ Head(t) = y /\ Paired(x, y, Tail(t)))
HalfDone(t) == \A z \in Own : Half(Removal(z), Removed(z), t) /\ Half(Adding(z), Added(z), t)
EndsOK(t) ==
    /\ Closes(St("deleteSystem", Base), Calls, t) /\ Closes(St("removeCreds", Base), Calls, t)
    /\ Leads(St("deleteSystem", Base), St("removeCreds", Base), t)
    /\ Leads(St("removeCreds", Base), St("removeServices", Base), t)
Shape(t)  == FirstOnly(t) /\ HalfDone(t) /\ EndsOK(t)
Secondary == {"removeServiceCreds", "writeServiceCreds"}

LEMMA HeadOfJoin ==
  ASSUME NEW S, NEW s \in Seq(S), NEW t \in Seq(S), s # <<>>
  PROVE  Head(s \o t) = Head(s) /\ Tail(s \o t) = Tail(s) \o t /\ s \o t # <<>>
  <1> DEFINE u == s \o t
             v == Tail(s) \o t
  <1>1. /\ Len(s) \in Nat /\ Len(s) # 0 /\ Len(t) \in Nat /\ Len(u) = Len(s) + Len(t) /\ u \in Seq(S)
        /\ \A i \in 1..Len(s) : u[i] = s[i]
        /\ \A i \in 1..Len(t) : u[Len(s) + i] = t[i]
    BY JoinParts, EmptySeq
  <1>2. /\ Head(s) = s[1] /\ Tail(s) \in Seq(S) /\ Len(Tail(s)) = Len(s) - 1
        /\ \A i \in 1..Len(Tail(s)) : Tail(s)[i] = s[i + 1]
    BY HeadAndTail
  <1>3. /\ Len(v) = Len(Tail(s)) + Len(t) /\ v \in Seq(S)
        /\ \A i \in 1..Len(Tail(s)) : v[i] = Tail(s)[i]
        /\ \A i \in 1..Len(t) : v[Len(Tail(s)) + i] = t[i]
    BY <1>2, JoinParts
  <1> HIDE DEF u, v
  <1>4. u # <<>>
    BY <1>1, EmptySeq
  <1>5. /\ Head(u) = u[1] /\ Tail(u) \in Seq(S) /\ Len(Tail(u)) = Len(u) - 1
        /\ \A i \in 1..Len(Tail(u)) : Tail(u)[i] = u[i + 1]
    BY <1>1, <1>4, HeadAndTail
  <1>6. Head(u) = Head(s)
    BY <1>1, <1>2, <1>5
  <1>7. Len(Tail(u)) = Len(v)
    BY <1>1, <1>2, <1>3, <1>5
  <1>8. ASSUME NEW i \in 1..Len(v) PROVE Tail(u)[i] = v[i]
    <2>1. Tail(u)[i] = u[i + 1]
      BY <1>5, <1>7
    <2>2. CASE i \in 1..Len(Tail(s))
      <3>1. i + 1 \in 1..Len(s)
        BY <1>1, <1>2, <2>2
      <3> QED
        BY <1>1, <1>2, <1>3, <2>1, <2>2, <3>1
    <2>3. CASE i \notin 1..Len(Tail(s))
      <3> DEFINE k == i - Len(Tail(s))
      <3>1. k \in 1..Len(t) /\ Len(Tail(s)) + k = i /\ Len(s) + k = i + 1
        BY <1>1, <1>2, <1>3, <2>3
      <3> HIDE DEF k
      <3>2. v[i] = t[k] /\ u[i + 1] = t[k]
        <4>1. v[Len(Tail(s)) + k] = t[k]
          BY <1>3, <3>1
        <4>2. u[Len(s) + k] = t[k]
          BY <1>1, <3>1
        <4> QED
          BY <3>1, <4>1, <4>2
      <3> QED
        BY <2>1, <3>2
    <2> QED
      BY <2>2, <2>3
  <1>9. Tail(u) = v
    BY <1>3, <1>5, <1>7, <1>8, SameSeq
  <1> QED
    BY <1>4, <1>6, <1>9 DEF u, v

LEMMA TailIn ==
  ASSUME NEW S, NEW t \in Seq(S), t # <<>>
  PROVE  ToSet(Tail(t)) \subseteq ToSet(t) /\ Tail(t) \in Seq(S) /\ Head(t) \in ToSet(t)
  BY ToSetOfTail, HeadAndTail

LEMMA FirstOnlyJoin ==
  ASSUME NEW S, NEW s \in Seq(S), NEW t \in Seq(S), FirstOnly(s),
         \A x \in ToSet(t) : x.op \notin First
  PROVE  FirstOnly(s \o t)
  <1>1. CASE s = <<>>
    <2>1. s \o t = t
      BY <1>1, JoinNone
    <2> QED
      BY <2>1, TailIn DEF FirstOnly
  <1>2. CASE s # <<>>
    <2>1. Tail(s \o t) = Tail(s) \o t
      BY <1>2, HeadOfJoin
    <2>2. Tail(s) \in Seq(S)
      BY <1>2, TailIn
    <2>3. ToSet(Tail(s) \o t) = ToSet(Tail(s)) \cup ToSet(t)
      BY <2>2, ToSetOfJoin
    <2> QED
      BY <1>2, <2>1, <2>3 DEF FirstOnly
  <1> QED
    BY <1>1, <1>2

LEMMA FirstOnlyNone ==
  ASSUME NEW S, NEW t \in Seq(S), \A x \in ToSet(t) : x.op \notin First
  PROVE  FirstOnly(t)
  BY TailIn DEF FirstOnly

LEMMA FirstOnlyTail ==
  ASSUME NEW S, NEW t \in Seq(S), t # <<>>, FirstOnly(t)
  PROVE  FirstOnly(Tail(t)) /\ \A x \in ToSet(Tail(t)) : x.op \notin First
  BY TailIn, FirstOnlyNone DEF FirstOnly

LEMMA HalvesDone ==
  ASSUME NEW t, Halves(t)
  PROVE  HalfDone(t)
  BY DEF Halves, HalfDone, Half

\* With a whole pair, or no pair, first, nothing is left of a pair.
LEMMA HalfTail ==
  ASSUME NEW S, NEW t \in Seq(S), t # <<>>, NEW x, NEW y, x # y, Half(x, y, t)
  PROVE  Half(x, y, Tail(t)) /\ (Head(t) # x => Paired(x, y, Tail(t)))
         /\ (Head(t) # y => Paired(x, y, t))
         /\ (Head(t) = x => Tail(t) # <<>> /\ Head(Tail(t)) = y)
  <1>1. CASE Paired(x, y, t)
    BY <1>1, PairedTail DEF Half
  <1>2. CASE Head(t) = y /\ Paired(x, y, Tail(t))
    BY <1>2 DEF Half
  <1> QED
    BY <1>1, <1>2 DEF Half

LEMMA Apart ==
  \A z \in Own, w \in Own :
     /\ Removal(z) # Removed(w) /\ Adding(z) # Added(w)
     /\ Removal(z) # Adding(w) /\ Removal(z) # Added(w) /\ Removed(z) # Adding(w)
     /\ Removed(z) # Added(w)
  BY SameStep DEF Removal, Removed, Adding, Added

LEMMA HalfDoneTail ==
  ASSUME NEW S, NEW t \in Seq(S), t # <<>>, HalfDone(t)
  PROVE  /\ HalfDone(Tail(t))
         /\ Head(t).op \notin {"removeservice", "addservice"} => Halves(Tail(t))
         /\ Head(t).op \notin Secondary => Halves(t)
  <1>1. ASSUME NEW z \in Own
        PROVE  /\ Half(Removal(z), Removed(z), Tail(t)) /\ Half(Adding(z), Added(z), Tail(t))
               /\ Head(t) # Removal(z) => Paired(Removal(z), Removed(z), Tail(t))
               /\ Head(t) # Adding(z) => Paired(Adding(z), Added(z), Tail(t))
               /\ Head(t) # Removed(z) => Paired(Removal(z), Removed(z), t)
               /\ Head(t) # Added(z) => Paired(Adding(z), Added(z), t)
    BY Apart, HalfTail DEF HalfDone
  <1>2. \A z : /\ Removal(z).op = "removeservice" /\ Adding(z).op = "addservice"
               /\ Removed(z).op \in Secondary /\ Added(z).op \in Secondary
    BY DEF Removal, Adding, Removed, Added, St, Secondary
  <1> QED
    BY <1>1, <1>2 DEF HalfDone, Halves

LEMMA EndsTail ==
  ASSUME NEW S, NEW t \in Seq(S), t # <<>>, EndsOK(t)
  PROVE  EndsOK(Tail(t))
  BY ClosesTail, LeadsTail DEF EndsOK

\* Steps that delete nothing may come before.
LEMMA EndsJoin ==
  ASSUME NEW O, NEW P, O \cap EndOps = {}, NEW s \in Seq(Steps(O)), NEW t \in Seq(Steps(P)), EndsOK(t)
  PROVE  EndsOK(s \o t)
  <1> DEFINE S == Steps(O \cup P)
  <1>1. s \in Seq(S) /\ t \in Seq(S)
    BY MoreSteps
  <1>2. St("deleteSystem", Base) \notin ToSet(s) /\ St("removeCreds", Base) \notin ToSet(s)
    BY NotIn DEF EndOps
  <1> HIDE DEF S
  <1>3. /\ Closes(St("deleteSystem", Base), Calls, s) /\ Closes(St("removeCreds", Base), Calls, s)
        /\ Leads(St("deleteSystem", Base), St("removeCreds", Base), s)
        /\ Leads(St("removeCreds", Base), St("removeServices", Base), s)
    BY <1>1, <1>2, ClosesNone, LeadsNone
  <1>4. /\ Closes(St("deleteSystem", Base), Calls, s \o t) /\ Closes(St("removeCreds", Base), Calls, s \o t)
    BY <1>1, <1>2, <1>3, ClosesJoin DEF EndsOK
  <1>5. /\ Leads(St("deleteSystem", Base), St("removeCreds", Base), s \o t)
        /\ Leads(St("removeCreds", Base), St("removeServices", Base), s \o t)
    BY <1>1, <1>3, LeadsJoin DEF EndsOK
  <1> QED
    BY <1>4, <1>5 DEF EndsOK

LEMMA EndsNone ==
  ASSUME NEW O, O \cap EndOps = {}, NEW s \in Seq(Steps(O))
  PROVE  EndsOK(s)
  <1>1. St("deleteSystem", Base) \notin ToSet(s) /\ St("removeCreds", Base) \notin ToSet(s)
    BY NotIn DEF EndOps
  <1> QED
    BY <1>1, ClosesNone, LeadsNone DEF EndsOK

LEMMA NothingShape ==
  Shape(<<>>)
  <1>1. <<>> \in Seq(Steps({})) /\ {} \cap EndOps = {} /\ ToSet(<<>>) = {}
    BY ToSetOfOne
  <1>2. EndsOK(<<>>)
    BY <1>1, EndsNone
  <1> QED
    BY <1>2, NothingServices, HalvesDone DEF Shape, FirstOnly

LEMMA TailShape ==
  ASSUME NEW S, NEW t \in Seq(S), t # <<>>, Shape(t)
  PROVE  Shape(Tail(t))
  BY FirstOnlyTail, HalfDoneTail, EndsTail DEF Shape

\* Steps that are put before the rest.
LEMMA JoinShape ==
  ASSUME NEW O, NEW P, O \cap (EndOps \cup First) = {}, NEW s \in Seq(Steps(O)),
         NEW t \in Seq(Steps(P)), EndsOK(t), Halves(s), Halves(t),
         \A x \in ToSet(t) : x.op \notin First
  PROVE  Shape(s \o t)
  <1> DEFINE S == Steps(O \cup P)
  <1>1. s \in Seq(S) /\ t \in Seq(S)
    BY MoreSteps
  <1> HIDE DEF S
  <1>2. Halves(s \o t)
    BY <1>1, HalvesJoin
  <1>3. \A x \in ToSet(s) : x.op \notin First
    <2>1. ToSet(s) \subseteq Steps(O)
      BY ElementsIn
    <2> QED
      BY <2>1, StepFields
  <1>4. FirstOnly(s)
    BY <1>3, FirstOnlyNone
  <1>5. FirstOnly(s \o t)
    BY <1>1, <1>4, FirstOnlyJoin
  <1>6. EndsOK(s \o t)
    <2>1. O \cap EndOps = {}
      OBVIOUS
    <2> QED
      BY <2>1, EndsJoin
  <1> QED
    BY <1>2, <1>5, <1>6, HalvesDone DEF Shape

-----------------------------------------------------------------------------
(* The steps a command begins with.                                         *)
LEMMA OneFirst ==
  \A op, x : FirstOnly(Do(op, x))
  BY ToSetOfOne DEF FirstOnly, Do

LEMMA BeginRegisterOK ==
  ASSUME NEW p \in Products, NEW inst \in BOOLEAN, NEW sk \in BOOLEAN,
         NEW d, d = <<>> \/ d = Do("tree", p),
         NEW t, t = Do("announce", p) \o registerProduct(p, inst, sk) \o d
  PROVE  /\ t \in Seq(Steps(RegisterOps)) /\ Halves(t) /\ Returns(t) /\ FirstOnly(t)
         /\ Enabled(p, inst, sk, t)
         /\ t # <<>> /\ Head(t) = St("announce", p)
         /\ d # <<>> => St("tree", p) \in ToSet(t)
         /\ \A x \in ToSet(t) : x.op \in {"activate", "tree"} => x.on = p
         /\ Behind(St("tree", p), {St("activate", p)}, t)
  <1> DEFINE O == RegisterOps
             a == Do("announce", p)
             r == registerProduct(p, inst, sk)
             ar == a \o r
  <1>1. /\ r \in Seq(Steps(EnableOps)) /\ Halves(r) /\ Returns(r) /\ Enabled(p, inst, sk, r)
    BY registerProductOK
  <1>2. EnableOps \subseteq O /\ "announce" \in O /\ "tree" \in O
        /\ p \in Place("announce") /\ p \in Place("tree")
        /\ {"announce", "tree"} \cap ServiceOps = {}
        /\ "tree" \notin EnableOps /\ EnableOps \cap First = {}
    BY PlaceIs DEF RegisterOps, EnableOps, ServiceOps, First
  <1> HIDE DEF O, r
  <1>3. r \in Seq(Steps(O))
    BY <1>1, <1>2, MoreSteps
  <1>4. /\ a \in Seq(Steps(O)) /\ ToSet(a) = {St("announce", p)} /\ Halves(a) /\ Returns(a)
        /\ a # <<>> /\ Head(a) = St("announce", p) /\ FirstOnly(a)
    <2>1. a \in Seq(Steps({"announce", "tree"}))
      BY <1>2, DoOK
    <2>2. Halves(a) /\ Returns(a)
      BY <1>2, <2>1, NoServices
    <2>3. a # <<>> /\ Head(a) = St("announce", p)
      BY DEF Do, St
    <2> QED
      BY <1>2, <2>2, <2>3, DoOK, OneFirst
  <1>5. /\ d \in Seq(Steps(O)) /\ Halves(d) /\ Returns(d) /\ ToSet(d) \subseteq {St("tree", p)}
        /\ d # <<>> => ToSet(d) = {St("tree", p)}
    <2>1. CASE d = <<>>
      BY <2>1, JoinNone, NothingServices, ToSetOfOne
    <2>2. CASE d = Do("tree", p)
      <3>1. d \in Seq(Steps({"announce", "tree"}))
        BY <1>2, <2>2, DoOK
      <3> QED
        BY <1>2, <2>2, <3>1, DoOK, NoServices
    <2> QED
      BY <2>1, <2>2
  <1>6. \A x \in ToSet(r) : x.op \notin First /\ x.op # "tree"
    <2>1. ToSet(r) \subseteq Steps(EnableOps)
      BY <1>1, ElementsIn
    <2> QED
      BY <1>2, <2>1, StepFields
  <1> HIDE DEF a
  <1>7. /\ ar \in Seq(Steps(O)) /\ ToSet(ar) = {St("announce", p)} \cup ToSet(r)
    <2>1. ar \in Seq(Steps(O)) /\ ToSet(ar) = ToSet(a) \cup ToSet(r)
      BY <1>3, <1>4, ToSetOfJoin
    <2> QED
      BY <1>4, <2>1
  <1>8. Halves(ar) /\ Returns(ar)
    BY <1>1, <1>3, <1>4, HalvesJoin, ReturnsJoin
  <1>9. ar # <<>> /\ Head(ar) = St("announce", p)
    BY <1>3, <1>4, HeadOfJoin
  <1>10. FirstOnly(ar)
    BY <1>3, <1>4, <1>6, FirstOnlyJoin
  <1> HIDE DEF ar
  <1>11. t = ar \o d
    BY DEF ar, a, r
  <1>12. t \in Seq(Steps(O)) /\ ToSet(t) = ToSet(ar) \cup ToSet(d)
    <2>1. ar \o d \in Seq(Steps(O)) /\ ToSet(ar \o d) = ToSet(ar) \cup ToSet(d)
      BY <1>5, <1>7, ToSetOfJoin
    <2> QED
      BY <1>11, <2>1
  <1>13. Halves(t) /\ Returns(t) /\ t # <<>> /\ Head(t) = St("announce", p)
    <2>1. Halves(ar \o d) /\ Returns(ar \o d)
      BY <1>5, <1>7, <1>8, HalvesJoin, ReturnsJoin
    <2>2. ar \o d # <<>> /\ Head(ar \o d) = St("announce", p)
      BY <1>5, <1>7, <1>9, HeadOfJoin
    <2> QED
      BY <1>11, <2>1, <2>2
  <1>14. FirstOnly(t)
    <2>1. \A x \in ToSet(d) : x.op \notin First
      BY <1>5 DEF St, First
    <2> QED
      BY <1>5, <1>7, <1>10, <1>11, <2>1, FirstOnlyJoin
  <1>15. Enabled(p, inst, sk, t)
    <2>1. ToSet(r) \subseteq ToSet(t)
      BY <1>7, <1>12
    <2>2. ASSUME NEW x \in ToSet(t), x.op = "activate" PROVE x.on = p
      <3>1. x \in ToSet(r) \/ x = St("announce", p) \/ x = St("tree", p)
        BY <1>5, <1>7, <1>12
      <3> QED
        BY <1>1, <2>2, <3>1 DEF St, Enabled
    <2> QED
      BY <1>1, <2>1, <2>2 DEF Enabled
  <1>16. d # <<>> => St("tree", p) \in ToSet(t)
    BY <1>5, <1>12
  <1>17. ASSUME NEW x \in ToSet(t), x.op = "tree" PROVE x.on = p
    <2>1. x \in ToSet(r) \/ x = St("announce", p) \/ x = St("tree", p)
      BY <1>5, <1>7, <1>12
    <2> QED
      BY <1>6, <1>17, <2>1 DEF St
  <1>18. Behind(St("tree", p), {St("activate", p)}, t)
    <2>1. St("tree", p) \notin ToSet(ar)
      <3>1. St("tree", p) # St("announce", p)
        BY SameStep
      <3>2. St("tree", p) \notin ToSet(r)
        BY <1>6 DEF St
      <3> QED
        BY <1>7, <3>1, <3>2
    <2>2. Behind(St("tree", p), {St("activate", p)}, ar)
      BY <1>7, <2>1, BehindNone
    <2>3. ToSet(ar) \cap {St("activate", p)} # {}
      BY <1>1, <1>7 DEF Enabled
    <2> QED
      BY <1>5, <1>7, <1>11, <2>2, <2>3, BehindJoin
  <1>19. \A x \in ToSet(t) : x.op = "activate" => x.on = p
    BY <1>15 DEF Enabled
  <1>20. \A x \in ToSet(t) : x.op \in {"activate", "tree"} => x.on = p
    BY <1>17, <1>19
  <1> QED
    BY <1>12, <1>13, <1>14, <1>15, <1>16, <1>18, <1>20 DEF O

LEMMA CleanupOK ==
  /\ Cleanup \in Seq(Steps(CleanupOps))
  /\ ToSet(Cleanup) = {St("removeCreds", Base), St("removeServices", Base)}
  /\ Halves(Cleanup) /\ (\A U : Freed(U, Cleanup)) /\ EndsOK(Cleanup)
  <1> DEFINE O == {"removeCreds", "removeServices"}
             a == Do("removeCreds", Base)
             b == Do("removeServices", Base)
             x == St("removeCreds", Base)
             y == St("removeServices", Base)
  <1>1. /\ "removeCreds" \in O /\ "removeServices" \in O /\ O \subseteq CleanupOps /\ O \cap ServiceOps = {}
        /\ Base \in Place("removeCreds") /\ Base \in Place("removeServices")
        /\ O \cap CallOps = {} /\ "deleteSystem" \notin O
    BY PlaceIs DEF CleanupOps, ServiceOps, OnBase, CallOps
  <1> HIDE DEF O
  <1>2. a \in Seq(Steps(O)) /\ ToSet(a) = {x} /\ b \in Seq(Steps(O)) /\ ToSet(b) = {y}
    BY <1>1, DoOK
  <1>3. x # y
    BY SameStep
  <1> HIDE DEF a, b, x, y
  <1>4. Cleanup = a \o b
    BY DEF Cleanup, a, b
  <1>5. Cleanup \in Seq(Steps(O)) /\ ToSet(Cleanup) = {x, y}
    <2>1. a \o b \in Seq(Steps(O)) /\ ToSet(a \o b) = ToSet(a) \cup ToSet(b)
      BY <1>2, ToSetOfJoin
    <2> QED
      BY <1>2, <1>4, <2>1
  <1>6. Halves(Cleanup) /\ (\A U : Freed(U, Cleanup))
    BY <1>1, <1>5, NoServices
  <1>7. Leads(x, y, Cleanup)
    <2>1. Leads(x, y, b)
      BY <1>2, <1>3, LeadsNone
    <2> QED
      BY <1>2, <1>4, <2>1, LeadsJoin
  <1>8. ToSet(Cleanup) \cap Calls = {}
    <2>1. ToSet(Cleanup) \subseteq Steps(O)
      BY <1>5, ElementsIn
    <2> QED
      BY <1>1, <2>1, StepFields DEF Calls
  <1>9. St("deleteSystem", Base) \notin ToSet(Cleanup)
    BY <1>1, <1>5, NotIn
  <1>10. EndsOK(Cleanup)
    <2>1. Closes(St("deleteSystem", Base), Calls, Cleanup) /\ Closes(x, Calls, Cleanup)
      BY <1>5, <1>8, ClosesNone
    <2>2. Leads(St("deleteSystem", Base), x, Cleanup)
      BY <1>5, <1>9, LeadsNone
    <2> QED
      BY <1>7, <2>1, <2>2 DEF EndsOK, x, y
  <1>11. Cleanup \in Seq(Steps(CleanupOps))
    BY <1>1, <1>5, MoreSteps
  <1> QED
    BY <1>5, <1>6, <1>10, <1>11 DEF x, y

LEMMA BeginDeregisterOK ==
  ASSUME NEW sk \in BOOLEAN, NEW t, t = Begin("deregister", Base, sk)
  PROVE  /\ t \in Seq(Steps(SystemOps)) /\ Halves(t) /\ Freed(Own, t) /\ FirstOnly(t) /\ EndsOK(t)
         /\ {St("dependencies", Base), St("deleteSystem", Base), St("removeCreds", Base),
             St("removeServices", Base)} \subseteq ToSet(t)
         /\ \A x \in ToSet(t) : x.op \notin {"deactivate", "activate", "tree", "announce"}
         /\ Behind(St("removeServices", Base), {St("deleteSystem", Base)}, t)
  <1> DEFINE O == SystemOps
             F == {"upgrade", "dependencies", "deleteSystem"}
             a == Do("upgrade", Base)
             b == Do("dependencies", Base)
             x == Do("deleteSystem", Base)
             r == IF sk THEN <<>> ELSE removeOrRefreshService(ServiceOf(Base))
             ab == a \o b
             abx == ab \o x
             abxr == abx \o r
             del == St("deleteSystem", Base)
  <1>1. /\ F \subseteq O /\ F \cap ServiceOps = {} /\ RemoveOps \subseteq O /\ CleanupOps \subseteq O
        /\ F \cap {"removeCreds", "removeServices"} = {}
        /\ "upgrade" \in F /\ "dependencies" \in F /\ "deleteSystem" \in F
        /\ Base \in Place("upgrade") /\ Base \in Place("dependencies") /\ Base \in Place("deleteSystem")
        /\ RemoveOps \cap CallOps = {} /\ RemoveOps \cap EndOps = {} /\ RemoveOps \cap First = {}
        /\ CleanupOps \cap CallOps = {} /\ CleanupOps \cap First = {}
        /\ RemoveOps \cap {"removeServices", "deleteSystem"} = {}
    BY PlaceIs DEF SystemOps, DisableOps, CleanupOps, RemoveOps, ServiceOps, OnBase, CallOps, First, EndOps
  <1>2. ServiceOf(Base) \in Own
    BY TreeAssumption, ServiceOfOwn
  <1> HIDE DEF O, F
  <1>3. /\ a \in Seq(Steps(F)) /\ ToSet(a) = {St("upgrade", Base)}
        /\ b \in Seq(Steps(F)) /\ ToSet(b) = {St("dependencies", Base)}
        /\ x \in Seq(Steps(F)) /\ ToSet(x) = {del}
    BY <1>1, DoOK
  <1>4. FirstOnly(a) /\ Closes(del, Calls, x)
    <2>1. x = <<del>> /\ Len(<<del>>) = 1
      BY DEF Do, St
    <2>2. Closes(del, Calls, x)
      BY <2>1 DEF Closes
    <2> QED
      BY <2>2, OneFirst
  <1>5. /\ r \in Seq(Steps(RemoveOps)) /\ Halves(r)
    <2>1. CASE sk
      BY <2>1, JoinNone, NothingServices
    <2>2. CASE ~sk
      BY <1>2, <2>2, removeOrRefreshOK
    <2> QED
      BY <2>1, <2>2
  <1>6. t = abxr \o Cleanup
    BY DEF Begin
  <1>7. del # St("removeServices", Base) /\ del # St("removeCreds", Base)
        /\ del # St("upgrade", Base) /\ del # St("dependencies", Base)
    BY SameStep
  <1> HIDE DEF a, b, x, r, del
  <1>8. ab \in Seq(Steps(F)) /\ ToSet(ab) = {St("upgrade", Base), St("dependencies", Base)}
    <2>1. ab \in Seq(Steps(F)) /\ ToSet(ab) = ToSet(a) \cup ToSet(b)
      BY <1>3, ToSetOfJoin
    <2> QED
      BY <1>3, <2>1
  <1>9. FirstOnly(ab)
    <2>1. \A y \in ToSet(b) : y.op \notin First
      BY <1>3 DEF St, First
    <2> QED
      BY <1>3, <1>4, <2>1, FirstOnlyJoin
  <1> HIDE DEF ab
  <1>10. /\ abx \in Seq(Steps(F))
         /\ ToSet(abx) = {St("upgrade", Base), St("dependencies", Base), del}
    <2>1. abx \in Seq(Steps(F)) /\ ToSet(abx) = ToSet(ab) \cup ToSet(x)
      BY <1>3, <1>8, ToSetOfJoin
    <2> QED
      BY <1>3, <1>8, <2>1
  <1>11. FirstOnly(abx)
    <2>1. \A y \in ToSet(x) : y.op \notin First
      BY <1>3 DEF St, First, del
    <2> QED
      BY <1>3, <1>8, <1>9, <2>1, FirstOnlyJoin
  <1>12. Closes(del, Calls, abx)
    <2>1. del \notin ToSet(ab)
      BY <1>7, <1>8
    <2>2. Closes(del, Calls, ab)
      BY <1>8, <2>1, ClosesNone
    <2> QED
      BY <1>3, <1>4, <1>8, <2>1, <2>2, ClosesJoin
  <1>13. Halves(abx) /\ \A U : Freed(U, abx)
    BY <1>1, <1>10, NoServices
  <1> HIDE DEF abx
  <1>14. abx \in Seq(Steps(O)) /\ r \in Seq(Steps(O)) /\ Cleanup \in Seq(Steps(O))
    BY <1>1, <1>5, <1>10, CleanupOK, MoreSteps
  <1>15. abxr \in Seq(Steps(O)) /\ ToSet(abxr) = ToSet(abx) \cup ToSet(r)
    BY <1>14, ToSetOfJoin
  <1>16. ToSet(r) \subseteq Steps(RemoveOps) /\ ToSet(Cleanup) \subseteq Steps(CleanupOps)
    BY <1>5, CleanupOK, ElementsIn
  <1>17. FirstOnly(abxr)
    <2>1. \A y \in ToSet(r) : y.op \notin First
      BY <1>1, <1>16, StepFields
    <2> QED
      BY <1>11, <1>14, <2>1, FirstOnlyJoin
  <1>18. Closes(del, Calls, abxr)
    <2>1. ToSet(r) \cap Calls = {}
      BY <1>1, <1>16, StepFields DEF Calls
    <2>2. Closes(del, Calls, r)
      BY <1>5, <2>1, ClosesNone
    <2> QED
      BY <1>12, <1>14, <2>1, <2>2, ClosesJoin
  <1>19. Freed(Own, abxr)
    <2>1. ASSUME NEW z \in Own PROVE Behind(Removal(z), Frees(z), abxr)
      <3>1. ToSet(abx) \cap Frees(z) # {}
        BY <1>10 DEF Frees, del
      <3>2. Behind(Removal(z), Frees(z), abx)
        BY <1>13 DEF Freed
      <3> QED
        BY <1>14, <3>1, <3>2, BehindJoin
    <2> QED
      BY <2>1 DEF Freed
  <1>20. Halves(abxr)
    BY <1>5, <1>13, <1>14, HalvesJoin
  <1>21. \A op \in {"removeCreds", "removeServices"} : \A p : St(op, p) \notin ToSet(abxr)
    <2>1. \A op \in {"removeCreds", "removeServices"} : op \notin F /\ op \notin RemoveOps
      BY <1>1 DEF RemoveOps
    <2>2. \A op \in {"removeCreds", "removeServices"} : \A p : St(op, p) \notin ToSet(abx) /\ St(op, p) \notin ToSet(r)
      BY <1>5, <1>10, <2>1, NotIn
    <2> QED
      BY <1>15, <2>2
  <1> HIDE DEF abxr
  <1>22. t \in Seq(Steps(O)) /\ ToSet(t) = ToSet(abxr) \cup ToSet(Cleanup)
    <2>1. abxr \o Cleanup \in Seq(Steps(O)) /\ ToSet(abxr \o Cleanup) = ToSet(abxr) \cup ToSet(Cleanup)
      BY <1>14, <1>15, ToSetOfJoin
    <2> QED
      BY <1>6, <2>1
  <1>23. Halves(t) /\ Freed(Own, t)
    <2>1. Halves(abxr \o Cleanup) /\ Freed(Own, abxr \o Cleanup)
      BY <1>14, <1>15, <1>19, <1>20, CleanupOK, HalvesJoin, FreedJoin
    <2> QED
      BY <1>6, <2>1
  <1>24. FirstOnly(t)
    <2>1. \A y \in ToSet(Cleanup) : y.op \notin First
      BY <1>1, <1>16, StepFields
    <2>2. FirstOnly(abxr \o Cleanup)
      BY <1>14, <1>15, <1>17, <2>1, FirstOnlyJoin
    <2> QED
      BY <1>6, <2>2
  <1>25. EndsOK(t)
    <2> DEFINE y == St("removeCreds", Base)
               z == St("removeServices", Base)
    <2>1. ToSet(Cleanup) \cap Calls = {}
      BY <1>1, <1>16, StepFields DEF Calls
    <2>2. y \notin ToSet(abxr) /\ y \in ToSet(Cleanup)
      BY <1>21, CleanupOK
    <2>3. /\ Closes(del, Calls, Cleanup) /\ Closes(y, Calls, Cleanup)
          /\ Leads(del, y, Cleanup) /\ Leads(y, z, Cleanup)
      BY CleanupOK DEF EndsOK, del
    <2> HIDE DEF y, z
    <2>4. Closes(y, Calls, abxr) /\ Leads(y, z, abxr)
      BY <1>15, <2>2, ClosesNone, LeadsNone
    <2>5. Closes(del, Calls, abxr \o Cleanup) /\ Closes(y, Calls, abxr \o Cleanup)
      BY <1>14, <1>15, <1>18, <2>1, <2>3, <2>4, ClosesJoin
    <2>6. Leads(del, y, abxr \o Cleanup) /\ Leads(y, z, abxr \o Cleanup)
      BY <1>14, <1>15, <2>2, <2>3, <2>4, LeadsJoin
    <2> QED
      BY <1>6, <2>5, <2>6 DEF EndsOK, y, z, del
  <1>26. {St("dependencies", Base), del, St("removeCreds", Base), St("removeServices", Base)}
            \subseteq ToSet(t)
    BY <1>10, <1>15, <1>22, CleanupOK
  <1>27. ASSUME NEW y \in ToSet(t) PROVE y.op \notin {"deactivate", "activate", "tree", "announce"}
    <2>1. y \in ToSet(abx) \/ y \in ToSet(r) \/ y \in ToSet(Cleanup)
      BY <1>15, <1>22
    <2>2. CASE y \in ToSet(abx)
      BY <1>10, <2>2 DEF St, del
    <2>3. CASE y \in ToSet(r)
      <3>1. y.op \in RemoveOps
        BY <1>16, <2>3, StepFields
      <3> QED
        BY <3>1 DEF RemoveOps
    <2>4. CASE y \in ToSet(Cleanup)
      <3>1. y.op \in CleanupOps
        BY <1>16, <2>4, StepFields
      <3> QED
        BY <3>1 DEF CleanupOps, RemoveOps
    <2> QED
      BY <2>1, <2>2, <2>3, <2>4
  <1>28. Behind(St("removeServices", Base), {del}, t)
    <2>1. St("removeServices", Base) \notin ToSet(abxr)
      BY <1>21
    <2>2. Behind(St("removeServices", Base), {del}, abxr)
      BY <1>15, <2>1, BehindNone
    <2>3. ToSet(abxr) \cap {del} # {}
      BY <1>10, <1>15
    <2>4. Behind(St("removeServices", Base), {del}, abxr \o Cleanup)
      BY <1>14, <1>15, <2>2, <2>3, BehindJoin
    <2> QED
      BY <1>6, <2>4
  <1> QED
    BY <1>22, <1>23, <1>24, <1>25, <1>26, <1>27, <1>28 DEF O, del

LEMMA StartIs ==
  ASSUME NEW c \in Commands, NEW p \in Products, NEW sk \in BOOLEAN, Start(c, p, sk)
  PROVE  /\ result # "running" /\ UNCHANGED <<server, Known, faults>>
         /\ cmd' = c /\ skip' = sk /\ blind' = FALSE
         /\ c \in {"registerProduct", "deregisterProduct"} \/ p = Base
         /\ \/ todo' = <<>> /\ result' = "failed"
            \/ todo' = Begin(c, p, sk) /\ result' = "running" /\ (c = "deregisterProduct" => p # Base)
  BY DEF Start, Denied, local, Known

LEMMA BeginOK ==
  ASSUME NEW c \in Commands, NEW p \in Products, NEW sk \in BOOLEAN,
         c \in {"registerProduct", "deregisterProduct"} \/ p = Base,
         c = "deregisterProduct" => p # Base
  PROVE  /\ Begin(c, p, sk) \in Seq(Steps(CmdOps(c))) /\ Shape(Begin(c, p, sk))
         /\ Halves(Begin(c, p, sk))
  <1> DEFINE t == Begin(c, p, sk)
  <1>1. CASE c = "register"
    <2>1. t = Do("announce", Base) \o registerProduct(Base, FALSE, sk) \o Do("tree", Base)
      BY <1>1 DEF Begin
    <2>2. t \in Seq(Steps(RegisterOps)) /\ Halves(t) /\ FirstOnly(t)
      <3> DEFINE d == Do("tree", Base)
      <3>1. d = <<>> \/ d = Do("tree", Base)
        OBVIOUS
      <3>2. t = Do("announce", Base) \o registerProduct(Base, FALSE, sk) \o d /\ Base \in Products
        BY <2>1, TreeAssumption
      <3>3. PICK inst \in BOOLEAN : inst = FALSE
        OBVIOUS
      <3> HIDE DEF t, d
      <3>4. t = Do("announce", Base) \o registerProduct(Base, inst, sk) \o d
        BY <3>2, <3>3
      <3> QED
        BY <3>1, <3>2, <3>4, BeginRegisterOK
    <2>3. CmdOps(c) = RegisterOps /\ RegisterOps \cap EndOps = {}
      BY <1>1 DEF CmdOps, RegisterOps, EnableOps, ServiceOps, EndOps
    <2> HIDE DEF t
    <2>4. EndsOK(t)
      BY <2>2, <2>3, EndsNone
    <2> QED
      BY <2>2, <2>3, <2>4, HalvesDone DEF Shape, t
  <1>2. CASE c = "registerProduct"
    <2>1. t = Do("announce", p) \o registerProduct(p, TRUE, sk) \o <<>>
      <3>1. t = Do("announce", p) \o registerProduct(p, TRUE, sk)
        BY <1>2 DEF Begin
      <3>2. Do("announce", p) \in Seq(Steps(Ops)) /\ registerProduct(p, TRUE, sk) \in Seq(Steps(Ops))
        <4>1. "announce" \in Ops /\ p \in Place("announce") /\ EnableOps \subseteq Ops
          BY PlaceIs DEF Ops, EnableOps, ServiceOps
        <4> QED
          BY <4>1, DoOK, registerProductOK, MoreSteps
      <3>3. Do("announce", p) \o registerProduct(p, TRUE, sk) \in Seq(Steps(Ops))
        BY <3>2, JoinSteps
      <3> QED
        BY <3>1, <3>3, JoinNone
    <2>2. t \in Seq(Steps(RegisterOps)) /\ Halves(t) /\ FirstOnly(t)
      <3> HIDE DEF t
      <3> QED
        BY <2>1, BeginRegisterOK
    <2>3. CmdOps(c) = RegisterOps /\ RegisterOps \cap EndOps = {}
      BY <1>2 DEF CmdOps, RegisterOps, EnableOps, ServiceOps, EndOps
    <2> HIDE DEF t
    <2>4. EndsOK(t)
      BY <2>2, <2>3, EndsNone
    <2> QED
      BY <2>2, <2>3, <2>4, HalvesDone DEF Shape, t
  <1>3. CASE c = "deregister"
    <2>1. t = Begin("deregister", Base, sk) /\ CmdOps(c) = SystemOps
      BY <1>3 DEF CmdOps
    <2> HIDE DEF t
    <2> QED
      BY <2>1, BeginDeregisterOK, HalvesDone DEF Shape, t
  <1>4. CASE c = "deregisterProduct"
    <2>1. t = deregisterProduct(p, sk) /\ CmdOps(c) = DisableOps /\ p # Base
      BY <1>4 DEF Begin, CmdOps
    <2>2. DisableOps \cap EndOps = {} /\ DisableOps \cap First = {}
      BY DEF DisableOps, RemoveOps, EndOps, First
    <2> HIDE DEF t
    <2>3. t \in Seq(Steps(DisableOps)) /\ Halves(t)
      BY <2>1, deregisterProductOK
    <2>4. \A x \in ToSet(t) : x.op \notin First
      <3>1. ToSet(t) \subseteq Steps(DisableOps)
        BY <2>3, ElementsIn
      <3> QED
        BY <2>2, <3>1, StepFields
    <2>5. EndsOK(t) /\ FirstOnly(t)
      BY <2>2, <2>3, <2>4, EndsNone, FirstOnlyNone
    <2> QED
      BY <2>1, <2>3, <2>5, HalvesDone DEF Shape, t
  <1>5. CASE c = "cleanup"
    <2>1. t = Cleanup /\ CmdOps(c) = CleanupOps /\ CleanupOps \cap First = {}
      BY <1>5 DEF Begin, CmdOps, CleanupOps, RemoveOps, First
    <2> HIDE DEF t
    <2>2. FirstOnly(t)
      <3>1. ToSet(Cleanup) \subseteq Steps(CleanupOps) /\ Cleanup \in Seq(Steps(CleanupOps))
        BY CleanupOK, ElementsIn
      <3>2. \A x \in ToSet(Cleanup) : x.op \notin First
        BY <2>1, <3>1, StepFields
      <3> QED
        BY <2>1, <3>1, <3>2, FirstOnlyNone
    <2> QED
      BY <2>1, <2>2, CleanupOK, HalvesDone DEF Shape, t
  <1> QED
    BY <1>1, <1>2, <1>3, <1>4, <1>5 DEF Commands

\* The steps that come before the rest of the list, and their type.
LEMMA AddedOK ==
  ASSUME TypeInv, todo # <<>>
  PROVE  /\ Op = "tree" => /\ cmd \in {"register", "registerProduct"} /\ On \in Products
                           /\ registerProductTree(On) \in Seq(Steps(CmdOps(cmd)))
         /\ Op = "dependencies" => /\ cmd = "deregister"
                                   /\ deregisterDependencies(installed) \in Seq(Steps(CmdOps(cmd)))
         /\ Op = "removeServices" => /\ cmd \in {"deregister", "cleanup"}
                                     /\ \A s \in Own : RemoveService(s) \in Seq(Steps(CmdOps(cmd)))
  <1>1. Op \in CmdOps(cmd) /\ On \in Place(Op) /\ skip \in BOOLEAN /\ installed \subseteq Products
    BY HeadStep DEF Op, TypeInv, CommandOK, DataOK
  <1>2. ASSUME Op = "tree"
        PROVE  /\ cmd \in {"register", "registerProduct"} /\ On \in Products
               /\ registerProductTree(On) \in Seq(Steps(CmdOps(cmd)))
    <2>1. cmd \in {"register", "registerProduct"}
      BY <1>1, <1>2 DEF CmdOps, SystemOps, DisableOps, CleanupOps, RemoveOps
    <2>2. On \in Products
      BY <1>1, <1>2, PlaceIs
    <2>3. TreeOps \subseteq CmdOps(cmd)
      BY <2>1 DEF TreeOps, CmdOps, RegisterOps
    <2> QED
      BY <1>1, <2>1, <2>2, <2>3, registerProductTreeOK, MoreSteps
  <1>3. ASSUME Op = "dependencies"
        PROVE  /\ cmd = "deregister"
               /\ deregisterDependencies(installed) \in Seq(Steps(CmdOps(cmd)))
    <2>1. cmd = "deregister"
      BY <1>1, <1>3 DEF CmdOps, DisableOps, CleanupOps, RemoveOps, RegisterOps, EnableOps, ServiceOps
    <2>2. DisableOps \subseteq CmdOps(cmd)
      BY <2>1 DEF CmdOps, SystemOps
    <2> QED
      BY <1>1, <2>1, <2>2, deregisterDependenciesOK, MoreSteps
  <1>4. ASSUME Op = "removeServices"
        PROVE  /\ cmd \in {"deregister", "cleanup"}
               /\ \A s \in Own : RemoveService(s) \in Seq(Steps(CmdOps(cmd)))
    <2>1. cmd \in {"deregister", "cleanup"}
      BY <1>1, <1>4 DEF CmdOps, DisableOps, RemoveOps, RegisterOps, EnableOps, ServiceOps, TypeInv,
         CommandOK, Commands
    <2>2. RemoveOps \subseteq CmdOps(cmd)
      BY <2>1 DEF CmdOps, SystemOps, CleanupOps
    <2> QED
      BY <2>1, <2>2, RemoveServiceOK
  <1> QED
    BY <1>2, <1>3, <1>4

LEMMA InitType ==
  Init => TypeInv
  <1> SUFFICES ASSUME Init PROVE TypeInv
    OBVIOUS
  <1>1. todo \in Seq(Steps(CmdOps(cmd))) /\ todo = <<>>
    BY DEF Init
  <1>2. svcCreds \in [Services -> {"none", "current", "stale", "blank"}]
    BY DEF Init
  <1>3. CommandOK
    <2>1. cmd \in Commands /\ result \in {"ok", "failed", "running"} /\ faults \in 0..MaxFaults
      BY BoundsAssumption DEF Init, Commands
    <2>2. skip = FALSE /\ blind = FALSE
      BY DEF Init
    <2> QED
      BY <2>1, <2>2 DEF CommandOK
  <1>4. DataOK /\ TokenOK
    BY <1>2, TreeAssumption DEF Init, DataOK, TokenOK, Services
  <1> QED
    BY <1>1, <1>3, <1>4 DEF TypeInv, TodoOK

LEMMA GoesType ==
  ASSUME TypeInv, Goes
  PROVE  DataOK' /\ CommandOK' /\ TodoOK'
  <1>1. /\ todo # <<>> /\ UNCHANGED <<smt, sameUrl, cmd, skip, result>>
        /\ Callable /\ Serves /\ Changes /\ Continues
    BY DEF Goes
  <1>2. /\ Op \in CmdOps(cmd) /\ On \in Place(Op) /\ On \in Own /\ result = "running"
        /\ Tail(todo) \in Seq(Steps(CmdOps(cmd))) /\ todo \in Seq(Steps(CmdOps(cmd)))
    BY <1>1, HeadStep DEF Op
  <1>3. TodoOK'
    <2>1. \/ todo' = Tail(todo)
          \/ Op = "tree" /\ todo' = registerProductTree(On) \o Tail(todo)
          \/ Op = "dependencies" /\ todo' = deregisterDependencies(installed) \o Tail(todo)
          \/ Op = "removeServices" /\ \E s \in Own : todo' = RemoveService(s) \o todo
      BY <1>1 DEF Continues, Recognised
    <2>2. todo' \in Seq(Steps(CmdOps(cmd)))
      BY <1>1, <1>2, <2>1, AddedOK, JoinSteps
    <2> QED
      BY <1>1, <1>2, <2>2 DEF TodoOK
  <1>4. CommandOK'
    <2>1. UNCHANGED <<faults, blind>> \/ (faults' \in 1..MaxFaults /\ blind' = TRUE)
      BY <1>1 DEF Continues
    <2>2. faults' \in 0..MaxFaults
      BY <2>1, BoundsAssumption DEF CommandOK, TypeInv
    <2>3. blind' \in BOOLEAN
      BY <2>1 DEF CommandOK, TypeInv
    <2> QED
      BY <1>1, <2>2, <2>3 DEF CommandOK, TypeInv
  <1>5. On \in Products \/ Op \in ServiceOps \cup OnBase
    BY <1>2 DEF Place
  <1>6. alive' \in BOOLEAN /\ act' \subseteq Products /\ (~alive' => act' = {})
    <2>1. Op \in {"activate", "deactivate"} => On \in Products
      BY <1>2, PlaceIs
    <2>2. Op \in {"activate", "deactivate", "upgrade"} => alive
      BY <1>1 DEF Callable
    <2> QED
      BY <1>1, <2>1, <2>2, TreeAssumption DEF Serves, TypeInv, DataOK
  <1>7. registered' \in BOOLEAN
    BY <1>1 DEF Changes, TypeInv, DataOK
  <1>8. services' \subseteq Services /\ Foreign \subseteq services'
    BY <1>1, <1>2, ServicesAssumption DEF Changes, TypeInv, DataOK, Services
  <1>9. svcCreds' \in [Services -> {"none", "current", "stale", "blank"}]
    <2>1. On \in Services
      BY <1>2 DEF Services
    <2>2. svcCreds \in [Services -> {"none", "current", "stale", "blank"}]
      BY DEF TypeInv, DataOK
    <2>3. [s \in Services |-> IF svcCreds[s] = "current" THEN "stale" ELSE svcCreds[s]]
            \in [Services -> {"none", "current", "stale", "blank"}]
      BY <2>2
    <2> QED
      BY <1>1, <2>1, <2>2, <2>3 DEF Changes
  <1>10. installed' \subseteq Products /\ Base \in installed'
    <2>1. /\ Op = "install" => On \in Products
          /\ Op = "uninstall" => On # Base
      BY <1>2, PlaceIs
    <2> QED
      BY <1>1, <2>1 DEF Changes, TypeInv, DataOK
  <1> QED
    BY <1>1, <1>3, <1>4, <1>6, <1>7, <1>8, <1>9, <1>10 DEF DataOK, TypeInv

LEMMA NextType ==
  ASSUME TypeInv, [Next]_vars
  PROVE  TypeInv'
  <1>1. ASSUME Rests PROVE DataOK' /\ CommandOK' /\ TodoOK'
    BY <1>1 DEF Rests, Known, server, setup, TypeInv, DataOK, CommandOK, TodoOK
  <1>2. ASSUME Stops PROVE DataOK' /\ CommandOK' /\ TodoOK'
    <2>1. todo' \in Seq(Steps(CmdOps(cmd)))' /\ TodoOK'
      BY <1>2 DEF Stops, TodoOK
    <2>2. CommandOK'
      BY <1>2, BoundsAssumption DEF Stops, TypeInv, CommandOK
    <2> QED
      BY <1>2, <2>1, <2>2 DEF Stops, TypeInv, DataOK
  <1>3. ASSUME NEW c \in Commands, NEW p \in Products, NEW sk \in BOOLEAN, Start(c, p, sk)
        PROVE  DataOK' /\ CommandOK' /\ TodoOK'
    <2>1. /\ UNCHANGED <<server, Known, faults>> /\ cmd' = c /\ skip' = sk /\ blind' = FALSE
          /\ c \in {"registerProduct", "deregisterProduct"} \/ p = Base
          /\ \/ todo' = <<>> /\ result' = "failed"
             \/ todo' = Begin(c, p, sk) /\ result' = "running" /\ (c = "deregisterProduct" => p # Base)
      BY <1>3, StartIs
    <2>2. todo' \in Seq(Steps(CmdOps(c)))
      <3>1. ASSUME todo' = <<>> PROVE todo' \in Seq(Steps(CmdOps(c)))
        BY <3>1
      <3>2. ASSUME todo' = Begin(c, p, sk), c = "deregisterProduct" => p # Base
            PROVE  todo' \in Seq(Steps(CmdOps(c)))
        BY <2>1, <3>2, BeginOK
      <3> QED
        BY <2>1, <3>1, <3>2
    <2> QED
      BY <2>1, <2>2 DEF Known, server, setup, TypeInv, DataOK, CommandOK, TodoOK
  <1> QED
    BY <1>1, <1>2, <1>3, Moves, GoesType DEF TypeInv

\* Every variable keeps its type, and the steps a command is to do are its own, each on
\* a product, or a service of the server, that it applies to (Register, Deregister).
THEOREM TypeCorrect == Spec => []TypeOK
  <1>1. Spec => []TypeInv
    BY InitType, NextType, PTL DEF Spec
  <1> QED
    BY <1>1, TypeInvImplies, PTL

-----------------------------------------------------------------------------
(* The list of steps keeps its shape.                                       *)
LEMMA GoesShape ==
  ASSUME TypeInv, Shape(todo), Goes
  PROVE  Shape(todo')
  <1>1. /\ todo # <<>> /\ Continues /\ skip \in BOOLEAN /\ installed \subseteq Products
        /\ todo \in Seq(Steps(CmdOps(cmd))) /\ Tail(todo) \in Seq(Steps(CmdOps(cmd)))
        /\ ToSet(todo) = {Head(todo)} \cup ToSet(Tail(todo))
    BY HeadStep DEF Goes, TypeInv, CommandOK, DataOK
  <1>2. Shape(Tail(todo))
    BY <1>1, TailShape
  <1>3. \A x \in ToSet(Tail(todo)) : x.op \notin First
    BY <1>1, FirstOnlyTail DEF Shape
  <1>4. /\ Op \notin {"removeservice", "addservice"} => Halves(Tail(todo))
        /\ Op \notin Secondary => Halves(todo)
    BY <1>1, HalfDoneTail DEF Shape, Op
  <1>5. CASE todo' = Tail(todo)
    BY <1>2, <1>5
  <1>6. CASE Op = "tree" /\ todo' = registerProductTree(On) \o Tail(todo)
    <2>1. registerProductTree(On) \in Seq(Steps(TreeOps)) /\ Halves(registerProductTree(On))
      BY <1>1, <1>6, AddedOK, registerProductTreeOK
    <2>2. TreeOps \cap (EndOps \cup First) = {}
      BY DEF TreeOps, EnableOps, ServiceOps, EndOps, First
    <2>3. EndsOK(Tail(todo)) /\ Halves(Tail(todo))
      BY <1>2, <1>4, <1>6 DEF Shape
    <2> QED
      BY <1>1, <1>3, <1>6, <2>1, <2>2, <2>3, JoinShape
  <1>7. CASE Op = "dependencies" /\ todo' = deregisterDependencies(installed) \o Tail(todo)
    <2>1. /\ deregisterDependencies(installed) \in Seq(Steps(DisableOps))
          /\ Halves(deregisterDependencies(installed))
      BY <1>1, deregisterDependenciesOK
    <2>2. DisableOps \cap (EndOps \cup First) = {}
      BY DEF DisableOps, RemoveOps, EndOps, First
    <2>3. EndsOK(Tail(todo)) /\ Halves(Tail(todo))
      BY <1>2, <1>4, <1>7 DEF Shape
    <2> QED
      BY <1>1, <1>3, <1>7, <2>1, <2>2, <2>3, JoinShape
  <1>8. CASE Op = "removeServices" /\ \E s \in Recognised : todo' = RemoveService(s) \o todo
    <2>1. PICK s \in Own : todo' = RemoveService(s) \o todo
      BY <1>8 DEF Recognised
    <2>2. RemoveService(s) \in Seq(Steps(RemoveOps)) /\ Halves(RemoveService(s))
      BY RemoveServiceOK
    <2>3. RemoveOps \cap (EndOps \cup First) = {}
      BY DEF RemoveOps, EndOps, First
    <2>4. EndsOK(todo) /\ Halves(todo)
      BY <1>4, <1>8 DEF Shape, Secondary
    <2>5. \A x \in ToSet(todo) : x.op \notin First
      BY <1>1, <1>3, <1>8 DEF Op, First
    <2> QED
      BY <1>1, <2>1, <2>2, <2>3, <2>4, <2>5, JoinShape
  <1> QED
    BY <1>1, <1>5, <1>6, <1>7, <1>8 DEF Continues

LEMMA NextShape ==
  ASSUME TypeInv, Shape(todo), [Next]_vars
  PROVE  Shape(todo')
  <1>1. ASSUME Rests PROVE Shape(todo')
    BY <1>1 DEF Rests
  <1>2. ASSUME Stops PROVE Shape(todo')
    BY <1>2, NothingShape DEF Stops
  <1>3. ASSUME NEW c \in Commands, NEW p \in Products, NEW sk \in BOOLEAN, Start(c, p, sk)
        PROVE  Shape(todo')
    <2>1. /\ c \in {"registerProduct", "deregisterProduct"} \/ p = Base
          /\ \/ todo' = <<>>
             \/ todo' = Begin(c, p, sk) /\ (c = "deregisterProduct" => p # Base)
      BY <1>3, StartIs
    <2>2. ASSUME todo' = Begin(c, p, sk), c = "deregisterProduct" => p # Base PROVE Shape(todo')
      BY <2>1, <2>2, BeginOK
    <2> QED
      BY <2>1, <2>2, NothingShape
  <1> QED
    BY <1>1, <1>2, <1>3, Moves, GoesShape

-----------------------------------------------------------------------------
(* What a deregistration has done, and what it is still to do.              *)
Has(op, p) == St(op, p) \in ToSet(todo)
CleanInv ==
    result \in {"ok", "running"} /\ cmd = "deregister" =>
        /\ Has("removeCreds", Base) \/ ~registered
        /\ Has("deleteSystem", Base) \/ ~alive
        /\ Has("removeServices", Base) \/ Recognised = {}
        /\ \/ skip \/ blind \/ Has("dependencies", Base)
           \/ \A p \in installed \ {Base} : Has("uninstall", p)

LEMMA CleanImplies ==
  ASSUME TypeInv, CleanInv
  PROVE  DeregisterClean
  <1> SUFFICES ASSUME result = "ok", cmd = "deregister" PROVE DeregisterClean
    BY DEF DeregisterClean
  <1>1. \A op, p : ~Has(op, p)
    BY ToSetOfOne DEF TypeInv, TodoOK, Has
  <1>2. ~registered /\ ~alive /\ Recognised = {} /\ (~skip /\ ~blind => installed \ {Base} = {})
    BY <1>1 DEF CleanInv
  <1>3. Foreign \subseteq services /\ (sameUrl => services = Foreign)
    BY <1>2 DEF TypeInv, DataOK, Services, Recognised
  <1>4. ~skip /\ ~blind => installed = {Base}
    BY <1>2 DEF TypeInv, DataOK
  <1> QED
    BY <1>2, <1>3, <1>4 DEF DeregisterClean

\* What is to come is what is to come after the first step, and what that step adds.
LEMMA ToCome ==
  ASSUME TypeInv, Goes
  PROVE  /\ \A x \in ToSet(todo) : x = Head(todo) \/ x \in ToSet(Tail(todo))
         /\ ToSet(Tail(todo)) \subseteq ToSet(todo')
         /\ Op = "removeServices" /\ Recognised # {} => ToSet(todo) \subseteq ToSet(todo')
         /\ Op = "tree" => ToSet(registerProductTree(On)) \subseteq ToSet(todo')
         /\ Op = "dependencies" /\ ~blind' => ToSet(deregisterDependencies(installed)) \subseteq ToSet(todo')
  <1>1. /\ todo # <<>> /\ Continues
        /\ todo \in Seq(Steps(CmdOps(cmd))) /\ Tail(todo) \in Seq(Steps(CmdOps(cmd)))
        /\ ToSet(todo) = {Head(todo)} \cup ToSet(Tail(todo))
    BY HeadStep DEF Goes
  <1>2. \A x \in ToSet(todo) : x = Head(todo) \/ x \in ToSet(Tail(todo))
    BY <1>1
  <1>3. CASE Op = "tree" /\ todo' = registerProductTree(On) \o Tail(todo)
    <2>1. registerProductTree(On) \in Seq(Steps(CmdOps(cmd)))
      BY <1>1, <1>3, AddedOK
    <2>2. ToSet(todo') = ToSet(registerProductTree(On)) \cup ToSet(Tail(todo))
      BY <1>1, <1>3, <2>1, ToSetOfJoin
    <2> QED
      BY <1>2, <1>3, <2>2
  <1>4. CASE Op = "dependencies" /\ todo' = deregisterDependencies(installed) \o Tail(todo)
    <2>1. deregisterDependencies(installed) \in Seq(Steps(CmdOps(cmd)))
      BY <1>1, <1>4, AddedOK
    <2>2. ToSet(todo') = ToSet(deregisterDependencies(installed)) \cup ToSet(Tail(todo))
      BY <1>1, <1>4, <2>1, ToSetOfJoin
    <2> QED
      BY <1>2, <1>4, <2>2
  <1>5. CASE Op = "removeServices" /\ \E s \in Recognised : todo' = RemoveService(s) \o todo
    <2>1. PICK s \in Own : todo' = RemoveService(s) \o todo
      BY <1>5 DEF Recognised
    <2>2. RemoveService(s) \in Seq(Steps(CmdOps(cmd)))
      BY <1>1, <1>5, AddedOK
    <2>3. ToSet(todo') = ToSet(RemoveService(s)) \cup ToSet(todo)
      BY <1>1, <2>1, <2>2, ToSetOfJoin
    <2> QED
      BY <1>1, <1>5, <2>3
  <1>6. CASE Op = "removeServices" /\ Recognised = {} /\ todo' = Tail(todo)
    BY <1>2, <1>6
  <1>7. CASE /\ Op \in {"dependencies", "writeServiceCreds"} /\ todo' = Tail(todo)
             /\ blind' = TRUE
    BY <1>2, <1>7
  <1>8. CASE Op \notin {"tree", "dependencies", "removeServices"} /\ todo' = Tail(todo)
    BY <1>2, <1>8
  <1> QED
    BY <1>1, <1>3, <1>4, <1>5, <1>6, <1>7, <1>8 DEF Continues

LEMMA GoesClean ==
  ASSUME TypeInv, CleanInv, Goes
  PROVE  CleanInv'
  <1> SUFFICES ASSUME cmd = "deregister" PROVE CleanInv'
    BY DEF Goes, CleanInv
  <1>1. /\ todo # <<>> /\ UNCHANGED <<cmd, skip, result>> /\ Serves /\ Changes /\ Continues
        /\ Op \in SystemOps /\ On \in Place(Op) /\ result = "running" /\ Head(todo) = St(Op, On)
    BY HeadStep DEF Goes, Op, CmdOps
  <1>2. /\ Op \notin {"announce", "addservice", "writeServiceCreds", "install", "activate", "tree"}
        /\ Op \in OnBase => On = Base
    BY <1>1, PlaceIs DEF SystemOps, DisableOps, CleanupOps, RemoveOps
  <1>3. /\ Has("removeCreds", Base) \/ ~registered
        /\ Has("deleteSystem", Base) \/ ~alive
        /\ Has("removeServices", Base) \/ Recognised = {}
        /\ \/ skip \/ blind \/ Has("dependencies", Base)
           \/ \A p \in installed \ {Base} : Has("uninstall", p)
    BY <1>1 DEF CleanInv
  <1>4. \A op, p : Has(op, p) => (Op = op /\ On = p) \/ Has(op, p)'
    <2> SUFFICES ASSUME NEW op, NEW p, Has(op, p), ~Has(op, p)' PROVE Op = op /\ On = p
      OBVIOUS
    <2>1. St(op, p) = Head(todo)
      BY ToCome DEF Has
    <2> QED
      BY <1>1, <2>1, SameStep
  <1>5. Has("removeCreds", Base)' \/ ~registered'
    <2>1. CASE Op = "removeCreds"
      BY <1>1, <2>1 DEF Changes
    <2>2. CASE Op # "removeCreds"
      BY <1>1, <1>2, <1>3, <1>4, <2>2 DEF Changes
    <2> QED
      BY <2>1, <2>2
  <1>6. Has("deleteSystem", Base)' \/ ~alive'
    <2>1. CASE Op = "deleteSystem"
      BY <1>1, <2>1 DEF Serves
    <2>2. CASE Op # "deleteSystem"
      BY <1>1, <1>2, <1>3, <1>4, <2>2 DEF Serves
    <2> QED
      BY <2>1, <2>2
  <1>7. Has("removeServices", Base)' \/ Recognised' = {}
    <2>1. Recognised' \subseteq Recognised
      BY <1>1, <1>2 DEF Changes, Goes, Recognised
    <2>2. CASE Op = "removeServices"
      BY <1>1, <1>2, <1>3, <2>1, <2>2, ToCome DEF Has
    <2>3. CASE Op # "removeServices"
      BY <1>3, <1>4, <2>1, <2>3
    <2> QED
      BY <2>2, <2>3
  <1>8. \/ skip' \/ blind' \/ Has("dependencies", Base)'
        \/ \A p \in installed' \ {Base} : Has("uninstall", p)'
    <2>1. blind => blind'
      BY <1>1 DEF Continues
    <2>2. ASSUME Op = "dependencies", ~skip, ~blind'
          PROVE  \A p \in installed' \ {Base} : Has("uninstall", p)'
      <3>1. ToSet(deregisterDependencies(installed)) \subseteq ToSet(todo')
        BY <2>2, ToCome
      <3>2. installed' = installed
        BY <1>1, <2>2 DEF Changes
      <3>3. \A p \in installed \ {Base} : St("uninstall", p) \in ToSet(deregisterDependencies(installed))
        BY <2>2, deregisterDependenciesOK DEF TypeInv, DataOK, CommandOK
      <3> QED
        BY <3>1, <3>2, <3>3 DEF Has
    <2>3. ASSUME \A p \in installed \ {Base} : Has("uninstall", p)
          PROVE  \A p \in installed' \ {Base} : Has("uninstall", p)'
      <3> SUFFICES ASSUME NEW p \in installed', p # Base PROVE Has("uninstall", p)'
        OBVIOUS
      <3>1. p \in installed /\ ~(Op = "uninstall" /\ On = p)
        BY <1>1, <1>2 DEF Changes
      <3> QED
        BY <1>4, <2>3, <3>1
    <2>4. CASE Op = "dependencies"
      BY <1>1, <2>2, <2>4
    <2>5. CASE Op # "dependencies"
      <3>1. Has("dependencies", Base) => Has("dependencies", Base)'
        BY <1>4, <2>5
      <3> QED
        BY <1>1, <1>3, <2>1, <2>3, <3>1
    <2> QED
      BY <2>4, <2>5
  <1> QED
    BY <1>5, <1>6, <1>7, <1>8 DEF CleanInv

LEMMA NextClean ==
  ASSUME TypeInv, CleanInv, [Next]_vars
  PROVE  CleanInv'
  <1>1. ASSUME Rests PROVE CleanInv'
    BY <1>1 DEF Rests, Known, server, setup, CleanInv, Has, Recognised
  <1>2. ASSUME Stops PROVE CleanInv'
    BY <1>2 DEF Stops, CleanInv
  <1>3. ASSUME NEW c \in Commands, NEW p \in Products, NEW sk \in BOOLEAN, Start(c, p, sk)
        PROVE  CleanInv'
    <2>1. ASSUME c = "deregister", todo' = Begin(c, p, sk) PROVE CleanInv'
      <3>1. todo' = Begin("deregister", Base, sk)
        BY <1>3, <2>1, StartIs
      <3>2. {St("dependencies", Base), St("deleteSystem", Base), St("removeCreds", Base),
             St("removeServices", Base)} \subseteq ToSet(todo')
        BY <3>1, BeginDeregisterOK
      <3> QED
        BY <3>2 DEF CleanInv, Has
    <2>2. cmd' = c /\ (result' = "failed" \/ todo' = Begin(c, p, sk))
      BY <1>3, StartIs
    <2>3. ASSUME c # "deregister" \/ result' = "failed" PROVE CleanInv'
      BY <2>2, <2>3 DEF CleanInv
    <2> QED
      BY <2>1, <2>2, <2>3
  <1> QED
    BY <1>1, <1>2, <1>3, Moves, GoesClean

\* Deregister leaves no system behind, no service whose URL has the server's address
\* and, where it could and was to remove them, no extension, in whatever order the steps
\* before came; and it leaves the services of other servers alone.
THEOREM DeregisteredClean == Spec => []DeregisterClean
  <1>1. Spec => []TypeInv
    BY InitType, NextType, PTL DEF Spec
  <1>2. Init => CleanInv
    BY DEF Init, CleanInv
  <1>3. Spec => []CleanInv
    BY <1>1, <1>2, NextClean, PTL DEF Spec
  <1> QED
    BY <1>1, <1>3, CleanImplies, PTL

-----------------------------------------------------------------------------
(* The services of the activated products.                                  *)
InUse == {ServiceOf(p) : p \in act}
UseInv ==
    cmd \in {"deregister", "deregisterProduct"} =>
        /\ Freed(InUse, todo)
        /\ alive => Behind(St("removeServices", Base), {St("deleteSystem", Base)}, todo)
        /\ todo # <<>> /\ Op = "upgrade" => Freed(Own, todo)

LEMMA InUseOwn ==
  ASSUME act \subseteq Products
  PROVE  InUse \subseteq Own
  BY ServiceOfOwn DEF InUse

\* A step done, no other step announces or upgrades.
LEMMA NoFirst ==
  ASSUME TypeInv, Shape(todo), Goes
  PROVE  \A x \in ToSet(todo') : x.op \notin First
  <1>1. /\ todo # <<>> /\ Continues /\ skip \in BOOLEAN /\ installed \subseteq Products
        /\ todo \in Seq(Steps(CmdOps(cmd))) /\ Tail(todo) \in Seq(Steps(CmdOps(cmd)))
        /\ ToSet(todo) = {Head(todo)} \cup ToSet(Tail(todo))
    BY HeadStep DEF Goes, TypeInv, CommandOK, DataOK
  <1>2. \A x \in ToSet(Tail(todo)) : x.op \notin First
    BY <1>1, FirstOnlyTail DEF Shape
  <1>3. \A O : O \cap First = {} => \A s \in Seq(Steps(O)) : \A x \in ToSet(s) : x.op \notin First
    <2> SUFFICES ASSUME NEW O, O \cap First = {}, NEW s \in Seq(Steps(O)), NEW x \in ToSet(s)
                 PROVE  x.op \notin First
      OBVIOUS
    <2>1. x \in Steps(O)
      BY ElementsIn
    <2> QED
      BY <2>1, StepFields
  <1>4. TreeOps \cap First = {} /\ DisableOps \cap First = {} /\ RemoveOps \cap First = {}
    BY DEF TreeOps, EnableOps, ServiceOps, DisableOps, RemoveOps, First
  <1>5. CASE todo' = Tail(todo)
    BY <1>2, <1>5
  <1>6. CASE Op = "tree" /\ todo' = registerProductTree(On) \o Tail(todo)
    <2>1. /\ registerProductTree(On) \in Seq(Steps(TreeOps))
          /\ registerProductTree(On) \in Seq(Steps(CmdOps(cmd)))
      BY <1>1, <1>6, AddedOK, registerProductTreeOK
    <2>2. ToSet(todo') = ToSet(registerProductTree(On)) \cup ToSet(Tail(todo))
      BY <1>1, <1>6, <2>1, ToSetOfJoin
    <2> QED
      BY <1>2, <1>3, <1>4, <2>1, <2>2
  <1>7. CASE Op = "dependencies" /\ todo' = deregisterDependencies(installed) \o Tail(todo)
    <2>1. /\ deregisterDependencies(installed) \in Seq(Steps(DisableOps))
          /\ deregisterDependencies(installed) \in Seq(Steps(CmdOps(cmd)))
      BY <1>1, <1>7, AddedOK, deregisterDependenciesOK
    <2>2. ToSet(todo') = ToSet(deregisterDependencies(installed)) \cup ToSet(Tail(todo))
      BY <1>1, <1>7, <2>1, ToSetOfJoin
    <2> QED
      BY <1>2, <1>3, <1>4, <2>1, <2>2
  <1>8. CASE Op = "removeServices" /\ \E s \in Recognised : todo' = RemoveService(s) \o todo
    <2>1. PICK s \in Own : todo' = RemoveService(s) \o todo
      BY <1>8 DEF Recognised
    <2>2. RemoveService(s) \in Seq(Steps(RemoveOps)) /\ RemoveService(s) \in Seq(Steps(CmdOps(cmd)))
      BY <1>1, <1>8, AddedOK, RemoveServiceOK
    <2>3. ToSet(todo') = ToSet(RemoveService(s)) \cup {Head(todo)} \cup ToSet(Tail(todo))
      BY <1>1, <2>1, <2>2, ToSetOfJoin
    <2>4. Head(todo).op \notin First
      BY <1>8 DEF Op, First
    <2> QED
      BY <1>2, <1>3, <1>4, <2>2, <2>3, <2>4
  <1> QED
    BY <1>1, <1>5, <1>6, <1>7, <1>8 DEF Continues

LEMMA FreedLess ==
  ASSUME NEW U, NEW V, V \subseteq U, NEW t, Freed(U, t)
  PROVE  Freed(V, t)
  BY DEF Freed

\* The first step frees no service that stays in use.
LEMMA StillUsed ==
  ASSUME TypeInv, Goes, Op \notin {"upgrade", "deleteSystem"}, cmd \in {"deregister", "deregisterProduct"}
  PROVE  InUse' \subseteq InUse /\ \A z \in InUse' : Head(todo) \notin Frees(z)
  <1>1. /\ Op \in SystemOps /\ On \in Place(Op) /\ Head(todo) = St(Op, On) /\ smt' = smt /\ Serves
    BY HeadStep DEF Goes, Op, CmdOps, SystemOps
  <1>2. Op # "activate" /\ Op # "announce"
    BY <1>1 DEF SystemOps, DisableOps, CleanupOps, RemoveOps
  <1>3. act' \subseteq act /\ (Op = "deactivate" => On \notin act')
    BY <1>1, <1>2 DEF Serves
  <1>4. InUse' = {ServiceOf(p) : p \in act'}
    BY <1>1 DEF InUse, ServiceOf
  <1>5. InUse' \subseteq InUse
    BY <1>3, <1>4 DEF InUse
  <1>6. ASSUME NEW z \in InUse', Head(todo) \in Frees(z) PROVE FALSE
    <2>1. Op = "deactivate" /\ On = z
      BY <1>1, <1>6, SameStep DEF Frees
    <2>2. PICK p \in act' : z = ServiceOf(p)
      BY <1>4
    <2>3. z \in Products
      BY <1>1, <2>1, PlaceIs
    <2>4. z = p
      BY <2>2, <2>3, ServicesAssumption DEF ServiceOf
    <2> QED
      BY <1>3, <2>1, <2>4
  <1> QED
    BY <1>5, <1>6

LEMMA GoesUse ==
  ASSUME TypeInv, Shape(todo), UseInv, Goes
  PROVE  UseInv'
  <1> SUFFICES ASSUME cmd \in {"deregister", "deregisterProduct"} PROVE UseInv'
    BY DEF Goes, UseInv
  <1> DEFINE x == St("removeServices", Base)
             Y == {St("deleteSystem", Base)}
  <1>1. /\ todo # <<>> /\ UNCHANGED <<smt, cmd, skip>> /\ Serves /\ Continues /\ skip \in BOOLEAN
        /\ Op \in SystemOps /\ On \in Place(Op) /\ Head(todo) = St(Op, On)
        /\ todo \in Seq(Steps(CmdOps(cmd))) /\ Tail(todo) \in Seq(Steps(CmdOps(cmd)))
        /\ act \subseteq Products /\ installed \subseteq Products /\ (~alive => act = {})
    BY HeadStep DEF Goes, Op, CmdOps, SystemOps, TypeInv, DataOK, CommandOK
  <1>2. Op # "activate" /\ Op # "announce" /\ Op # "tree"
    BY <1>1 DEF SystemOps, DisableOps, CleanupOps, RemoveOps
  <1>3. Freed(InUse, todo) /\ (alive => Behind(x, Y, todo)) /\ (Op = "upgrade" => Freed(Own, todo))
    BY <1>1 DEF UseInv
  <1>4. ~(todo' # <<>> /\ Op' = "upgrade")
    <2>1. \A y \in ToSet(todo') : y.op # "upgrade"
      BY NoFirst DEF First
    <2>2. todo' \in Seq(Steps(CmdOps(cmd)))
      BY <1>1, GoesType DEF TodoOK
    <2>3. todo' # <<>> => Head(todo') \in ToSet(todo')
      BY <2>2, TailIn
    <2> QED
      BY <2>1, <2>3 DEF Op
  <1>5. CASE Op = "deleteSystem"
    <2>1. act' = {} /\ alive' = FALSE /\ InUse' = {}
      BY <1>1, <1>5 DEF Serves, InUse
    <2>2. Freed({}, todo')
      BY DEF Freed
    <2> QED
      BY <1>4, <2>1, <2>2 DEF UseInv
  <1>6. CASE Op = "upgrade"
    <2>1. todo' = Tail(todo) /\ alive' = alive /\ act' \subseteq Products
      BY <1>1, <1>6, TreeAssumption DEF Continues, Serves
    <2>2. ASSUME NEW z \in Own PROVE Behind(Removal(z), Frees(z), Tail(todo))
      <3>1. Behind(Removal(z), Frees(z), todo)
        BY <1>3, <1>6 DEF Freed
      <3>2. Head(todo) \notin Frees(z)
        BY <1>1, <1>6, SameStep DEF Frees
      <3> QED
        BY <1>1, <3>1, <3>2, BehindTail
    <2>3. Freed(Own, todo')
      BY <2>1, <2>2 DEF Freed
    <2>4. InUse' \subseteq Own
      <3>1. InUse' = {ServiceOf(p) : p \in act'}
        BY <1>1 DEF InUse, ServiceOf
      <3> QED
        BY <2>1, <3>1, ServiceOfOwn
    <2>5. Freed(InUse', todo')
      BY <2>3, <2>4, FreedLess
    <2>6. ASSUME alive' PROVE Behind(x, Y, todo')
      <3>1. Behind(x, Y, todo) /\ Head(todo) \notin Y
        BY <1>1, <1>3, <1>6, <2>1, <2>6, SameStep
      <3> HIDE DEF x, Y
      <3> QED
        BY <1>1, <2>1, <3>1, BehindTail
    <2> QED
      BY <1>4, <2>5, <2>6 DEF UseInv
  <1>7. CASE Op \notin {"upgrade", "deleteSystem"}
    <2>1. InUse' \subseteq InUse /\ (\A z \in InUse' : Head(todo) \notin Frees(z)) /\ alive' = alive
      BY <1>1, <1>2, <1>7, StillUsed DEF Serves
    <2>2. Freed(InUse', Tail(todo))
      <3>1. ASSUME NEW z \in InUse' PROVE Behind(Removal(z), Frees(z), Tail(todo))
        <4>1. Behind(Removal(z), Frees(z), todo)
          BY <1>3, <2>1 DEF Freed
        <4> QED
          BY <1>1, <2>1, <4>1, BehindTail
      <3> QED
        BY <3>1 DEF Freed
    <2>3. ASSUME alive PROVE Behind(x, Y, Tail(todo)) /\ Op # "removeServices"
      <3>1. Behind(x, Y, todo) /\ Head(todo) \notin Y
        BY <1>1, <1>3, <1>7, <2>3, SameStep
      <3>2. Op = "removeServices" => Head(todo) = x
        BY <1>1, PlaceIs DEF OnBase
      <3> HIDE DEF x, Y
      <3> QED
        BY <1>1, <3>1, <3>2, BehindTail
    <2>4. CASE todo' = Tail(todo)
      BY <1>4, <2>1, <2>2, <2>3, <2>4 DEF UseInv
    <2>5. CASE Op = "dependencies" /\ todo' = deregisterDependencies(installed) \o Tail(todo)
      <3> DEFINE s == deregisterDependencies(installed)
      <3>1. s \in Seq(Steps(DisableOps)) /\ Freed(Own, s) /\ s \in Seq(Steps(CmdOps(cmd)))
        BY <1>1, <2>5, AddedOK, deregisterDependenciesOK
      <3>2. "removeServices" \notin DisableOps
        BY DEF DisableOps, RemoveOps
      <3> HIDE DEF s
      <3>3. x \notin ToSet(s)
        BY <3>1, <3>2, NotIn
      <3>4. Behind(x, Y, s)
        BY <3>1, <3>3, BehindNone
      <3>5. InUse' \subseteq Own
        BY <1>1, <2>1, InUseOwn
      <3>6. Freed(InUse', s)
        BY <3>1, <3>5, FreedLess
      <3>7. Freed(InUse', s \o Tail(todo))
        BY <1>1, <2>2, <3>1, <3>6, FreedJoin
      <3>8. ASSUME alive PROVE Behind(x, Y, s \o Tail(todo))
        <4>1. Behind(x, Y, Tail(todo))
          BY <2>3, <3>8
        <4> HIDE DEF x, Y
        <4> QED
          BY <1>1, <3>1, <3>4, <4>1, BehindJoin
      <3>9. todo' = s \o Tail(todo)
        BY <2>5 DEF s
      <3> QED
        BY <1>4, <2>1, <3>7, <3>8, <3>9 DEF UseInv
    <2>6. CASE Op = "removeServices"
      <3>1. ~alive /\ InUse' = {}
        BY <1>1, <2>1, <2>3, <2>6 DEF InUse
      <3>2. Freed({}, todo')
        BY DEF Freed
      <3> QED
        BY <1>4, <2>1, <3>1, <3>2 DEF UseInv
    <2> QED
      BY <1>1, <1>2, <2>4, <2>5, <2>6 DEF Continues
  <1> QED
    BY <1>5, <1>6, <1>7

LEMMA NothingBehind ==
  \A x, Y : Behind(x, Y, <<>>)
  <1>1. <<>> \in Seq({}) /\ ToSet(<<>>) = {}
    BY ToSetOfOne
  <1> QED
    BY <1>1, BehindNone

LEMMA NextUse ==
  ASSUME TypeInv, Shape(todo), UseInv, [Next]_vars
  PROVE  UseInv'
  <1>1. ASSUME Rests PROVE UseInv'
    BY <1>1 DEF Rests, Known, server, setup, UseInv, InUse, ServiceOf, Op
  <1>2. ASSUME todo' = <<>> PROVE UseInv'
    <2>1. Freed(InUse', <<>>)
      BY NothingServices
    <2> QED
      BY <1>2, <2>1, NothingBehind DEF UseInv
  <1>3. ASSUME NEW c \in Commands, NEW p \in Products, NEW sk \in BOOLEAN, Start(c, p, sk),
               todo' # <<>>
        PROVE  UseInv'
    <2>1. /\ c \in {"registerProduct", "deregisterProduct"} \/ p = Base
          /\ todo' = Begin(c, p, sk) /\ (c = "deregisterProduct" => p # Base)
          /\ UNCHANGED server /\ cmd' = c
      BY <1>3, StartIs
    <2>2. InUse' \subseteq Own
      <3>1. InUse' = InUse /\ act \subseteq Products
        BY <2>1 DEF server, setup, InUse, ServiceOf, TypeInv, DataOK
      <3> QED
        BY <3>1, InUseOwn
    <2>3. CASE c = "deregister"
      <3>1. /\ Freed(Own, todo')
            /\ Behind(St("removeServices", Base), {St("deleteSystem", Base)}, todo')
        BY <2>1, <2>3, BeginDeregisterOK
      <3> QED
        BY <2>2, <3>1, FreedLess DEF UseInv
    <2>4. CASE c = "deregisterProduct"
      <3>1. todo' = deregisterProduct(p, sk) /\ p # Base
        BY <2>1, <2>4 DEF Begin
      <3>2. Freed(Own, todo') /\ todo' \in Seq(Steps(DisableOps))
        BY <3>1, deregisterProductOK
      <3>3. "removeServices" \notin DisableOps
        BY DEF DisableOps, RemoveOps
      <3>4. Behind(St("removeServices", Base), {St("deleteSystem", Base)}, todo')
        BY <3>2, <3>3, NotIn, BehindNone
      <3> QED
        BY <2>2, <3>2, <3>4, FreedLess DEF UseInv
    <2> QED
      BY <2>1, <2>3, <2>4 DEF UseInv
  <1>4. ASSUME Stops PROVE UseInv'
    BY <1>2, <1>4 DEF Stops
  <1> QED
    BY <1>1, <1>2, <1>3, <1>4, Moves, GoesUse

LEMMA UseImplies ==
  ASSUME TypeInv, UseInv, [Next]_vars
  PROVE  [~LosesServiceInUse]_vars
  <1> SUFFICES ASSUME LosesServiceInUse PROVE FALSE
    OBVIOUS
  <1>1. cmd \in {"deregister", "deregisterProduct"} /\ \E p \in act' : ServiceOf(p) \in services \ services'
    BY DEF LosesServiceInUse
  <1>2. services' # services
    BY <1>1
  <1>3. Goes
    BY <1>2, Moves, StartIs DEF Rests, Stops, Known
  <1>4. /\ todo # <<>> /\ Op = "removeservice" /\ services' = services \ {On}
        /\ Head(todo) = St(Op, On) /\ todo \in Seq(Steps(CmdOps(cmd)))
    BY <1>1, <1>3, HeadStep DEF Goes, Changes, Op
  <1>5. act' = act
    BY <1>3, <1>4 DEF Goes, Serves
  <1>6. On \in InUse
    BY <1>1, <1>4, <1>5 DEF InUse
  <1>7. Behind(Removal(On), Frees(On), todo)
    BY <1>1, <1>6 DEF UseInv, Freed
  <1>8. Head(todo) # Removal(On)
    BY <1>4, <1>7, BehindTail
  <1> QED
    BY <1>4, <1>8 DEF Removal

\* Deregistering never removes the service of a product that stays activated: its
\* removal comes only behind the deactivation of the product, or of the system.
THEOREM ServicesStay == Spec => NoServiceLostInUse
  <1>1. Spec => []TypeInv
    BY InitType, NextType, PTL DEF Spec
  <1>2. Init => Shape(todo) /\ UseInv
    BY NothingShape DEF Init, UseInv
  <1>3. TypeInv /\ Shape(todo) /\ UseInv /\ [Next]_vars => (Shape(todo) /\ UseInv)'
    BY NextShape, NextUse
  <1>4. Spec => [](Shape(todo) /\ UseInv)
    BY <1>1, <1>2, <1>3, PTL DEF Spec
  <1> QED
    BY <1>1, <1>4, UseImplies, PTL DEF Spec, NoServiceLostInUse

-----------------------------------------------------------------------------
(* What a registration has done for the products it reached, or is to do:   *)
(* the products it has yet to descend from are the only ones whose wanted   *)
(* extensions it may not have reached.                                      *)
Usable == IF blind THEN {"current", "blank"} ELSE {"current"}
Pending(q) ==
    /\ q \in act \/ Has("activate", q)
    /\ q \in installed \/ Has("install", q)
    /\ ServiceOf(q) \in services \/ Adding(ServiceOf(q)) \in ToSet(todo)
    /\ svcCreds[ServiceOf(q)] \in Usable \/ Added(ServiceOf(q)) \in ToSet(todo)
WantedOf(q) == {e \in Children(q) : Wanted(e)}
Reaches(X) ==
    /\ Base \in X
    /\ \A q \in X : Pending(q) /\ (Has("tree", q) \/ WantedOf(q) \subseteq X)
Announces == todo # <<>> /\ Op = "announce"
CompleteInv ==
    result \in {"ok", "running"} /\ cmd = "register" /\ ~skip =>
        /\ (registered /\ alive) \/ Announces
        /\ Returns(todo)
        /\ IF Announces THEN Enabled(Base, FALSE, FALSE, todo) /\ Has("tree", Base)
           ELSE \E X \in SUBSET Products : Reaches(X)

LEMMA CompleteImplies ==
  ASSUME TypeInv, CompleteInv
  PROVE  RegisterComplete
  <1> SUFFICES ASSUME result = "ok", cmd = "register", ~skip PROVE RegisteredWith(Usable)
    BY DEF RegisterComplete, Usable
  <1>1. todo = <<>> /\ ToSet(todo) = {}
    BY ToSetOfOne DEF TypeInv, TodoOK
  <1>2. ~Announces
    BY <1>1 DEF Announces
  <1>3. PICK X \in SUBSET Products : Reaches(X)
    BY <1>2 DEF CompleteInv
  <1>4. \A q \in X : Ready(q, Usable) /\ WantedOf(q) \subseteq X
    BY <1>1, <1>3 DEF Reaches, Pending, Has, Ready
  <1>5. \A q \in X : \A e \in Children(q) : Wanted(e) => e \in X
    BY <1>4 DEF WantedOf
  <1>6. WantedProducts \subseteq X
    BY <1>3, <1>5 DEF WantedProducts, Reaches
  <1>7. registered /\ alive
    BY <1>2 DEF CompleteInv
  <1> QED
    BY <1>4, <1>6, <1>7 DEF RegisteredWith

\* A step of a registration, the announcement aside, undoes nothing for good.
LEMMA StillPending ==
  ASSUME TypeInv, Goes, cmd = "register", Op # "announce", Returns(todo),
         NEW q \in Products, Pending(q)
  PROVE  Pending(q)'
  <1> DEFINE z == ServiceOf(q)
  <1>1. /\ todo # <<>> /\ Serves /\ Changes /\ smt' = smt
        /\ Op \in CmdOps(cmd) /\ Head(todo) = St(Op, On) /\ On \in Own
        /\ todo \in Seq(Steps(CmdOps(cmd))) /\ Tail(todo) \in Seq(Steps(CmdOps(cmd)))
        /\ svcCreds \in [Services -> {"none", "current", "stale", "blank"}]
    BY HeadStep DEF Goes, Op, TypeInv, DataOK
  <1>2. Op \in ServiceOps \cup {"activate", "install", "tree"}
    BY <1>1 DEF CmdOps, RegisterOps, EnableOps
  <1>3. /\ \A x \in ToSet(todo) : x = Head(todo) \/ x \in ToSet(todo')
        /\ ToSet(Tail(todo)) \subseteq ToSet(todo')
    BY ToCome
  <1>4. z \in Own /\ z' = z /\ z \in Services
    BY <1>1, ServiceOfOwn DEF ServiceOf, Services
  <1>5. q \in act' \/ Has("activate", q)'
    <2>1. act \subseteq act' /\ (Op = "activate" => On \in act')
      BY <1>1, <1>2 DEF Serves, ServiceOps
    <2>2. St("activate", q) = Head(todo) => Op = "activate" /\ On = q
      BY <1>1, SameStep
    <2> QED
      BY <1>3, <2>1, <2>2 DEF Pending, Has
  <1>6. q \in installed' \/ Has("install", q)'
    <2>1. installed \subseteq installed' /\ (Op = "install" => On \in installed')
      BY <1>1, <1>2 DEF Changes, ServiceOps
    <2>2. St("install", q) = Head(todo) => Op = "install" /\ On = q
      BY <1>1, SameStep
    <2> QED
      BY <1>3, <2>1, <2>2 DEF Pending, Has
  <1>7. Leads(Removal(z), Adding(z), todo) /\ Leads(Removed(z), Added(z), todo)
    BY <1>4 DEF Returns
  <1>8. z \in services' \/ Adding(z) \in ToSet(todo')
    <2>1. CASE Head(todo) = Removal(z)
      BY <1>1, <1>3, <1>7, <2>1, LeadsTail
    <2>2. CASE Head(todo) = Adding(z)
      <3>1. Op = "addservice" /\ On = z
        BY <1>1, <2>2, SameStep DEF Adding
      <3> QED
        BY <1>1, <3>1 DEF Changes
    <2>3. CASE Head(todo) # Removal(z) /\ Head(todo) # Adding(z)
      <3>1. ~(Op = "removeservice" /\ On = z)
        BY <1>1, <2>3 DEF Removal
      <3>2. z \in services => z \in services'
        BY <1>1, <3>1 DEF Changes
      <3> QED
        BY <1>3, <2>3, <3>2 DEF Pending
    <2> QED
      BY <2>1, <2>2, <2>3
  <1>b. (faults' = faults \/ blind') /\ (blind => blind')
    BY DEF Goes, Continues
  <1>9. svcCreds'[z] \in Usable' \/ Added(z) \in ToSet(todo')
    <2>1. CASE Head(todo) = Removed(z)
      BY <1>1, <1>3, <1>7, <2>1, LeadsTail
    <2>2. CASE Head(todo) = Added(z)
      <3>1. Op = "writeServiceCreds" /\ On = z
        BY <1>1, <2>2, SameStep DEF Added
      <3>2. svcCreds' = [svcCreds EXCEPT ![z] = IF faults' = faults THEN "current" ELSE "blank"]
        BY <1>1, <3>1 DEF Changes
      <3>3. svcCreds'[z] = "current" \/ (svcCreds'[z] = "blank" /\ blind')
        BY <1>1, <1>4, <1>b, <3>2
      <3> QED
        BY <3>3 DEF Usable
    <2>3. CASE Head(todo) # Removed(z) /\ Head(todo) # Added(z)
      <3>1. ~(Op = "removeServiceCreds" /\ On = z)
        BY <1>1, <2>3 DEF Removed
      <3>2. ~(Op = "writeServiceCreds" /\ On = z)
        BY <1>1, <2>3 DEF Added
      <3>3. svcCreds'[z] = svcCreds[z]
        BY <1>1, <1>2, <1>4, <3>1, <3>2 DEF Changes
      <3>4. svcCreds[z] \in Usable => svcCreds'[z] \in Usable'
        BY <1>b, <3>3 DEF Usable
      <3> QED
        BY <1>3, <2>3, <3>4 DEF Pending
    <2> QED
      BY <2>1, <2>2, <2>3
  <1> QED
    BY <1>4, <1>5, <1>6, <1>8, <1>9 DEF Pending

LEMMA GoesReturns ==
  ASSUME TypeInv, Goes, cmd = "register", Returns(todo)
  PROVE  Returns(todo')
  <1>1. /\ todo # <<>> /\ Continues /\ skip \in BOOLEAN
        /\ Op \in CmdOps(cmd)
        /\ todo \in Seq(Steps(CmdOps(cmd))) /\ Tail(todo) \in Seq(Steps(CmdOps(cmd)))
    BY HeadStep DEF Goes, Op, TypeInv, CommandOK
  <1>2. Op \notin {"dependencies", "removeServices"}
    BY <1>1 DEF CmdOps, RegisterOps, EnableOps, ServiceOps
  <1>3. Returns(Tail(todo))
    BY <1>1, LeadsTail DEF Returns
  <1>4. CASE Op = "tree" /\ todo' = registerProductTree(On) \o Tail(todo)
    <2>1. On \in Products /\ registerProductTree(On) \in Seq(Steps(CmdOps(cmd)))
      BY <1>1, <1>4, AddedOK
    <2>2. Returns(registerProductTree(On))
      BY <1>1, <2>1, registerProductTreeOK
    <2> QED
      BY <1>1, <1>3, <1>4, <2>1, <2>2, ReturnsJoin
  <1> QED
    BY <1>1, <1>2, <1>3, <1>4 DEF Continues

\* Descending from a product reaches its wanted extensions.
LEMMA GoesReaches ==
  ASSUME TypeInv, Goes, cmd = "register", ~skip, Op # "announce", Returns(todo),
         NEW X \in SUBSET Products, Reaches(X)
  PROVE  \E Y \in SUBSET Products : Reaches(Y)'
  <1>1. /\ todo # <<>> /\ Continues /\ skip \in BOOLEAN /\ smt' = smt
        /\ Op \in CmdOps(cmd) /\ Head(todo) = St(Op, On)
        /\ \A x \in ToSet(todo) : x = Head(todo) \/ x \in ToSet(todo')
    BY HeadStep, ToCome DEF Goes, Op, TypeInv, CommandOK
  <1>2. Op \notin {"dependencies", "removeServices"}
    BY <1>1 DEF CmdOps, RegisterOps, EnableOps, ServiceOps
  <1>3. \A q \in X : Pending(q)'
    BY StillPending DEF Reaches
  <1>4. CASE Op # "tree"
    <2>1. \A q \in X : Has("tree", q) => Has("tree", q)'
      BY <1>1, <1>4, SameStep DEF Has
    <2>2. \A q \in X : Has("tree", q)' \/ WantedOf(q) \subseteq X
      BY <2>1 DEF Reaches
    <2>3. Reaches(X)'
      BY <1>3, <2>2 DEF Reaches
    <2> QED
      BY <2>3
  <1>5. CASE Op = "tree"
    <2>0. PICK Y : Y = X \cup WantedOf(On)
      OBVIOUS
    <2>1. On \in Products /\ ToSet(registerProductTree(On)) \subseteq ToSet(todo')
      BY <1>1, <1>5, AddedOK, ToCome
    <2>2. \A e \in Children(On) : Wanted(e) =>
              /\ Has("activate", e)' /\ Has("tree", e)' /\ Has("install", e)'
              /\ Adding(ServiceOf(e)) \in ToSet(todo') /\ Added(ServiceOf(e)) \in ToSet(todo')
      BY <1>1, <2>1, registerProductTreeOK DEF Has
    <2>3. \A e \in WantedOf(On) : Pending(e)' /\ Has("tree", e)'
      BY <1>1, <2>2 DEF WantedOf, Pending, ServiceOf
    <2>4. \A q \in X : Has("tree", q)' \/ WantedOf(q) \subseteq Y
      <3> SUFFICES ASSUME NEW q \in X PROVE Has("tree", q)' \/ WantedOf(q) \subseteq Y
        OBVIOUS
      <3>1. CASE WantedOf(q) \subseteq X
        BY <2>0, <3>1
      <3>2. CASE Has("tree", q)
        BY <1>1, <1>5, <2>0, <3>2, SameStep DEF Has
      <3> QED
        BY <3>1, <3>2 DEF Reaches
    <2>5. Y \subseteq Products
      BY <2>0, <2>1, ChildrenOK DEF WantedOf
    <2>6. Base \in Y
      BY <2>0 DEF Reaches
    <2>7. Reaches(Y)'
      BY <1>3, <2>0, <2>3, <2>4, <2>6 DEF Reaches
    <2> QED
      BY <2>5, <2>7
  <1> QED
    BY <1>4, <1>5

LEMMA GoesComplete ==
  ASSUME TypeInv, Shape(todo), CompleteInv, Goes
  PROVE  CompleteInv'
  <1> SUFFICES ASSUME cmd = "register", ~skip PROVE CompleteInv'
    BY DEF Goes, CompleteInv
  <1>1. /\ todo # <<>> /\ Serves /\ Changes /\ Callable /\ Continues /\ smt' = smt
        /\ Op \in CmdOps(cmd) /\ Head(todo) = St(Op, On) /\ result = "running"
        /\ \A x \in ToSet(todo) : x = Head(todo) \/ x \in ToSet(todo')
        /\ Base \in installed
    BY HeadStep, ToCome DEF Goes, Op, TypeInv, DataOK
  <1>2. Op \in ServiceOps \cup {"activate", "install", "tree", "announce"}
    BY <1>1 DEF CmdOps, RegisterOps, EnableOps
  <1>3. Returns(todo')
    BY <1>1, GoesReturns DEF CompleteInv
  <1>4. ~Announces'
    <2>1. \A y \in ToSet(todo') : y.op # "announce"
      BY NoFirst DEF First
    <2>2. todo' # <<>> => Head(todo') \in ToSet(todo')
      BY GoesType, TailIn DEF TodoOK
    <2> QED
      BY <2>1, <2>2 DEF Announces, Op
  <1>5. registered' /\ alive'
    <2>1. CASE Op = "announce"
      BY <1>1, <2>1 DEF Changes, Serves
    <2>2. CASE Op # "announce"
      <3>1. registered /\ alive
        BY <1>1, <2>2 DEF CompleteInv, Announces
      <3> QED
        BY <1>1, <1>2, <2>2, <3>1 DEF Changes, Serves, ServiceOps
    <2> QED
      BY <2>1, <2>2
  <1>6. \E X \in SUBSET Products : Reaches(X)'
    <2>1. CASE Op = "announce"
      <3>1. Enabled(Base, FALSE, FALSE, todo) /\ Has("tree", Base)
        BY <1>1, <2>1 DEF CompleteInv, Announces
      <3>2. /\ St("activate", Base) \in ToSet(todo') /\ St("tree", Base) \in ToSet(todo')
            /\ Adding(ServiceOf(Base)) \in ToSet(todo') /\ Added(ServiceOf(Base)) \in ToSet(todo')
        BY <1>1, <2>1, <3>1, SameStep DEF Enabled, Has, Adding, Added
      <3>3. Base \in installed'
        BY <1>1, <2>1 DEF Changes
      <3>4. Pending(Base)' /\ Has("tree", Base)'
        BY <1>1, <3>2, <3>3 DEF Pending, Has, ServiceOf
      <3>5. Reaches({Base})'
        BY <3>4 DEF Reaches
      <3> QED
        BY <3>5, TreeAssumption
    <2>2. CASE Op # "announce"
      <3>1. PICK X \in SUBSET Products : Reaches(X)
        BY <1>1, <2>2 DEF CompleteInv, Announces
      <3>2. Returns(todo)
        BY <1>1 DEF CompleteInv
      <3> QED
        BY <2>2, <3>1, <3>2, GoesReaches
    <2> QED
      BY <2>1, <2>2
  <1> QED
    BY <1>3, <1>4, <1>5, <1>6 DEF CompleteInv

LEMMA FullBegin ==
  ASSUME NEW sk \in BOOLEAN, NEW t, t = Begin("register", Base, sk)
  PROVE  /\ Returns(t) /\ t # <<>> /\ Head(t) = St("announce", Base)
         /\ St("tree", Base) \in ToSet(t) /\ Enabled(Base, FALSE, sk, t)
         /\ \A x \in ToSet(t) : x.op \in {"activate", "tree"} => x.on = Base
         /\ Behind(St("tree", Base), {St("activate", Base)}, t)
  <1>1. PICK no \in BOOLEAN : no = FALSE
    OBVIOUS
  <1>2. PICK d : d = Do("tree", Base)
    OBVIOUS
  <1>3. t = Do("announce", Base) \o registerProduct(Base, no, sk) \o d
    BY <1>1, <1>2 DEF Begin
  <1>4. (d = <<>> \/ d = Do("tree", Base)) /\ Base \in Products
    BY <1>2, TreeAssumption
  <1>5. Returns(t)
    BY <1>3, <1>4, BeginRegisterOK
  <1>6. d # <<>>
    BY <1>2 DEF Do
  <1>7. St("activate", Base) \in ToSet(t)
    BY <1>3, <1>4, BeginRegisterOK DEF Enabled
  <1>14. ASSUME ~sk PROVE Adding(ServiceOf(Base)) \in ToSet(t) /\ Added(ServiceOf(Base)) \in ToSet(t)
    BY <1>3, <1>4, <1>14, BeginRegisterOK DEF Enabled
  <1>8. t # <<>> /\ Head(t) = St("announce", Base)
    BY <1>3, <1>4, BeginRegisterOK
  <1>9. d # <<>> => St("tree", Base) \in ToSet(t)
    BY <1>3, <1>4, BeginRegisterOK
  <1>10. \A x \in ToSet(t) : x.op \in {"activate", "tree"} => x.on = Base
    BY <1>3, <1>4, BeginRegisterOK
  <1>11. Behind(St("tree", Base), {St("activate", Base)}, t)
    BY <1>3, <1>4, BeginRegisterOK
  <1>12. Enabled(Base, FALSE, sk, t)
    BY <1>7, <1>10, <1>14 DEF Enabled
  <1> QED
    BY <1>5, <1>6, <1>8, <1>9, <1>10, <1>11, <1>12

LEMMA NextComplete ==
  ASSUME TypeInv, Shape(todo), CompleteInv, [Next]_vars
  PROVE  CompleteInv'
  <1>1. ASSUME Rests PROVE CompleteInv'
    <2>1. /\ UNCHANGED <<smt, alive, act, registered, services, svcCreds, installed, cmd, skip, blind, todo>>
          /\ result' \in {"ok", "running"} => result \in {"ok", "running"}
      BY <1>1 DEF Rests, Known, server, setup
    <2>2. Announces' = Announces
      BY <2>1 DEF Announces, Op
    <2>3. \A q : Pending(q) => Pending(q)'
      BY <2>1 DEF Pending, Has, ServiceOf, Usable
    <2>4. \A X : Reaches(X) => Reaches(X)'
      BY <2>1, <2>3 DEF Reaches, Has
    <2>5. Enabled(Base, FALSE, FALSE, todo) => Enabled(Base, FALSE, FALSE, todo)'
      BY <2>1 DEF Enabled, ServiceOf
    <2> QED
      BY <2>1, <2>2, <2>4, <2>5 DEF CompleteInv, Has
  <1>2. ASSUME Stops PROVE CompleteInv'
    BY <1>2 DEF Stops, CompleteInv
  <1>3. ASSUME NEW c \in Commands, NEW p \in Products, NEW sk \in BOOLEAN, Start(c, p, sk)
        PROVE  CompleteInv'
    <2>1. ASSUME c = "register", sk = FALSE, todo' = Begin(c, p, sk) PROVE CompleteInv'
      <3>1. PICK t : t = Begin("register", Base, sk) /\ todo' = t
        BY <1>3, <2>1, StartIs
      <3>2. /\ Returns(t) /\ t # <<>> /\ Head(t) = St("announce", Base)
            /\ St("tree", Base) \in ToSet(t) /\ Enabled(Base, FALSE, sk, t)
        BY <3>1, FullBegin
      <3>3. Announces'
        BY <3>1, <3>2 DEF Announces, Op, St
      <3>4. smt' = smt
        BY <1>3, StartIs DEF server, setup
      <3>5. Enabled(Base, FALSE, FALSE, todo)' /\ Has("tree", Base)' /\ Returns(todo')
        BY <2>1, <3>1, <3>2, <3>4 DEF Enabled, ServiceOf, Has
      <3> QED
        BY <3>3, <3>5 DEF CompleteInv
    <2>2. cmd' = c /\ skip' = sk /\ (result' = "failed" \/ todo' = Begin(c, p, sk))
      BY <1>3, StartIs
    <2>3. ASSUME c # "register" \/ sk # FALSE \/ result' = "failed" PROVE CompleteInv'
      BY <2>2, <2>3 DEF CompleteInv
    <2> QED
      BY <2>1, <2>2, <2>3
  <1> QED
    BY <1>1, <1>2, <1>3, Moves, GoesComplete

\* A register that succeeds leaves every product it wants ready, from any state that
\* earlier commands left behind: what it undoes on its way, it does again. The
\* credentials of a service are blank only if this command could not read the system's.
THEOREM RegistersAll == Spec => []RegisterComplete
  <1>1. Spec => []TypeInv
    BY InitType, NextType, PTL DEF Spec
  <1>2. Init => Shape(todo) /\ CompleteInv
    BY NothingShape DEF Init, CompleteInv
  <1>3. TypeInv /\ Shape(todo) /\ CompleteInv /\ [Next]_vars => (Shape(todo) /\ CompleteInv)'
    BY NextShape, NextComplete
  <1>4. Spec => [](Shape(todo) /\ CompleteInv)
    BY <1>1, <1>2, <1>3, PTL DEF Spec
  <1> QED
    BY <1>1, <1>4, CompleteImplies, PTL

-----------------------------------------------------------------------------
(* The order of the calls: a product is activated behind one of its parents *)
(* and descended from behind its own activation, and it is deactivated      *)
(* behind its extensions.                                                   *)
Parents(e) == {St("activate", q) : q \in {r \in Products : e \in Children(r)}}
Ascends ==
    /\ \A e \in Products : HasParent(e) \/ Behind(St("activate", e), Parents(e), todo)
    /\ \A q \in Products : q \in act \/ Behind(St("tree", q), {St("activate", q)}, todo)
BaseAlone ==
    /\ \A x \in ToSet(todo) : x.op \in {"activate", "tree"} => x.on = Base
    /\ Behind(St("tree", Base), {St("activate", Base)}, todo)
Recedes ==
    \A p \in Products : \A e \in Children(p) \cap act \cap installed :
        Behind(St("deactivate", p), {St("deactivate", e)}, todo)
OrderInv ==
    /\ cmd = "register" => IF Announces THEN BaseAlone ELSE Ascends
    /\ cmd = "deregister" =>
        /\ Recedes
        /\ todo # <<>> /\ Op = "upgrade" => \A p : ~Has("deactivate", p)

LEMMA OrderImplies ==
  ASSUME TypeInv, OrderInv
  PROVE  ~OutOfOrder
  <1> SUFFICES ASSUME OutOfOrder PROVE FALSE
    OBVIOUS
  <1>1. /\ todo # <<>> /\ alive /\ cmd \in {"register", "deregister"}
        /\ Op = "activate" => ~HasParent(On)
        /\ \/ Op = "activate"
           \/ Op = "deactivate" /\ Children(On) \cap act \cap installed # {}
    BY DEF OutOfOrder, Refused, LockedOut, At, Op
  <1>2. /\ Op \in CmdOps(cmd) /\ On \in Place(Op) /\ Head(todo) = St(Op, On)
        /\ todo \in Seq(Steps(CmdOps(cmd)))
    BY <1>1, HeadStep DEF Op
  <1>3. On \in Products
    BY <1>1, <1>2, PlaceIs
  <1>4. CASE cmd = "register"
    <2>1. Op = "activate" /\ ~Announces
      BY <1>1, <1>2, <1>4 DEF CmdOps, RegisterOps, EnableOps, ServiceOps, Announces
    <2>2. Behind(St("activate", On), Parents(On), todo)
      BY <1>1, <1>3, <1>4, <2>1 DEF OrderInv, Ascends
    <2> QED
      BY <1>1, <1>2, <2>1, <2>2, BehindTail
  <1>5. CASE cmd = "deregister"
    <2>1. Op = "deactivate"
      BY <1>1, <1>2, <1>5 DEF CmdOps, SystemOps, DisableOps, CleanupOps, RemoveOps
    <2>2. PICK e \in Children(On) \cap act \cap installed : TRUE
      BY <1>1, <2>1
    <2>3. Behind(St("deactivate", On), {St("deactivate", e)}, todo)
      BY <1>3, <1>5, <2>2 DEF OrderInv, Recedes
    <2> QED
      BY <1>1, <1>2, <2>1, <2>3, BehindTail
  <1> QED
    BY <1>1, <1>4, <1>5

\* The announcement may take every activation away: only the base product comes next.
LEMMA AnnouncesOrder ==
  ASSUME TypeInv, Goes, Op = "announce", BaseAlone
  PROVE  Ascends'
  <1>1. /\ todo # <<>> /\ Continues /\ Head(todo) = St(Op, On)
        /\ todo \in Seq(Steps(CmdOps(cmd))) /\ Tail(todo) \in Seq(Steps(CmdOps(cmd)))
        /\ ToSet(Tail(todo)) \subseteq ToSet(todo)
    BY HeadStep DEF Goes, Op
  <1>2. todo' = Tail(todo)
    BY <1>1 DEF Continues
  <1>3. ASSUME NEW e \in Products, e # Base
        PROVE  /\ Behind(St("activate", e), Parents(e), todo')
               /\ Behind(St("tree", e), {St("activate", e)}, todo')
    <2>1. St("activate", e) \notin ToSet(todo') /\ St("tree", e) \notin ToSet(todo')
      BY <1>1, <1>2, <1>3 DEF BaseAlone, St
    <2> QED
      BY <1>1, <1>2, <2>1, BehindNone
  <1>4. Behind(St("tree", Base), {St("activate", Base)}, todo')
    <2>1. Head(todo) \notin {St("activate", Base)}
      BY <1>1, SameStep
    <2> QED
      BY <1>1, <1>2, <2>1, BehindTail DEF BaseAlone
  <1>5. \A e \in Products : HasParent(e)' \/ Behind(St("activate", e), Parents(e), todo')
    BY <1>3 DEF HasParent
  <1>6. \A q \in Products : Behind(St("tree", q), {St("activate", q)}, todo')
    BY <1>3, <1>4
  <1> QED
    BY <1>5, <1>6 DEF Ascends

LEMMA GoesAscends ==
  ASSUME TypeInv, Goes, cmd = "register", Op # "announce", Ascends
  PROVE  Ascends'
  <1>1. /\ todo # <<>> /\ Serves /\ Continues /\ skip \in BOOLEAN
        /\ Op \in CmdOps(cmd) /\ Head(todo) = St(Op, On) /\ On \in Place(Op)
        /\ todo \in Seq(Steps(CmdOps(cmd))) /\ Tail(todo) \in Seq(Steps(CmdOps(cmd)))
    BY HeadStep DEF Goes, Op, TypeInv, CommandOK
  <1>2. Op \in ServiceOps \cup {"activate", "install", "tree"}
    BY <1>1 DEF CmdOps, RegisterOps, EnableOps
  <1>3. act \subseteq act' /\ (Op = "activate" => On \in act')
    BY <1>1, <1>2 DEF Serves, ServiceOps
  <1>4. ASSUME NEW e \in Products, ~HasParent(e)'
        PROVE  ~HasParent(e) /\ Behind(St("activate", e), Parents(e), Tail(todo))
    <2>1. ~HasParent(e)
      BY <1>3, <1>4 DEF HasParent
    <2>2. Head(todo) \notin Parents(e)
      BY <1>1, <1>3, <1>4, SameStep DEF Parents, HasParent
    <2> QED
      BY <1>1, <2>1, <2>2, BehindTail DEF Ascends
  <1>5. ASSUME NEW q \in Products, q \notin act'
        PROVE  Behind(St("tree", q), {St("activate", q)}, Tail(todo))
    <2>1. q \notin act
      BY <1>3, <1>5
    <2>2. Head(todo) \notin {St("activate", q)}
      BY <1>1, <1>3, <1>5, SameStep
    <2> QED
      BY <1>1, <2>1, <2>2, BehindTail DEF Ascends
  <1>6. CASE todo' = Tail(todo)
    BY <1>4, <1>5, <1>6 DEF Ascends
  <1>7. CASE Op = "tree" /\ todo' = registerProductTree(On) \o Tail(todo)
    <2> DEFINE s == registerProductTree(On)
    <2>1. On \in Products /\ s \in Seq(Steps(CmdOps(cmd)))
      BY <1>1, <1>7, AddedOK
    <2>2. Descends(On, s)
      BY <1>1, <2>1, registerProductTreeOK
    <2>3. todo' = s \o Tail(todo)
      BY <1>7
    <2> HIDE DEF s
    <2>4. On \in act
      <3>1. ASSUME Behind(St("tree", On), {St("activate", On)}, todo) PROVE FALSE
        BY <1>1, <1>7, <3>1, BehindTail
      <3> QED
        BY <2>1, <3>1 DEF Ascends
    <2>5. ASSUME NEW e \in Products, ~HasParent(e)' PROVE Behind(St("activate", e), Parents(e), todo')
      <3>1. St("activate", e) \notin ToSet(s)
        BY <1>4, <2>2, <2>4, <2>5 DEF Descends, St, HasParent
      <3>2. Behind(St("activate", e), Parents(e), s)
        BY <2>1, <3>1, BehindNone
      <3>3. Behind(St("activate", e), Parents(e), Tail(todo))
        BY <1>4, <2>5
      <3> QED
        BY <1>1, <2>1, <2>3, <3>2, <3>3, BehindJoin
    <2>6. ASSUME NEW q \in Products, q \notin act'
          PROVE  Behind(St("tree", q), {St("activate", q)}, todo')
      <3>1. Behind(St("tree", q), {St("activate", q)}, Tail(todo))
        BY <1>5, <2>6
      <3>2. Behind(St("tree", q), {St("activate", q)}, s)
        BY <2>2 DEF Descends
      <3> QED
        BY <1>1, <2>1, <2>3, <3>1, <3>2, BehindJoin
    <2> QED
      BY <2>5, <2>6 DEF Ascends
  <1> QED
    BY <1>1, <1>2, <1>6, <1>7 DEF Continues, ServiceOps

LEMMA GoesRecedes ==
  ASSUME TypeInv, Goes, cmd = "deregister", OrderInv
  PROVE  Recedes'
  <1>1. /\ todo # <<>> /\ Serves /\ Changes /\ Continues /\ skip \in BOOLEAN
        /\ Op \in CmdOps(cmd) /\ Head(todo) = St(Op, On) /\ installed \in SUBSET Products
        /\ todo \in Seq(Steps(CmdOps(cmd))) /\ Tail(todo) \in Seq(Steps(CmdOps(cmd)))
        /\ ToSet(Tail(todo)) \subseteq ToSet(todo)
    BY HeadStep DEF Goes, Op, TypeInv, CommandOK, DataOK
  <1>2. Op \in SystemOps
    BY <1>1 DEF CmdOps
  <1>3. installed' \subseteq installed
    BY <1>1, <1>2 DEF Changes, SystemOps, DisableOps, CleanupOps, RemoveOps
  <1>4. CASE Op = "upgrade"
    <2>1. todo' = Tail(todo)
      BY <1>1, <1>4 DEF Continues
    <2>2. \A p : St("deactivate", p) \notin ToSet(Tail(todo))
      BY <1>1, <1>4 DEF OrderInv, Has
    <2> QED
      BY <1>1, <2>1, <2>2, BehindNone DEF Recedes
  <1>5. CASE Op # "upgrade"
    <2>1. act' \subseteq act /\ (Op = "deactivate" => On \notin act')
      BY <1>1, <1>2, <1>5 DEF Serves, SystemOps, DisableOps, CleanupOps, RemoveOps
    <2> SUFFICES ASSUME NEW p \in Products, NEW e \in Children(p) \cap act' \cap installed'
                 PROVE  Behind(St("deactivate", p), {St("deactivate", e)}, todo')
      BY DEF Recedes
    <2> DEFINE x == St("deactivate", p)
               Y == {St("deactivate", e)}
    <2>2. Behind(x, Y, todo)
      BY <1>3, <2>1 DEF OrderInv, Recedes
    <2>3. Head(todo) \notin Y
      BY <1>1, <2>1, SameStep
    <2>4. Op = "dependencies" => Behind(x, Y, deregisterDependencies(installed))
      BY <1>1, <1>3, deregisterDependenciesOK
    <2> HIDE DEF Y
    <2>5. Behind(x, Y, Tail(todo))
      BY <1>1, <2>2, <2>3, BehindTail
    <2>6. CASE todo' = Tail(todo)
      BY <2>5, <2>6 DEF Y
    <2>7. CASE Op = "dependencies" /\ todo' = deregisterDependencies(installed) \o Tail(todo)
      <3>1. deregisterDependencies(installed) \in Seq(Steps(CmdOps(cmd)))
        BY <1>1, <2>7, AddedOK
      <3>2. Behind(x, Y, todo')
        BY <1>1, <2>4, <2>5, <2>7, <3>1, BehindJoin
      <3> QED
        BY <3>2 DEF Y
    <2>8. CASE Op = "removeServices" /\ \E s \in Own : todo' = RemoveService(s) \o todo
      <3>1. PICK s \in Own : todo' = RemoveService(s) \o todo
        BY <2>8
      <3>2. RemoveService(s) \in Seq(Steps(CmdOps(cmd))) /\ RemoveService(s) \in Seq(Steps(RemoveOps))
        BY <1>1, <2>8, AddedOK, RemoveServiceOK
      <3>3. x \notin ToSet(RemoveService(s))
        <4>1. "deactivate" \notin RemoveOps
          BY DEF RemoveOps
        <4> QED
          BY <3>2, <4>1, NotIn
      <3>4. Behind(x, Y, RemoveService(s))
        BY <3>2, <3>3, BehindNone
      <3>5. Behind(x, Y, todo')
        BY <1>1, <2>2, <3>1, <3>2, <3>4, BehindJoin
      <3> QED
        BY <3>5 DEF Y
    <2>9. Op # "tree"
      BY <1>2 DEF SystemOps, DisableOps, CleanupOps, RemoveOps
    <2> QED
      BY <1>1, <2>6, <2>7, <2>8, <2>9 DEF Continues, Recognised
  <1> QED
    BY <1>4, <1>5

LEMMA GoesOrder ==
  ASSUME TypeInv, Shape(todo), OrderInv, Goes
  PROVE  OrderInv'
  <1>1. todo # <<>> /\ cmd' = cmd
    BY DEF Goes
  <1>2. ~Announces' /\ ~(todo' # <<>> /\ Op' = "upgrade")
    <2>1. \A y \in ToSet(todo') : y.op # "announce" /\ y.op # "upgrade"
      BY NoFirst DEF First
    <2>2. todo' # <<>> => Head(todo') \in ToSet(todo')
      BY GoesType, TailIn DEF TodoOK
    <2> QED
      BY <2>1, <2>2 DEF Announces, Op
  <1>3. ASSUME cmd = "register" PROVE Ascends'
    <2>1. CASE Op = "announce"
      <3>1. BaseAlone
        BY <1>1, <1>3, <2>1 DEF OrderInv, Announces
      <3> QED
        BY <2>1, <3>1, AnnouncesOrder
    <2>2. CASE Op # "announce"
      <3>1. Ascends
        BY <1>3, <2>2 DEF OrderInv, Announces
      <3> QED
        BY <1>3, <2>2, <3>1, GoesAscends
    <2> QED
      BY <2>1, <2>2
  <1>4. ASSUME cmd = "deregister" PROVE Recedes'
    BY <1>4, GoesRecedes
  <1> QED
    BY <1>1, <1>2, <1>3, <1>4 DEF OrderInv

LEMMA NextOrder ==
  ASSUME TypeInv, Shape(todo), OrderInv, [Next]_vars
  PROVE  OrderInv'
  <1>1. ASSUME Rests PROVE OrderInv'
    <2>1. UNCHANGED <<act, installed, cmd, todo>>
      BY <1>1 DEF Rests, Known, server, setup
    <2>2. Announces' = Announces /\ (Ascends => Ascends')
      BY <2>1 DEF Announces, Op, Ascends, HasParent
    <2>3. (BaseAlone => BaseAlone') /\ (Recedes => Recedes')
      BY <2>1 DEF BaseAlone, Recedes
    <2> QED
      BY <2>1, <2>2, <2>3 DEF OrderInv, Op, Has
  <1>2. ASSUME todo' = <<>> PROVE OrderInv'
    <2>1. ~Announces'
      BY <1>2 DEF Announces
    <2>2. Ascends' /\ Recedes'
      BY <1>2, NothingBehind DEF Ascends, Recedes
    <2> QED
      BY <1>2, <2>1, <2>2 DEF OrderInv
  <1>3. ASSUME NEW c \in Commands, NEW p \in Products, NEW sk \in BOOLEAN, Start(c, p, sk),
               todo' # <<>>
        PROVE  OrderInv'
    <2>1. /\ c \in {"registerProduct", "deregisterProduct"} \/ p = Base
          /\ todo' = Begin(c, p, sk) /\ cmd' = c
      BY <1>3, StartIs
    <2>2. CASE c = "register"
      <3>1. PICK t : t = Begin("register", Base, sk) /\ todo' = t
        BY <2>1, <2>2
      <3>2. /\ t # <<>> /\ Head(t) = St("announce", Base)
            /\ \A x \in ToSet(t) : x.op \in {"activate", "tree"} => x.on = Base
            /\ Behind(St("tree", Base), {St("activate", Base)}, t)
        BY <3>1, FullBegin
      <3>3. Announces'
        BY <3>1, <3>2 DEF Announces, Op, St
      <3>4. BaseAlone'
        BY <3>1, <3>2 DEF BaseAlone
      <3> QED
        BY <2>1, <2>2, <3>3, <3>4 DEF OrderInv
    <2>3. CASE c = "deregister"
      <3>1. todo' \in Seq(Steps(SystemOps)) /\ \A x \in ToSet(todo') : x.op # "deactivate"
        BY <2>1, <2>3, BeginDeregisterOK
      <3>2. \A p1 : St("deactivate", p1) \notin ToSet(todo')
        BY <3>1 DEF St
      <3>3. Recedes'
        BY <3>1, <3>2, BehindNone DEF Recedes
      <3> QED
        BY <2>1, <2>3, <3>2, <3>3 DEF OrderInv, Has
    <2> QED
      BY <2>1, <2>2, <2>3 DEF OrderInv
  <1>4. ASSUME Stops PROVE OrderInv'
    BY <1>2, <1>4 DEF Stops
  <1> QED
    BY <1>1, <1>2, <1>3, <1>4, Moves, GoesOrder

\* The server never refuses an activation for a missing parent, nor the deactivation of
\* a product for an extension that deregistering could have deactivated before it.
THEOREM InOrderAlways == Spec => NeverOutOfOrder
  <1>1. Spec => []TypeInv
    BY InitType, NextType, PTL DEF Spec
  <1>2. Init => Shape(todo) /\ OrderInv
    BY NothingShape DEF Init, OrderInv
  <1>3. TypeInv /\ Shape(todo) /\ OrderInv /\ [Next]_vars => (Shape(todo) /\ OrderInv)'
    BY NextShape, NextOrder
  <1>4. Spec => [](Shape(todo) /\ OrderInv)
    BY <1>1, <1>2, <1>3, PTL DEF Spec
  <1>5. TypeInv /\ OrderInv /\ [Next]_vars => [~OutOfOrder]_vars
    BY OrderImplies
  <1> QED
    BY <1>1, <1>4, <1>5, PTL DEF Spec, NeverOutOfOrder

-----------------------------------------------------------------------------
(* As long as no step failed: a service and its credentials file agree,     *)
(* except between the two halves of a pair; a system that is gone, or no    *)
(* longer known here, has no call to come but its cleanup.                  *)
Agrees(s)  == /\ svcCreds[s] = "none" <=> s \notin services
              /\ sameUrl => svcCreds[s] \in {"none", "current"}
Midway(s)  == todo # <<>> /\ Head(todo) \in {Removed(s), Added(s)}
NoCalls    == ToSet(todo) \cap Calls = {}
PairsOK    ==
    \A s \in Own :
        /\ Agrees(s) \/ Midway(s)
        /\ todo # <<>> /\ Head(todo) = Removed(s) => s \notin services
        /\ todo # <<>> /\ Head(todo) = Added(s) => s \in services
GoneOK     ==
    /\ LockedOut => Has("removeCreds", Base) /\ NoCalls
    /\ ~registered => Recognised = {} \/ (Has("removeServices", Base) /\ NoCalls)
    /\ cmd \in {"register", "registerProduct"} /\ todo # <<>> => registered \/ Op = "announce"
SoundInv   == faults = 0 => PairsOK /\ GoneOK

LEMMA SoundImplies ==
  ASSUME TypeInv, SoundInv
  PROVE  CleanStop
  <1> SUFFICES ASSUME faults = 0, result # "running"
               PROVE  /\ ~LockedOut
                      /\ \A s \in Own : svcCreds[s] = "none" <=> s \notin services
                      /\ sameUrl => /\ \A s \in services \cap Own : svcCreds[s] = "current"
                                    /\ services \subseteq Foreign \/ registered
    BY DEF CleanStop
  <1>1. todo = <<>> /\ \A op, x : ~Has(op, x)
    BY ToSetOfOne DEF TypeInv, TodoOK, Has
  <1>2. \A s \in Own : Agrees(s)
    BY <1>1 DEF SoundInv, PairsOK, Midway
  <1>3. ~LockedOut /\ (~registered => Recognised = {})
    BY <1>1 DEF SoundInv, GoneOK
  <1>4. sameUrl => services \subseteq Foreign \/ registered
    BY <1>3 DEF TypeInv, DataOK, Services, Recognised
  <1>5. sameUrl => \A s \in services \cap Own : svcCreds[s] = "current"
    BY <1>2 DEF Agrees
  <1> QED
    BY <1>2, <1>3, <1>4, <1>5 DEF Agrees

\* At a whole list, no pair is half done.
LEMMA WholePairs ==
  ASSUME NEW S, NEW t \in Seq(S), t # <<>>, Halves(t)
  PROVE  \A s \in Own : Head(t) \notin {Removed(s), Added(s)}
  <1> SUFFICES ASSUME NEW s \in Own PROVE Head(t) # Removed(s) /\ Head(t) # Added(s)
    OBVIOUS
  <1>1. Removal(s) # Removed(s) /\ Adding(s) # Added(s)
    BY Apart
  <1>2. Head(t) # Removed(s)
    BY <1>1, PairedTail DEF Halves
  <1>3. Head(t) # Added(s)
    BY <1>1, PairedTail DEF Halves
  <1> QED
    BY <1>2, <1>3

LEMMA GoesHalves ==
  ASSUME TypeInv, Shape(todo), Goes, Op \notin {"removeservice", "addservice"}
  PROVE  Halves(todo')
  <1>1. /\ todo # <<>> /\ Continues /\ skip \in BOOLEAN /\ installed \in SUBSET Products
        /\ todo \in Seq(Steps(CmdOps(cmd))) /\ Tail(todo) \in Seq(Steps(CmdOps(cmd)))
    BY HeadStep DEF Goes, TypeInv, CommandOK, DataOK
  <1>2. Halves(Tail(todo)) /\ (Op \notin Secondary => Halves(todo))
    BY <1>1, HalfDoneTail DEF Shape, Op
  <1>3. CASE todo' = Tail(todo)
    BY <1>2, <1>3
  <1>4. CASE Op = "tree" /\ todo' = registerProductTree(On) \o Tail(todo)
    <2>1. On \in Products /\ registerProductTree(On) \in Seq(Steps(CmdOps(cmd)))
      BY <1>1, <1>4, AddedOK
    <2>2. Halves(registerProductTree(On))
      BY <1>1, <2>1, registerProductTreeOK
    <2> QED
      BY <1>1, <1>2, <1>4, <2>1, <2>2, HalvesJoin
  <1>5. CASE Op = "dependencies" /\ todo' = deregisterDependencies(installed) \o Tail(todo)
    <2>1. /\ deregisterDependencies(installed) \in Seq(Steps(CmdOps(cmd)))
          /\ Halves(deregisterDependencies(installed))
      BY <1>1, <1>5, AddedOK, deregisterDependenciesOK
    <2> QED
      BY <1>1, <1>2, <1>5, <2>1, HalvesJoin
  <1>6. CASE Op = "removeServices" /\ \E s \in Own : todo' = RemoveService(s) \o todo
    <2>1. PICK s \in Own : todo' = RemoveService(s) \o todo
      BY <1>6
    <2>2. RemoveService(s) \in Seq(Steps(CmdOps(cmd))) /\ Halves(RemoveService(s))
      BY <1>1, <1>6, AddedOK, RemoveServiceOK
    <2>3. Halves(todo)
      BY <1>2, <1>6 DEF Secondary
    <2> QED
      BY <1>1, <2>1, <2>2, <2>3, HalvesJoin
  <1> QED
    BY <1>1, <1>3, <1>4, <1>5, <1>6 DEF Continues, Recognised

\* What the first step does to the services and their files.
LEMMA GoesPairs ==
  ASSUME TypeInv, Shape(todo), Goes, faults' = faults, PairsOK, GoneOK
  PROVE  PairsOK'
  <1>1. /\ todo # <<>> /\ Changes /\ Continues /\ sameUrl' = sameUrl
        /\ Op \in CmdOps(cmd) /\ Head(todo) = St(Op, On) /\ On \in Own /\ On \in Services
        /\ todo \in Seq(Steps(CmdOps(cmd))) /\ Tail(todo) \in Seq(Steps(CmdOps(cmd)))
        /\ svcCreds \in [Services -> {"none", "current", "stale", "blank"}] /\ Own \subseteq Services
        /\ todo' \in Seq(Steps(CmdOps(cmd)))'
    BY HeadStep, GoesType DEF Goes, Op, TypeInv, DataOK, Services, TodoOK
  <1>2. \A s \in Own : Removal(s) # Removed(s) /\ Adding(s) # Added(s)
    BY Apart
  <1>3. /\ Op = "removeservice" => Head(todo) = Removal(On)
        /\ Op = "addservice" => Head(todo) = Adding(On)
        /\ Op = "removeServiceCreds" => Head(todo) = Removed(On)
        /\ Op = "writeServiceCreds" => Head(todo) = Added(On)
    BY <1>1 DEF Removal, Adding, Removed, Added
  <1>4. \A s \in Own : Midway(s) => Op \in Secondary /\ s = On
    BY <1>1, SameStep DEF Midway, Removed, Added, Secondary
  <1>5. CASE Op = "removeservice"
    <2>1. todo' = Tail(todo) /\ services' = services \ {On} /\ svcCreds' = svcCreds
      BY <1>1, <1>5 DEF Changes, Continues
    <2>2. todo' # <<>> /\ Head(todo') = Removed(On)
      BY <1>1, <1>2, <1>3, <1>5, <2>1, HalfTail DEF Shape, HalfDone
    <2>3. \A s \in Own : (Head(todo') = Removed(s) => s = On) /\ Head(todo') # Added(s)
      BY <2>2, SameStep DEF Removed, Added
    <2>4. ASSUME NEW s \in Own PROVE Agrees(s)' \/ Midway(s)'
      <3>1. Agrees(s)
        BY <1>4, <1>5 DEF PairsOK, Secondary
      <3>2. CASE s = On
        BY <2>2, <3>2 DEF Midway, Removed, Added
      <3>3. CASE s # On
        BY <1>1, <2>1, <3>1, <3>3 DEF Agrees
      <3> QED
        BY <3>2, <3>3
    <2> QED
      BY <2>1, <2>3, <2>4 DEF PairsOK
  <1>6. CASE Op = "addservice"
    <2>1. todo' = Tail(todo) /\ services' = services \cup {On} /\ svcCreds' = svcCreds
      BY <1>1, <1>6 DEF Changes, Continues
    <2>2. todo' # <<>> /\ Head(todo') = Added(On)
      BY <1>1, <1>2, <1>3, <1>6, <2>1, HalfTail DEF Shape, HalfDone
    <2>3. \A s \in Own : (Head(todo') = Added(s) => s = On) /\ Head(todo') # Removed(s)
      BY <2>2, SameStep DEF Removed, Added
    <2>4. ASSUME NEW s \in Own PROVE Agrees(s)' \/ Midway(s)'
      <3>1. Agrees(s)
        BY <1>4, <1>6 DEF PairsOK, Secondary
      <3>2. CASE s = On
        BY <2>2, <3>2 DEF Midway, Removed, Added
      <3>3. CASE s # On
        BY <1>1, <2>1, <3>1, <3>3 DEF Agrees
      <3> QED
        BY <3>2, <3>3
    <2> QED
      BY <2>1, <2>3, <2>4 DEF PairsOK
  <1>7. CASE Op \notin {"removeservice", "addservice"}
    <2>1. todo' # <<>> => \A s \in Own : Head(todo') \notin {Removed(s), Added(s)}
      BY <1>1, <1>7, GoesHalves, WholePairs
    <2>2. services' = services
      BY <1>1, <1>7 DEF Changes
    <2>3. ASSUME NEW s \in Own PROVE Agrees(s)'
      <3>1. CASE Op \in Secondary /\ s = On
        <4>1. CASE Op = "removeServiceCreds"
          <5>1. svcCreds'[s] = "none"
            BY <1>1, <3>1, <4>1 DEF Changes
          <5>2. s \notin services
            BY <1>1, <1>3, <3>1, <4>1 DEF PairsOK
          <5> QED
            BY <2>2, <5>1, <5>2 DEF Agrees
        <4>2. CASE Op = "writeServiceCreds"
          <5>1. svcCreds'[s] = "current"
            BY <1>1, <3>1, <4>2 DEF Changes
          <5>2. s \in services
            BY <1>1, <1>3, <3>1, <4>2 DEF PairsOK
          <5> QED
            BY <2>2, <5>1, <5>2 DEF Agrees
        <4> QED
          BY <3>1, <4>1, <4>2 DEF Secondary
      <3>2. CASE ~(Op \in Secondary /\ s = On)
        <4>1. Agrees(s)
          BY <1>4, <3>2 DEF PairsOK
        <4>2. CASE Op = "announce" /\ ~registered
          <5>1. Head(todo) \in Calls /\ Head(todo) \in ToSet(todo)
            BY <1>1, <4>2, TailIn DEF Calls, CallOps, St
          <5>2. sameUrl => s \notin services
            BY <4>2, <5>1 DEF GoneOK, NoCalls, Recognised
          <5>3. sameUrl => svcCreds[s] = "none"
            BY <4>1, <5>2 DEF Agrees
          <5>4. svcCreds' = [w \in Services |-> IF svcCreds[w] = "current" THEN "stale" ELSE svcCreds[w]]
            BY <1>1, <4>2 DEF Changes
          <5>5. svcCreds'[s] = IF svcCreds[s] = "current" THEN "stale" ELSE svcCreds[s]
            BY <1>1, <5>4
          <5> QED
            BY <1>1, <2>2, <4>1, <5>3, <5>5 DEF Agrees
        <4>3. CASE ~(Op = "announce" /\ ~registered)
          <5>1. svcCreds'[s] = svcCreds[s]
            BY <1>1, <3>2, <4>3 DEF Changes, Secondary
          <5> QED
            BY <1>1, <2>2, <4>1, <5>1 DEF Agrees
        <4> QED
          BY <4>2, <4>3
      <3> QED
        BY <3>1, <3>2
    <2> QED
      BY <2>1, <2>3 DEF PairsOK
  <1> QED
    BY <1>5, <1>6, <1>7

LEMMA NotCalls ==
  ASSUME NEW O, O \cap CallOps = {}, NEW s \in Seq(Steps(O))
  PROVE  ToSet(s) \cap Calls = {}
  <1>1. ToSet(s) \subseteq Steps(O)
    BY ElementsIn
  <1> QED
    BY <1>1, StepFields DEF Calls

\* A step that lists no products adds no call to what is to come.
LEMMA CallsLess ==
  ASSUME TypeInv, Goes, Op \notin {"tree", "dependencies"}, NoCalls
  PROVE  NoCalls'
  <1>1. /\ todo # <<>> /\ Continues
        /\ todo \in Seq(Steps(CmdOps(cmd))) /\ ToSet(Tail(todo)) \subseteq ToSet(todo)
    BY HeadStep DEF Goes
  <1>2. CASE todo' = Tail(todo)
    BY <1>1, <1>2 DEF NoCalls
  <1>3. CASE Op = "removeServices" /\ \E s \in Own : todo' = RemoveService(s) \o todo
    <2>1. PICK s \in Own : todo' = RemoveService(s) \o todo
      BY <1>3
    <2>2. RemoveService(s) \in Seq(Steps(CmdOps(cmd))) /\ RemoveService(s) \in Seq(Steps(RemoveOps))
      BY <1>1, <1>3, AddedOK, RemoveServiceOK
    <2>3. ToSet(todo') = ToSet(RemoveService(s)) \cup ToSet(todo)
      BY <1>1, <2>1, <2>2, ToSetOfJoin
    <2>4. RemoveOps \cap CallOps = {}
      BY DEF RemoveOps, CallOps
    <2>5. ToSet(RemoveService(s)) \cap Calls = {}
      BY <2>2, <2>4, NotCalls
    <2> QED
      BY <2>3, <2>5 DEF NoCalls
  <1> QED
    BY <1>1, <1>2, <1>3 DEF Continues, Recognised

LEMMA GoesGone ==
  ASSUME TypeInv, Shape(todo), Goes, GoneOK
  PROVE  GoneOK'
  <1>1. /\ todo # <<>> /\ Changes /\ Serves /\ Callable /\ Continues /\ cmd' = cmd
        /\ Op \in CmdOps(cmd) /\ Head(todo) = St(Op, On) /\ On \in Own /\ On \in Place(Op)
        /\ todo \in Seq(Steps(CmdOps(cmd))) /\ Tail(todo) \in Seq(Steps(CmdOps(cmd)))
        /\ Head(todo) \in ToSet(todo)
    BY HeadStep DEF Goes, Op
  <1>2. /\ \A x \in ToSet(todo) : x = Head(todo) \/ x \in ToSet(todo')
        /\ Op = "removeServices" /\ Recognised # {} => ToSet(todo) \subseteq ToSet(todo')
    BY ToCome
  <1>3. Op \in CallOps => Head(todo) \in Calls /\ ~NoCalls
    <2>1. Op \in CallOps => St(Op, On) \in Calls
      BY <1>1 DEF Calls, St
    <2> QED
      BY <1>1, <2>1 DEF NoCalls
  <1>4. cmd \in {"register", "registerProduct"} => registered' /\ Op \notin EndOps
    <2>1. cmd \in {"register", "registerProduct"} => Op \notin {"removeCreds", "deleteSystem"}
      BY <1>1 DEF CmdOps, RegisterOps, EnableOps, ServiceOps
    <2>2. registered' = IF Op = "announce" THEN TRUE
                        ELSE IF Op = "removeCreds" THEN FALSE ELSE registered
      BY <1>1 DEF Changes
    <2> QED
      BY <1>1, <2>1, <2>2 DEF GoneOK, EndOps
  <1>5. Op \in {"addservice", "announce", "tree"} => cmd \in {"register", "registerProduct"}
    BY <1>1 DEF CmdOps, SystemOps, DisableOps, CleanupOps, RemoveOps
  <1>6. LockedOut' => Has("removeCreds", Base)' /\ NoCalls'
    <2> SUFFICES ASSUME registered', ~alive' PROVE Has("removeCreds", Base)' /\ NoCalls'
      BY DEF LockedOut
    <2>1. CASE Op = "deleteSystem"
      <3>1. todo' = Tail(todo) /\ Head(todo) = St("deleteSystem", Base)
        BY <1>1, <2>1, PlaceIs DEF Continues, OnBase
      <3>2. St("removeCreds", Base) \in ToSet(Tail(todo))
        BY <1>1, <3>1, LeadsTail DEF Shape, EndsOK
      <3>3. ToSet(Tail(todo)) \cap Calls = {}
        BY <1>1, <3>1, ClosesTail DEF Shape, EndsOK
      <3> QED
        BY <3>1, <3>2, <3>3 DEF Has, NoCalls
    <2>2. CASE Op # "deleteSystem"
      <3>1. Op # "announce" /\ ~alive
        BY <1>1, <2>2 DEF Serves
      <3>2. Op # "removeCreds" /\ registered
        BY <1>1, <3>1 DEF Changes
      <3>3. Has("removeCreds", Base) /\ NoCalls
        BY <3>1, <3>2 DEF GoneOK, LockedOut
      <3>4. Op \notin {"tree", "dependencies"}
        BY <1>3, <3>3 DEF CallOps
      <3>5. Has("removeCreds", Base)'
        BY <1>1, <1>2, <3>2, <3>3, SameStep DEF Has
      <3> QED
        BY <3>3, <3>4, <3>5, CallsLess
    <2> QED
      BY <2>1, <2>2
  <1>7. ~registered' => Recognised' = {} \/ (Has("removeServices", Base)' /\ NoCalls')
    <2> SUFFICES ASSUME ~registered' PROVE Recognised' = {} \/ (Has("removeServices", Base)' /\ NoCalls')
      OBVIOUS
    <2>1. Op # "addservice" /\ Op # "announce"
      BY <1>4, <1>5
    <2>2. Recognised' \subseteq Recognised
      BY <1>1, <2>1 DEF Changes, Goes, Recognised
    <2>3. CASE Op = "removeCreds"
      <3>1. todo' = Tail(todo) /\ Head(todo) = St("removeCreds", Base)
        BY <1>1, <2>3, PlaceIs DEF Continues, OnBase
      <3>2. St("removeServices", Base) \in ToSet(Tail(todo))
        BY <1>1, <3>1, LeadsTail DEF Shape, EndsOK
      <3>3. ToSet(Tail(todo)) \cap Calls = {}
        BY <1>1, <3>1, ClosesTail DEF Shape, EndsOK
      <3> QED
        BY <3>1, <3>2, <3>3 DEF Has, NoCalls
    <2>4. CASE Op # "removeCreds"
      <3>1. ~registered
        BY <1>1, <2>1, <2>4 DEF Changes
      <3>2. CASE Recognised = {}
        BY <2>2, <3>2
      <3>3. CASE Recognised # {}
        <4>1. Has("removeServices", Base) /\ NoCalls
          BY <3>1, <3>3 DEF GoneOK
        <4>2. Op \notin {"tree", "dependencies"}
          BY <1>3, <4>1 DEF CallOps
        <4>3. NoCalls'
          BY <4>1, <4>2, CallsLess
        <4>4. Has("removeServices", Base)'
          <5>1. CASE Op = "removeServices"
            BY <1>2, <3>3, <4>1, <5>1 DEF Has
          <5>2. CASE Op # "removeServices"
            BY <1>1, <1>2, <4>1, <5>2, SameStep DEF Has
          <5> QED
            BY <5>1, <5>2
        <4> QED
          BY <4>3, <4>4
      <3> QED
        BY <3>2, <3>3
    <2> QED
      BY <2>3, <2>4
  <1> QED
    BY <1>1, <1>4, <1>6, <1>7 DEF GoneOK

\* A refusal comes only at a call, where every pair is whole and the system is known.
LEMMA StopsSound ==
  ASSUME TypeInv, SoundInv, Stops
  PROVE  SoundInv'
  <1> SUFFICES ASSUME faults' = 0 PROVE PairsOK' /\ GoneOK'
    BY DEF SoundInv
  <1>1. /\ todo # <<>> /\ todo' = <<>> /\ Refused
        /\ UNCHANGED <<sameUrl, registered, services, svcCreds, cmd, alive, faults>>
    BY DEF Stops
  <1>2. UNCHANGED <<sameUrl, registered, services, svcCreds>>
    BY <1>1
  <1>3. Op \in {"announce", "activate", "deactivate", "upgrade", "deleteSystem"}
    BY <1>1 DEF Refused, At, Op
  <1>4. PairsOK /\ GoneOK
    BY <1>1 DEF SoundInv
  <1>5. Head(todo) = St(Op, On) /\ On \in Own /\ Head(todo) \in ToSet(todo)
    BY <1>1, HeadStep DEF Op
  <1>6. ~NoCalls
    BY <1>3, <1>5 DEF NoCalls, Calls, CallOps, St
  <1>7. \A s \in Own : ~Midway(s)
    BY <1>3, <1>5, SameStep DEF Midway, Removed, Added
  <1>8. \A s \in Own : Agrees(s)'
    BY <1>2, <1>4, <1>7 DEF PairsOK, Agrees
  <1>9. ~LockedOut' /\ (~registered' => Recognised' = {})
    BY <1>1, <1>2, <1>4, <1>6 DEF GoneOK, LockedOut, Recognised
  <1> QED
    BY <1>1, <1>8, <1>9 DEF PairsOK, GoneOK

LEMMA StartSound ==
  ASSUME TypeInv, SoundInv, NEW c \in Commands, NEW p \in Products, NEW sk \in BOOLEAN, Start(c, p, sk)
  PROVE  SoundInv'
  <1> SUFFICES ASSUME faults' = 0 PROVE PairsOK' /\ GoneOK'
    BY DEF SoundInv
  <1>1. /\ result # "running" /\ UNCHANGED <<server, Known, faults>> /\ cmd' = c
        /\ c \in {"registerProduct", "deregisterProduct"} \/ p = Base
        /\ \/ todo' = <<>> /\ result' = "failed"
           \/ todo' = Begin(c, p, sk) /\ result' = "running" /\ (c = "deregisterProduct" => p # Base)
    BY StartIs
  <1>2. UNCHANGED <<sameUrl, registered, services, svcCreds, alive>>
    BY <1>1 DEF Known, server, setup
  <1>3. todo = <<>> /\ \A op, x : ~Has(op, x)
    BY <1>1, ToSetOfOne DEF TypeInv, TodoOK, Has
  <1>4. PairsOK /\ GoneOK
    BY <1>1 DEF SoundInv
  <1>5. \A s \in Own : Agrees(s)'
    BY <1>2, <1>3, <1>4 DEF PairsOK, Agrees, Midway
  <1>6. ~LockedOut' /\ (~registered' => Recognised' = {})
    BY <1>2, <1>3, <1>4 DEF GoneOK, LockedOut, Recognised
  <1>7. todo' # <<>> => \A s \in Own : Head(todo') \notin {Removed(s), Added(s)}
    <2> SUFFICES ASSUME todo' # <<>> PROVE \A s \in Own : Head(todo') \notin {Removed(s), Added(s)}
      OBVIOUS
    <2>1. PICK t : t = Begin(c, p, sk) /\ todo' = t /\ (c = "deregisterProduct" => p # Base)
      BY <1>1
    <2>2. t \in Seq(Steps(CmdOps(c))) /\ Halves(t)
      BY <1>1, <2>1, BeginOK
    <2> QED
      BY <2>1, <2>2, WholePairs
  <1>8. c \in {"register", "registerProduct"} /\ todo' # <<>> => Head(todo').op = "announce"
    <2>1. ASSUME c = "register", todo' # <<>> PROVE Head(todo').op = "announce"
      <3>1. PICK t : t = Begin("register", Base, sk) /\ todo' = t
        BY <1>1, <2>1
      <3>2. Head(t) = St("announce", Base)
        BY <3>1, FullBegin
      <3> QED
        BY <3>1, <3>2 DEF St
    <2>2. ASSUME c = "registerProduct", todo' # <<>> PROVE Head(todo').op = "announce"
      <3>1. todo' = Do("announce", p) \o registerProduct(p, TRUE, sk)
        BY <1>1, <2>2 DEF Begin
      <3>2. Do("announce", p) = <<St("announce", p)>>
        BY DEF Do, St
      <3>3. PICK r : r = registerProduct(p, TRUE, sk)
        OBVIOUS
      <3>4. PICK yes \in BOOLEAN : yes = TRUE
        OBVIOUS
      <3>5. r = registerProduct(p, yes, sk)
        BY <3>3, <3>4
      <3>6. r \in Seq(Steps(EnableOps))
        BY <3>5, registerProductOK
      <3>7. PICK a : a = <<St("announce", p)>>
        OBVIOUS
      <3>8. r \in Seq(Steps(RegisterOps)) /\ a \in Seq(Steps(RegisterOps))
        <4>1. EnableOps \subseteq RegisterOps /\ "announce" \in RegisterOps /\ p \in Place("announce")
          BY PlaceIs DEF RegisterOps
        <4>2. a \in Seq(Steps(RegisterOps))
          BY <3>2, <3>7, <4>1, DoOK
        <4> QED
          BY <3>6, <4>1, <4>2, MoreSteps
      <3>9. a # <<>> /\ Head(a) = St("announce", p)
        BY <3>7
      <3>10. Head(a \o r) = St("announce", p)
        BY <3>8, <3>9, HeadOfJoin
      <3>11. todo' = a \o r
        BY <3>1, <3>2, <3>3, <3>7
      <3>12. Head(todo') = St("announce", p)
        BY <3>10, <3>11, Zenon
      <3> QED
        BY <3>12 DEF St
    <2> QED
      BY <2>1, <2>2
  <1> QED
    BY <1>1, <1>5, <1>6, <1>7, <1>8 DEF PairsOK, GoneOK, Op

LEMMA NextSound ==
  ASSUME TypeInv, Shape(todo), SoundInv, [Next]_vars
  PROVE  SoundInv'
  <1>1. ASSUME Rests PROVE SoundInv'
    <2>1. UNCHANGED <<sameUrl, alive, registered, services, svcCreds, cmd, todo, faults>>
      BY <1>1 DEF Rests, Known, server, setup
    <2>2. PairsOK => PairsOK'
      BY <2>1 DEF PairsOK, Agrees, Midway
    <2>3. GoneOK => GoneOK'
      BY <2>1 DEF GoneOK, LockedOut, Has, NoCalls, Op, Recognised
    <2> QED
      BY <2>1, <2>2, <2>3 DEF SoundInv
  <1>2. ASSUME Goes PROVE SoundInv'
    <2> SUFFICES ASSUME faults' = 0 PROVE PairsOK' /\ GoneOK'
      BY DEF SoundInv
    <2>1. faults = 0 /\ faults' = faults
      BY <1>2, BoundsAssumption DEF Goes, Continues
    <2> QED
      BY <1>2, <2>1, GoesPairs, GoesGone DEF SoundInv
  <1> QED
    BY <1>1, <1>2, Moves, StopsSound, StartSound

LEMMA InitSound ==
  ASSUME Init
  PROVE  SoundInv
  <1>1. /\ todo = <<>> /\ registered = FALSE /\ services = Foreign
        /\ \A s \in Own : svcCreds[s] = "none" /\ s \notin services
    BY ServicesAssumption DEF Init, Services
  <1> QED
    BY <1>1 DEF SoundInv, PairsOK, Agrees, GoneOK, LockedOut, Recognised

\* As long as no step failed, every command, also one the server refused, ends with
\* services and credentials files that agree, and with no file of a system that is gone.
THEOREM StopsClean == Spec => []CleanStop
  <1>1. Spec => []TypeInv
    BY InitType, NextType, PTL DEF Spec
  <1>2. Init => Shape(todo) /\ SoundInv
    BY NothingShape, InitSound DEF Init
  <1>3. TypeInv /\ Shape(todo) /\ SoundInv /\ [Next]_vars => (Shape(todo) /\ SoundInv)'
    BY NextShape, NextSound
  <1>4. Spec => [](Shape(todo) /\ SoundInv)
    BY <1>1, <1>2, <1>3, PTL DEF Spec
  <1> QED
    BY <1>1, <1>4, SoundImplies, PTL
===============================================================================
