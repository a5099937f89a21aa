------------------------- MODULE ProvisioningProofs -------------------------
(***************************************************************************)
(* Theorems about the provisioning of a node, for any machines, bootstrap  *)
(* data, paths and any of the failures a theorem does not exclude.         *)
(***************************************************************************)
EXTENDS Provisioning, CloudConfigProofs

-----------------------------------------------------------------------------
(* What the commands before the clearing of the node are: none of them     *)
(* ends the attempt when it fails.                                         *)
Early == {Delete({name}) : name \in Scripts}
            \cup {Command("put", {name}, <<Line("text", name)>>, FALSE) :
                     name \in Scripts}
            \cup {Command("exec", {name}, <<>>, FALSE) : name \in Scripts}

(* None of them runs the bootstrap command or edits the unit of kubelet.   *)
LEMMA EarlyCommands ==
    ASSUME NEW c \in Early
    PROVE  c.op \in {"rm", "put", "exec"} /\ ~c.checked
BY DEF Early, Delete, Command

(* The scripts are sent before anything else. *)
LEMMA PreludeEarly ==
    ASSUME NEW m
    PROVE  Prelude(m) \in Seq(Early) /\ Len(Prelude(m)) \in Nat
<1>1. ASSUME NEW name \in Scripts PROVE Script(name) \in Seq(Early)
  <2>1. PICK a, b, c :
           /\ a = Delete({name})
           /\ b = Command("put", {name}, <<Line("text", name)>>, FALSE)
           /\ c = Command("exec", {name}, <<>>, FALSE)
    OBVIOUS
  <2>2. a \in Early /\ b \in Early /\ c \in Early
    BY <2>1 DEF Early
  <2>3. <<a, b, c>> \in Seq(Early)
    BY <2>2
  <2> QED BY <2>1, <2>3 DEF Script
<1>2. PICK k, d, s : /\ k = (IF m \in Masters THEN Script("keepalived.sh")
                             ELSE <<>>)
                     /\ d = Script("docker.sh") /\ s = Script("k8s.sh")
  OBVIOUS
<1>3. k \in Seq(Early) /\ d \in Seq(Early) /\ s \in Seq(Early)
  <2>1. /\ "keepalived.sh" \in Scripts /\ "docker.sh" \in Scripts
        /\ "k8s.sh" \in Scripts
    BY DEF Scripts
  <2>2. <<>> \in Seq(Early)
    OBVIOUS
  <2> QED BY <1>1, <1>2, <2>1, <2>2
<1>4. k \o d \in Seq(Early)
  BY <1>3, ConcatProperties
<1>5. k \o d \o s \in Seq(Early)
  BY <1>3, <1>4, ConcatProperties
<1>6. Prelude(m) = k \o d \o s
  BY <1>2 DEF Prelude
<1> QED BY <1>5, <1>6, LenProperties

(* The writes of the files that were read. *)
Writing(m, j) == Write(Parsed(m).files[j], Echo(Parsed(m).files[j].contents))

(* What a machine with l commands to go sends next, when w files were read.*)
Ahead(m, w, l) == CASE l = 1 -> Run
                    [] l = 2 -> SetProviderID
                    [] l \in 3 .. w + 2 -> Writing(m, w + 3 - l)
                    [] l = w + 3 -> Delete(TmpPaths)
                    [] l = w + 4 -> Delete(PkiPaths)

(* z is s followed by t. *)
Follows(z, s, t) ==
    /\ \E U : z \in Seq(U)
    /\ Len(z) = Len(s) + Len(t) /\ Len(s) \in Nat /\ Len(t) \in Nat
    /\ \A q \in 1 .. Len(s) : z[q] = s[q]
    /\ \A q \in 1 .. Len(t) : z[Len(s) + q] = t[q]

(* Sequences of any elements are joined element by element. *)
LEMMA AnyJoin ==
    ASSUME NEW S, NEW T, NEW s \in Seq(S), NEW t \in Seq(T), NEW z, z = s \o t
    PROVE  Follows(z, s, t)
<1>1. PICK U : U = S \cup T
  OBVIOUS
<1>2. s \in Seq(U) /\ t \in Seq(U)
  BY <1>1, SeqMonotonic
<1>3. Len(s) \in Nat /\ Len(t) \in Nat
  OBVIOUS
<1>4. /\ z \in Seq(U) /\ Len(z) = Len(s) + Len(t)
      /\ \A i \in 1 .. Len(s) + Len(t) : z[i] =
            IF i <= Len(s) THEN s[i] ELSE t[i - Len(s)]
  BY <1>2, ConcatProperties
<1>5. /\ \A q \in 1 .. Len(s) : z[q] = s[q]
      /\ \A q \in 1 .. Len(t) : z[Len(s) + q] = t[q]
  BY <1>3, <1>4
<1> QED BY <1>3, <1>4, <1>5 DEF Follows

(* Everything a machine sends, counted from the end. *)
LEMMA CommandsLaidOut ==
    ASSUME NEW m, NEW d \in DataSet, data[m] = d
    PROVE  \E w, C :
              /\ w \in Nat
              /\ w = Len(Parsed(m).files) /\ C = Commands(m)
              /\ \E S : C \in Seq(S)
              /\ Len(C) \in Nat /\ Len(C) >= w + 4
              /\ \A l \in 1 .. w + 4 : C[Len(C) + 1 - l] = Ahead(m, w, l)
              /\ \A q \in 1 .. Len(C) - (w + 4) : C[q] \in Early
<1>1. PICK read : read = Parsed(m)
  OBVIOUS
<1>2. read.files \in Seq(ReadFile) /\ Len(read.cmds) = 1
      /\ DOMAIN read.cmds = 1 .. 1
  <2>1. d \in BootstrapData /\ Runnable(d)
    BY DataAssumption, ProvisioningAssumption
  <2>2. read = FromBytes(Render(d))
    BY <1>1 DEF Parsed
  <2>3. read \in ReadData
    <3>1. \E last : Commanded(Render(d), last, d.cmds[1])
      BY <2>1, RenderCommanded
    <3>2. Render(d) \in Seq(AnyLine)
      BY <3>1 DEF Commanded
    <3> QED BY <2>2, <3>2, FromBytesTyped
  <2>4. read.cmds = d.cmds /\ Len(d.cmds) = 1
    BY <2>1, <2>2, CommandIsRead DEF Runnable
  <2>5. read.files \in Seq(ReadFile) /\ read.cmds \in Seq(Texts)
    BY <2>3 DEF ReadData
  <2>6. Len(read.cmds) = 1
    BY <2>4
  <2> QED BY <2>5, <2>6, LenProperties
<1>3. PICK w \in Nat : w = Len(read.files) /\ DOMAIN read.files = 1 .. w
  BY <1>2, LenProperties
<1>4. PICK pre, clear, writes, id, run :
         /\ pre = Prelude(m) /\ clear = Clear /\ writes = Writes(m)
         /\ id = <<SetProviderID>>
         /\ run = [i \in DOMAIN Parsed(m).cmds |-> Run]
  OBVIOUS
<1>5. pre \in Seq(Early) /\ \A q \in 1 .. Len(pre) : pre[q] \in Early
  <2>1. pre \in Seq(Early)
    BY <1>4, PreludeEarly
  <2> QED BY <2>1, ElementOfSeq
<1>6. PICK A : /\ clear \in Seq(A)
               /\ Len(clear) = 2 /\ clear[1] = Delete(PkiPaths)
               /\ clear[2] = Delete(TmpPaths)
  <2>1. PICK a, b : a = Delete(PkiPaths) /\ b = Delete(TmpPaths)
    OBVIOUS
  <2>2. clear = <<a, b>>
    BY <1>4, <2>1 DEF Clear
  <2>3. clear \in Seq({a, b}) /\ Len(clear) = 2 /\ clear[1] = a /\ clear[2] = b
    BY <2>2
  <2> QED BY <2>1, <2>3
<1>7. PICK W : /\ writes \in Seq(W) /\ Len(writes) = w
               /\ \A j \in 1 .. w : writes[j] = Writing(m, j)
  <2>1. writes = [j \in 1 .. w |-> Writing(m, j)]
    BY <1>1, <1>3, <1>4 DEF Writes, Writing
  <2>2. PICK W : W = {Writing(m, j) : j \in 1 .. w}
    OBVIOUS
  <2>3. \A j \in 1 .. w : Writing(m, j) \in W
    BY <2>2
  <2>4. writes \in Seq(W) /\ Len(writes) = w
    BY <2>1, <2>3
  <2>5. \A j \in 1 .. w : writes[j] = Writing(m, j)
    BY <2>1
  <2> QED BY <2>4, <2>5
<1>8. id \in Seq({SetProviderID}) /\ Len(id) = 1 /\ id[1] = SetProviderID
  BY <1>4
<1>9. run \in Seq({Run}) /\ Len(run) = 1 /\ run[1] = Run
  BY <1>1, <1>2, <1>4
<1>10. PICK a, b, c, C : /\ a = pre \o clear /\ b = a \o writes /\ c = b \o id
                         /\ C = c \o run
  OBVIOUS
<1>11. C = Commands(m)
  BY <1>4, <1>10 DEF Commands
<1>12. PICK n \in Nat : n = Len(pre)
  BY <1>5
<1>13. PICK S : /\ a \in Seq(S) /\ Len(a) = n + 2
                /\ \A q \in 1 .. n : a[q] = pre[q]
                /\ a[n + 1] = Delete(PkiPaths) /\ a[n + 2] = Delete(TmpPaths)
  <2>1. /\ \E X : a \in Seq(X)
        /\ Len(a) = Len(pre) + Len(clear)
        /\ \A q \in 1 .. Len(pre) : a[q] = pre[q]
        /\ \A q \in 1 .. Len(clear) : a[Len(pre) + q] = clear[q]
    <3>1. a = pre \o clear
      BY <1>10
    <3>2. Follows(a, pre, clear)
      BY <1>5, <1>6, <3>1, AnyJoin
    <3> QED BY <3>2 DEF Follows
  <2>2. Len(clear) = 2 /\ 1 \in 1 .. 2 /\ 2 \in 1 .. 2
    BY <1>6
  <2>3. /\ Len(a) = n + 2 /\ a[n + 1] = clear[1] /\ a[n + 2] = clear[2]
        /\ \A q \in 1 .. n : a[q] = pre[q]
    BY <1>12, <2>1, <2>2
  <2> QED BY <1>6, <2>1, <2>3
<1>14. PICK T : /\ b \in Seq(T) /\ Len(b) = n + 2 + w
                /\ \A q \in 1 .. n + 2 : b[q] = a[q]
                /\ \A j \in 1 .. w : b[n + 2 + j] = Writing(m, j)
  <2>1. /\ \E X : b \in Seq(X)
        /\ Len(b) = Len(a) + Len(writes)
        /\ \A q \in 1 .. Len(a) : b[q] = a[q]
        /\ \A q \in 1 .. Len(writes) : b[Len(a) + q] = writes[q]
    <3>1. b = a \o writes
      BY <1>10
    <3>2. Follows(b, a, writes)
      BY <1>7, <1>13, <3>1, AnyJoin
    <3> QED BY <3>2 DEF Follows
  <2> QED BY <1>7, <1>13, <2>1
<1>15. PICK U : /\ c \in Seq(U) /\ Len(c) = n + 3 + w
                /\ \A q \in 1 .. n + 2 + w : c[q] = b[q]
                /\ c[n + 3 + w] = SetProviderID
  <2>1. /\ \E X : c \in Seq(X)
        /\ Len(c) = Len(b) + Len(id)
        /\ \A q \in 1 .. Len(b) : c[q] = b[q]
        /\ \A q \in 1 .. Len(id) : c[Len(b) + q] = id[q]
    <3>1. c = b \o id
      BY <1>10
    <3>2. Follows(c, b, id)
      BY <1>8, <1>14, <3>1, AnyJoin
    <3> QED BY <3>2 DEF Follows
  <2>2. Len(id) = 1 /\ id[1] = SetProviderID /\ Len(b) = n + 2 + w
    BY <1>8, <1>14
  <2>3. c[(n + 2 + w) + 1] = SetProviderID /\ (n + 2 + w) + 1 = n + 3 + w
    BY <2>1, <2>2
  <2>4. Len(c) = n + 3 + w
    BY <2>1, <2>2
  <2> QED BY <2>1, <2>2, <2>3, <2>4
<1>16. PICK V : /\ C \in Seq(V) /\ Len(C) = n + 4 + w
                /\ \A q \in 1 .. n + 3 + w : C[q] = c[q]
                /\ C[n + 4 + w] = Run
  <2>1. /\ \E X : C \in Seq(X)
        /\ Len(C) = Len(c) + Len(run)
        /\ \A q \in 1 .. Len(c) : C[q] = c[q]
        /\ \A q \in 1 .. Len(run) : C[Len(c) + q] = run[q]
    <3>1. C = c \o run
      BY <1>10
    <3>2. Follows(C, c, run)
      BY <1>9, <1>15, <3>1, AnyJoin
    <3> QED BY <3>2 DEF Follows
  <2>2. Len(run) = 1 /\ run[1] = Run /\ Len(c) = n + 3 + w
    BY <1>9, <1>15
  <2>3. C[(n + 3 + w) + 1] = Run /\ (n + 3 + w) + 1 = n + 4 + w
    BY <2>1, <2>2
  <2>4. Len(C) = n + 4 + w
    BY <2>1, <2>2
  <2> QED BY <2>1, <2>2, <2>3, <2>4
<1>17. ASSUME NEW l \in 1 .. w + 4 PROVE C[n + 4 + w + 1 - l] = Ahead(m, w, l)
  <2>1. CASE l = 1
    <3>1. n + 4 + w + 1 - l = n + 4 + w
      BY <2>1
    <3> QED BY <1>16, <2>1, <3>1 DEF Ahead
  <2>2. CASE l = 2
    <3>1. n + 4 + w + 1 - l = n + 3 + w /\ n + 3 + w \in 1 .. n + 3 + w
      BY <2>2
    <3>2. C[n + 3 + w] = SetProviderID
      BY <1>15, <1>16, <3>1
    <3> QED BY <2>2, <3>1, <3>2 DEF Ahead
  <2>3. CASE l \in 3 .. w + 2
    <3>1. PICK j \in 1 .. w : j = w + 3 - l
      BY <2>3
    <3>2. /\ n + 4 + w + 1 - l = n + 2 + j /\ n + 2 + j \in 1 .. n + 2 + w
          /\ n + 2 + j \in 1 .. n + 3 + w
      BY <3>1
    <3>3. C[n + 2 + j] = Writing(m, j)
      BY <1>14, <1>15, <1>16, <3>2
    <3>4. Ahead(m, w, l) = Writing(m, w + 3 - l)
      BY <2>3 DEF Ahead
    <3> QED BY <3>1, <3>2, <3>3, <3>4
  <2>4. CASE l = w + 3
    <3>1. /\ n + 4 + w + 1 - l = n + 2 /\ n + 2 \in 1 .. n + 2
          /\ n + 2 \in 1 .. n + 2 + w /\ n + 2 \in 1 .. n + 3 + w
      BY <2>4
    <3>2. C[n + 2] = Delete(TmpPaths)
      BY <1>13, <1>14, <1>15, <1>16, <3>1
    <3>3. l # 1 /\ l # 2 /\ l \notin 3 .. w + 2
      BY <2>4
    <3>4. Ahead(m, w, l) = Delete(TmpPaths)
      BY <2>4, <3>3 DEF Ahead
    <3> QED BY <3>1, <3>2, <3>4
  <2>5. CASE l = w + 4
    <3>1. /\ n + 4 + w + 1 - l = n + 1 /\ n + 1 \in 1 .. n + 2
          /\ n + 1 \in 1 .. n + 2 + w /\ n + 1 \in 1 .. n + 3 + w
      BY <2>5
    <3>2. C[n + 1] = Delete(PkiPaths)
      BY <1>13, <1>14, <1>15, <1>16, <3>1
    <3>3. l # 1 /\ l # 2 /\ l \notin 3 .. w + 2 /\ l # w + 3
      BY <2>5
    <3>4. Ahead(m, w, l) = Delete(PkiPaths)
      BY <2>5, <3>3 DEF Ahead
    <3> QED BY <3>1, <3>2, <3>4
  <2>6. l = 1 \/ l = 2 \/ l \in 3 .. w + 2 \/ l = w + 3 \/ l = w + 4
    OBVIOUS
  <2> QED BY <2>1, <2>2, <2>3, <2>4, <2>5, <2>6
<1>18. ASSUME NEW q \in 1 .. n PROVE C[q] \in Early
  <2>1. q \in 1 .. n + 2 /\ q \in 1 .. n + 2 + w /\ q \in 1 .. n + 3 + w
    OBVIOUS
  <2>2. C[q] = pre[q]
    BY <1>13, <1>14, <1>15, <1>16, <2>1
  <2> QED BY <1>5, <1>12, <2>2
<1>19. Len(C) = n + 4 + w /\ Len(C) \in Nat /\ Len(C) >= w + 4
       /\ 1 .. Len(C) - (w + 4) = 1 .. n
  <2>1. Len(C) = n + 4 + w
    BY <1>16
  <2> QED BY <2>1
<1>20. w = Len(Parsed(m).files) /\ \E R : C \in Seq(R)
  BY <1>1, <1>3, <1>16
<1>21. \A l \in 1 .. w + 4 : C[Len(C) + 1 - l] = Ahead(m, w, l)
  BY <1>17, <1>19
<1>22. \A q \in 1 .. Len(C) - (w + 4) : C[q] \in Early
  BY <1>18, <1>19
<1>23. Len(C) \in Nat /\ Len(C) >= w + 4
  BY <1>19
<1> QED BY <1>11, <1>20, <1>21, <1>22, <1>23

----------------------------------------------------------------------------
(* An attempt is for a machine with data of its own, and what it has still *)
(* to send is the rest of the machine's commands.                          *)
TodoInv ==
    attempt # None =>
        /\ attempt \in Machines /\ data[attempt] \in DataSet
        /\ \E S : todo \in Seq(S)
        /\ Len(todo) \in 1 .. Len(Commands(attempt))
        /\ \A q \in 1 .. Len(todo) :
              todo[q] = Commands(attempt)[Len(Commands(attempt)) - Len(todo) + q]

(* The next command, counted from the end. *)
LEMMA NextCommand ==
    ASSUME TodoInv, attempt # None
    PROVE  \E w \in Nat, l \in Nat \ {0} :
              /\ w = Len(Parsed(attempt).files) /\ l = Len(todo)
              /\ l <= w + 4 => Head(todo) = Ahead(attempt, w, l)
              /\ l > w + 4 => Head(todo) \in Early
<1>1. PICK m \in Machines, d \in DataSet : m = attempt /\ data[m] = d
  BY DEF TodoInv
<1>2. PICK w, C :
              /\ w \in Nat
              /\ w = Len(Parsed(m).files) /\ C = Commands(m)
              /\ \E S : C \in Seq(S)
              /\ Len(C) \in Nat /\ Len(C) >= w + 4
              /\ \A l \in 1 .. w + 4 : C[Len(C) + 1 - l] = Ahead(m, w, l)
              /\ \A q \in 1 .. Len(C) - (w + 4) : C[q] \in Early
  BY <1>1, CommandsLaidOut
<1>3. PICK n, l : n \in Nat /\ n = Len(C) /\ l = Len(todo)
  BY <1>2
<1>4. /\ l \in 1 .. n /\ \E S : todo \in Seq(S)
      /\ \A q \in 1 .. l : todo[q] = C[n - l + q]
  BY <1>1, <1>2, <1>3 DEF TodoInv
<1>5. Head(todo) = C[n - l + 1]
  <2>1. todo # <<>>
    BY <1>3, <1>4
  <2>2. Head(todo) = todo[1]
    BY <1>4, <2>1, HeadTailProperties
  <2>3. 1 \in 1 .. l
    BY <1>4
  <2> QED BY <1>4, <2>2, <2>3
<1>6. l <= w + 4 => Head(todo) = Ahead(m, w, l)
  <2> SUFFICES ASSUME l <= w + 4 PROVE Head(todo) = Ahead(m, w, l)
    OBVIOUS
  <2>1. l \in 1 .. w + 4 /\ n - l + 1 = n + 1 - l
    BY <1>2, <1>3, <1>4
  <2>2. C[n + 1 - l] = Ahead(m, w, l)
    BY <1>2, <1>3, <2>1
  <2> QED BY <1>5, <2>1, <2>2
<1>7. l > w + 4 => Head(todo) \in Early
  <2> SUFFICES ASSUME l > w + 4 PROVE Head(todo) \in Early
    OBVIOUS
  <2>1. n - l + 1 \in 1 .. n - (w + 4)
    BY <1>2, <1>3, <1>4
  <2> QED BY <1>2, <1>3, <1>5, <2>1
<1>8. l \in Nat \ {0}
  BY <1>4
<1> QED BY <1>1, <1>2, <1>3, <1>6, <1>7, <1>8

(* A command that did not end the attempt leaves the rest of them. *)
LEMMA GoesOn ==
    ASSUME TodoInv, attempt # None, GoOn
    PROVE  /\ data' = data
           /\ Len(todo) = 1 => attempt' = None /\ outcome' = "ok"
           /\ Len(todo) # 1 => /\ attempt' = attempt /\ outcome' = outcome
                               /\ Len(todo') = Len(todo) - 1
           /\ TodoInv'
<1>1. PICK C, l : C = Commands(attempt) /\ l = Len(todo)
  OBVIOUS
<1>2. PICK S : todo \in Seq(S)
  BY DEF TodoInv
<1>3. /\ l \in Nat /\ l \in 1 .. Len(C)
      /\ attempt \in Machines /\ data[attempt] \in DataSet
      /\ \A q \in 1 .. l : todo[q] = C[Len(C) - l + q]
  <2>1. l \in Nat
    BY <1>1, <1>2
  <2> QED BY <1>1, <2>1 DEF TodoInv
<1>4. data' = data
  BY DEF GoOn, Finish
<1>5. CASE l = 1
  BY <1>1, <1>4, <1>5 DEF GoOn, Finish, TodoInv
<1>6. CASE l # 1
  <2>1. l > 1
    BY <1>3, <1>6
  <2>2. todo' = Tail(todo) /\ attempt' = attempt /\ outcome' = outcome
    BY <1>1, <2>1 DEF GoOn
  <2>3. todo # <<>>
    BY <1>1, <2>1
  <2>4. /\ todo' \in Seq(S) /\ Len(todo') = l - 1
        /\ \A q \in 1 .. l - 1 : todo'[q] = todo[q + 1]
    <3>1. /\ Tail(todo) \in Seq(S) /\ Len(Tail(todo)) = Len(todo) - 1
          /\ \A i \in 1 .. Len(Tail(todo)) : Tail(todo)[i] = todo[i + 1]
      BY <1>2, <2>3, HeadTailProperties
    <3> QED BY <1>1, <2>2, <3>1
  <2>5. Commands(attempt)' = C
    BY <1>1, <1>4, <2>2 DEF Commands, Writes, Parsed
  <2>6. PICK n : n = Len(C)
    OBVIOUS
  <2>7. n \in Int /\ l - 1 \in 1 .. n
    BY <1>3, <2>1, <2>6
  <2>8. \A q \in 1 .. l - 1 : todo'[q] = C[n - (l - 1) + q]
    <3> TAKE q \in 1 .. l - 1
    <3>1. q + 1 \in 1 .. l /\ n - l + (q + 1) = n - (l - 1) + q
      BY <1>3, <2>7
    <3>2. todo[q + 1] = C[n - l + (q + 1)]
      BY <1>3, <2>6, <3>1
    <3> QED BY <2>4, <3>1, <3>2
  <2>9. TodoInv'
    <3>1. /\ attempt' \in Machines /\ data'[attempt'] \in DataSet
          /\ \E R : todo' \in Seq(R)
      BY <1>3, <1>4, <2>2, <2>4
    <3>2. Len(todo') \in 1 .. Len(Commands(attempt)')
      BY <2>4, <2>5, <2>6, <2>7
    <3>3. \A q \in 1 .. Len(todo') : todo'[q] = Commands(attempt)'[
             Len(Commands(attempt)') - Len(todo') + q]
      BY <2>4, <2>5, <2>6, <2>8
    <3> QED BY <3>1, <3>2, <3>3 DEF TodoInv
  <2> QED BY <1>1, <1>4, <1>6, <2>2, <2>4, <2>9
<1> QED BY <1>5, <1>6

(* What a step does to the attempt, whichever it is. *)
LEMMA AttemptSteps ==
    ASSUME TodoInv, [Next]_vars
    PROVE  \/ UNCHANGED vars
           \/ attempt = None /\ (\E m \in Machines : Connect(m))
           \/ attempt = None /\ (\E m \in Machines : ConnectFails(m))
           \/ attempt = None /\ Reset
           \/ attempt # None /\ Drop
           \/ attempt # None /\ SendFails
           \/ attempt # None /\ GoOn
                /\ (SendRemove \/ SendPut \/ SendExec \/ SendProviderID \/ SendRun)
<1>1. SendRemove \/ SendPut \/ SendExec \/ SendProviderID \/ SendRun
         => attempt # None /\ GoOn
  BY DEF SendRemove, SendPut, SendExec, SendProviderID, SendRun, Sends
<1>2. \A m \in Machines : Connect(m) \/ ConnectFails(m) => attempt = None
  BY DEF Connect, ConnectFails
<1>3. Reset => attempt = None
  BY DEF Reset
<1>4. SendFails \/ Drop => attempt # None
  BY DEF SendFails, Drop
<1> QED BY <1>1, <1>2, <1>3, <1>4 DEF Next

(* At the start there is no attempt.                                       *)
LEMMA TodoInitially == Init => TodoInv
BY DEF Init, TodoInv

(* A connection starts with all the commands of the machine; every other   *)
(* step sends the first of the rest or ends the attempt.                   *)
LEMMA TodoNext ==
    ASSUME TodoInv, [Next]_vars
    PROVE  TodoInv'
<1>1. CASE UNCHANGED vars
  BY <1>1 DEF vars, nodeVars, TodoInv, Commands, Writes, Parsed
<1>2. ASSUME NEW m \in Machines, Connect(m) PROVE TodoInv'
  <2>1. /\ attempt' = m /\ todo' = Commands(m) /\ data' = data
        /\ data[m] \in DataSet
    BY <1>2 DEF Connect
  <2>2. PICK w, C :
              /\ w \in Nat
              /\ C = Commands(m) /\ \E S : C \in Seq(S)
              /\ Len(C) \in Nat /\ Len(C) >= w + 4
    <3>1. PICK d \in DataSet : data[m] = d
      BY <2>1
    <3> QED BY <3>1, CommandsLaidOut
  <2>3. Commands(attempt)' = C /\ todo' = C
    BY <2>1, <2>2 DEF Commands, Writes, Parsed
  <2>4. PICK n \in Nat : n = Len(C) /\ n \in 1 .. n
    BY <2>2
  <2>5. \A q \in 1 .. n : n - n + q = q
    OBVIOUS
  <2>6. \A q \in 1 .. Len(todo') : todo'[q] = Commands(attempt)'[
             Len(Commands(attempt)') - Len(todo') + q]
    BY <2>3, <2>4, <2>5
  <2>7. /\ attempt' \in Machines /\ data'[attempt'] \in DataSet
        /\ \E R : todo' \in Seq(R)
        /\ Len(todo') \in 1 .. Len(Commands(attempt)')
    BY <2>1, <2>2, <2>3, <2>4
  <2> QED BY <2>6, <2>7 DEF TodoInv
<1>3. ASSUME NEW m \in Machines, ConnectFails(m) PROVE TodoInv'
  BY <1>3 DEF ConnectFails, Finish, TodoInv
<1>4. CASE attempt = None /\ Reset
  BY <1>4 DEF Reset, TodoInv
<1>5. CASE Drop
  BY <1>5 DEF Drop, Finish, TodoInv
<1>6. CASE attempt # None /\ SendFails
  <2>1. GoOn \/ Finish("error")
    BY <1>6 DEF SendFails
  <2> QED BY <1>6, <2>1, GoesOn DEF Finish, TodoInv
<1>7. CASE attempt # None /\ GoOn
  BY <1>7, GoesOn
<1> QED BY <1>1, <1>2, <1>3, <1>4, <1>5, <1>6, <1>7, AttemptSteps

-----------------------------------------------------------------------------
(* The commands that are to come last, by what tells them apart. *)
LEMMA LastCommands ==
    ASSUME TodoInv, attempt # None
    PROVE  /\ Len(todo) = 1 => Head(todo) = Run
           /\ Len(todo) = 2 => Head(todo) = SetProviderID
           /\ Head(todo).op = "run" => Len(todo) = 1
<1>1. PICK w \in Nat, l \in Nat \ {0} :
              /\ w = Len(Parsed(attempt).files) /\ l = Len(todo)
              /\ l <= w + 4 => Head(todo) = Ahead(attempt, w, l)
              /\ l > w + 4 => Head(todo) \in Early
  BY NextCommand
<1>2. l = 1 => Head(todo) = Run
  BY <1>1 DEF Ahead
<1>3. l = 2 => Head(todo) = SetProviderID
  <2>1. l = 2 => l <= w + 4 /\ l # 1
    BY <1>1
  <2> QED BY <1>1, <2>1 DEF Ahead
<1>4. ASSUME l # 1 PROVE Head(todo).op # "run"
  <2>1. CASE l > w + 4
    BY <1>1, <2>1, EarlyCommands
  <2>2. CASE l = 2
    BY <1>3, <2>2 DEF SetProviderID, Command
  <2>3. CASE l \in 3 .. w + 2
    <3>1. l <= w + 4 /\ l # 2
      BY <2>3
    <3>2. Head(todo) = Writing(attempt, w + 3 - l)
      BY <1>1, <1>4, <2>3, <3>1 DEF Ahead
    <3> QED BY <3>2 DEF Writing, Write, Command
  <2>4. CASE l = w + 3
    <3>1. l <= w + 4 /\ l # 2 /\ l \notin 3 .. w + 2
      BY <1>4, <2>4
    <3>2. Head(todo) = Delete(TmpPaths)
      BY <1>1, <1>4, <2>4, <3>1 DEF Ahead
    <3> QED BY <3>2 DEF Delete, Command
  <2>5. CASE l = w + 4
    <3>1. l <= w + 4 /\ l # 2 /\ l \notin 3 .. w + 2 /\ l # w + 3
      BY <1>4, <2>5
    <3>2. Head(todo) = Delete(PkiPaths)
      BY <1>1, <1>4, <2>5, <3>1 DEF Ahead
    <3> QED BY <3>2 DEF Delete, Command
  <2>6. l > w + 4 \/ l = 2 \/ l \in 3 .. w + 2 \/ l = w + 3 \/ l = w + 4
    BY <1>4
  <2> QED BY <2>1, <2>2, <2>3, <2>4, <2>5, <2>6
<1> QED BY <1>1, <1>2, <1>3, <1>4

-----------------------------------------------------------------------------
(* Whatever fails, an attempt succeeds only with its machine's bootstrap   *)
(* command, and one attempt is made at a time.                             *)
THEOREM AttemptsJoin == Spec => SucceedsOnlyJoined
<1>1. Init => Attempts!Init
  BY DEF Init, Attempts!Init
<1>2. ASSUME TodoInv, [Next]_vars
      PROVE  [Attempts!Next]_(Attempts!attemptVars)
  <2>1. CASE UNCHANGED vars
    BY <2>1 DEF vars, nodeVars, Attempts!attemptVars
  <2>2. ASSUME NEW m \in Machines, Connect(m) PROVE Attempts!Begin
    BY <2>2 DEF Connect, nodeVars, Attempts!Begin
  <2>3. ASSUME NEW m \in Machines, ConnectFails(m) PROVE Attempts!Fail
    BY <2>3 DEF ConnectFails, Finish, nodeVars, Attempts!Fail
  <2>4. CASE attempt = None /\ Reset
    BY <2>4 DEF Reset, Attempts!Next, Attempts!Reset
  <2>5. CASE Drop
    BY <2>5 DEF Drop, Finish, nodeVars, Attempts!Next, Attempts!Fail
  <2>6. CASE attempt # None /\ SendFails
    <3>1. CASE Head(todo).checked
      BY <2>6, <3>1 DEF SendFails, Finish, Attempts!Next, Attempts!Fail
    <3>2. CASE ~Head(todo).checked
      <4>1. Len(todo) # 1
        BY <1>2, <2>6, <3>2, LastCommands DEF Run, Command
      <4>2. GoOn /\ joined' = joined
        BY <2>6, <3>2 DEF SendFails
      <4> QED BY <1>2, <2>6, <4>1, <4>2, GoesOn DEF Attempts!attemptVars
    <3> QED BY <3>1, <3>2
  <2>7. CASE attempt # None /\ GoOn /\ SendRun
    <3>1. Len(todo) = 1 /\ joined' = attempt
      BY <1>2, <2>7, LastCommands DEF SendRun, Sends
    <3> QED BY <1>2, <2>7, <3>1, GoesOn DEF Attempts!Next, Attempts!Succeed
  <2>8. CASE /\ attempt # None /\ GoOn
             /\ SendRemove \/ SendPut \/ SendExec \/ SendProviderID
    <3>1. Head(todo).op # "run" /\ joined' = joined
      BY <2>8 DEF SendRemove, SendPut, SendExec, SendProviderID, Sends
    <3>2. Len(todo) # 1
      BY <1>2, <2>8, <3>1, LastCommands DEF Run, Command
    <3> QED BY <1>2, <2>8, <3>1, <3>2, GoesOn DEF Attempts!attemptVars
  <2> QED BY <1>2, <2>1, <2>2, <2>3, <2>4, <2>5, <2>6, <2>7, <2>8,
             AttemptSteps DEF Attempts!Next
<1>3. TodoInv /\ [Next]_vars => TodoInv'
  BY TodoNext
<1> QED BY <1>1, <1>2, <1>3, TodoInitially, PTL
           DEF Spec, SucceedsOnlyJoined, Attempts!Spec

-----------------------------------------------------------------------------
(* Before the bootstrap command kubelet's unit names the node. *)
KubeletInv == attempt # None /\ Len(todo) = 1 => kubelet

(* When the command that sets the providerID cannot fail, kubelet's unit   *)
(* names the node when the machine joins, whatever an earlier attempt left.*)
THEOREM MachinesJoinIdentified ==
    ASSUME "kubelet" \notin Failures
    PROVE  Spec => []JoinsIdentified
<1>1. Init => KubeletInv
  BY DEF Init, KubeletInv
<1>2. ASSUME TodoInv, KubeletInv, [Next]_vars PROVE KubeletInv'
  <2>1. CASE UNCHANGED vars
    BY <1>2, <2>1 DEF vars, nodeVars, KubeletInv
  <2>2. ASSUME NEW m \in Machines, Connect(m) PROVE KubeletInv'
    <3>1. todo' = Commands(m) /\ \E d \in DataSet : data[m] = d
      BY <2>2 DEF Connect
    <3>2. Len(Commands(m)) \in Nat /\ Len(Commands(m)) >= 4
      BY <3>1, CommandsLaidOut
    <3> QED BY <3>1, <3>2 DEF KubeletInv
  <2>3. ASSUME NEW m \in Machines, ConnectFails(m) PROVE KubeletInv'
    BY <2>3 DEF ConnectFails, Finish, KubeletInv
  <2>4. CASE attempt = None /\ Reset
    BY <2>4 DEF Reset, KubeletInv
  <2>5. CASE Drop
    BY <2>5 DEF Drop, Finish, KubeletInv
  <2>6. CASE attempt # None /\ GoOn /\ Len(todo) = 1
    BY <1>2, <2>6, GoesOn DEF KubeletInv
  <2>7. CASE attempt # None /\ GoOn /\ Len(todo) # 1 /\ Len(todo) # 2
    <3>1. Len(todo') = Len(todo) - 1 /\ Len(todo) \in Int
      BY <1>2, <2>7, GoesOn, NextCommand
    <3>2. Len(todo') # 1
      BY <2>7, <3>1
    <3> QED BY <3>2 DEF KubeletInv
  <2>8. CASE attempt # None /\ Len(todo) = 2
    <3>1. Head(todo).op = "kubelet"
      BY <1>2, <2>8, LastCommands DEF SetProviderID, Command
    <3>2. CASE SendFails
      BY <3>1, <3>2 DEF SendFails
    <3>3. CASE SendRemove \/ SendPut \/ SendExec \/ SendRun
      BY <3>1, <3>3 DEF SendRemove, SendPut, SendExec, SendRun, Sends
    <3>4. CASE SendProviderID
      BY <3>4 DEF SendProviderID, KubeletInv
    <3> QED BY <1>2, <2>1, <2>5, <2>8, <3>2, <3>3, <3>4, AttemptSteps
  <2>9. CASE attempt # None /\ SendFails /\ ~GoOn
    BY <2>9 DEF SendFails, Finish, KubeletInv
  <2> QED BY <1>2, <2>1, <2>2, <2>3, <2>4, <2>5, <2>6, <2>7, <2>8, <2>9,
             AttemptSteps
<1>3. TodoInv /\ KubeletInv => JoinsIdentified
  BY LastCommands DEF KubeletInv, JoinsIdentified, Sends
<1>4. TodoInv /\ [Next]_vars => TodoInv'
  BY TodoNext
<1> QED BY <1>1, <1>2, <1>3, <1>4, TodoInitially, PTL DEF Spec

----------------------------------------------------------------------------
(* One step of the recursion in Echo, and the function it defines. *)
SentAt(lines, f, i) == IF i = 0 THEN <<>> ELSE Echoed(f[i - 1], lines[i])

SentOf(lines) ==
    CHOOSE f : f = [i \in 0 .. Len(lines) |-> SentAt(lines, f, i)]

(* Echo is the last element of its recursion. *)
LEMMA EchoIsSent ==
    ASSUME NEW contents, NEW lines, lines = Solid(contents)
    PROVE  Echo(contents) = SentOf(lines)[Len(lines)]
BY DEF Echo, SentOf, SentAt

(* The first i lines are the first i - 1 and line i. *)
LEMMA FirstLines ==
    ASSUME NEW lines \in Seq(AnyLine), NEW i \in 1 .. Len(lines)
    PROVE  /\ SubSeq(lines, 1, i) = Append(SubSeq(lines, 1, i - 1), lines[i])
           /\ i = 1 => SubSeq(lines, 1, i - 1) = <<>>
           /\ i # 1 => /\ SubSeq(lines, 1, i - 1) # <<>>
                       /\ Last(SubSeq(lines, 1, i - 1)) = lines[i - 1]
<1>1. PICK n \in Nat : n = Len(lines) /\ i \in 1 .. n
  BY LenProperties
<1>2. PICK s, t : s = SubSeq(lines, 1, i) /\ t = SubSeq(lines, 1, i - 1)
  OBVIOUS
<1>3. \A q \in 1 .. n : lines[q] \in AnyLine
  BY <1>1
<1>4. /\ s \in Seq(AnyLine) /\ Len(s) = i
      /\ \A q \in 1 .. i : s[q] = lines[q]
  <2>1. \A q \in 1 .. i : lines[q] \in AnyLine
    BY <1>1, <1>3
  <2>2. /\ s \in Seq(AnyLine) /\ Len(s) = IF 1 <= i THEN i - 1 + 1 ELSE 0
        /\ \A q \in 1 .. i - 1 + 1 : s[q] = lines[1 + q - 1]
    BY <1>1, <1>2, <2>1, SubSeqProperties
  <2> QED BY <1>1, <2>2
<1>5. /\ t \in Seq(AnyLine) /\ Len(t) = i - 1
      /\ \A q \in 1 .. i - 1 : t[q] = lines[q]
  <2>1. PICK k \in Nat : k = i - 1
    BY <1>1
  <2>2. \A q \in 1 .. k : lines[q] \in AnyLine
    BY <1>1, <1>3, <2>1
  <2>3. /\ t \in Seq(AnyLine) /\ Len(t) = IF 1 <= k THEN k - 1 + 1 ELSE 0
        /\ \A q \in 1 .. k - 1 + 1 : t[q] = lines[1 + q - 1]
    BY <1>1, <1>2, <2>1, <2>2, SubSeqProperties
  <2> QED BY <1>1, <2>1, <2>3
<1>6. PICK u : u = Append(t, lines[i])
  OBVIOUS
<1>7. /\ u \in Seq(AnyLine) /\ Len(u) = i /\ u[i] = lines[i]
      /\ \A q \in 1 .. i - 1 : u[q] = t[q]
  <2>1. lines[i] \in AnyLine
    BY <1>1, <1>3
  <2>2. /\ u \in Seq(AnyLine) /\ Len(u) = Len(t) + 1
        /\ \A q \in 1 .. Len(t) : u[q] = t[q]
        /\ u[Len(t) + 1] = lines[i]
    BY <1>5, <1>6, <2>1, AppendProperties
  <2> QED BY <1>1, <1>5, <2>2
<1>8. s = u
  <2>1. \A q \in 1 .. Len(s) : s[q] = u[q]
    <3> TAKE q \in 1 .. Len(s)
    <3>1. q \in 1 .. i - 1 \/ q = i
      BY <1>1, <1>4
    <3> QED BY <1>1, <1>4, <1>5, <1>7, <3>1
  <2> QED BY <1>4, <1>7, <2>1, SeqEqual
<1>9. i = 1 => t = <<>>
  BY <1>5, EmptySeq
<1>10. i # 1 => t # <<>> /\ Last(t) = lines[i - 1]
  <2> SUFFICES ASSUME i # 1 PROVE t # <<>> /\ Last(t) = lines[i - 1]
    OBVIOUS
  <2>1. i - 1 \in 1 .. i - 1
    BY <1>1
  <2>2. t[Len(t)] = lines[i - 1]
    BY <1>5, <2>1
  <2>3. t # <<>>
    BY <1>5, <2>1
  <2> QED BY <2>2, <2>3 DEF Last
<1> QED BY <1>2, <1>6, <1>8, <1>9, <1>10

(* When the name of the node can only be the last of them, the lines are   *)
(* sent as they are: nothing is glued to the name.                         *)
LEMMA SentWhole ==
    ASSUME NEW lines \in Seq(AnyLine),
           \A i \in 1 .. Len(lines) : lines[i].kind = "name" => i = Len(lines)
    PROVE  SentOf(lines)[Len(lines)] = lines
<1>1. PICK n \in Nat : n = Len(lines)
  BY LenProperties
<1>2. PICK f : f = [i \in 0 .. n |-> SubSeq(lines, 1, i)]
  OBVIOUS
<1>3. f[0] = <<>>
  BY <1>1, <1>2, SubSeqProperties
<1>4. \A i \in 1 .. n : Echoed(f[i - 1], lines[i]) = f[i]
  <2> TAKE i \in 1 .. n
  <2>1. i - 1 \in 0 .. n /\ i \in 0 .. n /\ i \in 1 .. Len(lines)
    BY <1>1
  <2>2. /\ f[i] = Append(f[i - 1], lines[i])
        /\ i = 1 => f[i - 1] = <<>>
        /\ i # 1 => f[i - 1] # <<>> /\ Last(f[i - 1]) = lines[i - 1]
    BY <1>2, <2>1, FirstLines
  <2>3. i # 1 => lines[i - 1].kind # "name"
    <3>1. i # 1 => i - 1 \in 1 .. Len(lines) /\ i - 1 # Len(lines)
      BY <1>1
    <3> QED BY <3>1
  <2> QED BY <2>2, <2>3 DEF Echoed
<1>5. \E g : g = [i \in 0 .. Len(lines) |-> SentAt(lines, g, i)]
  <2>1. \A i \in 0 .. n : SentAt(lines, f, i) = f[i]
    <3> TAKE i \in 0 .. n
    <3>1. i = 0 \/ i \in 1 .. n
      OBVIOUS
    <3> QED BY <1>3, <1>4, <3>1 DEF SentAt
  <2>2. f = [i \in 0 .. n |-> SentAt(lines, f, i)]
    BY <1>2, <2>1
  <2> QED BY <1>1, <2>2
<1>6. SentOf(lines) = [i \in 0 .. Len(lines) |-> SentAt(lines, SentOf(lines), i)]
  BY <1>5, Zenon DEF SentOf
<1>7. PICK g : g = SentOf(lines)
  OBVIOUS
<1>8. \A i \in 0 .. n : g[i] = SentAt(lines, g, i)
  BY <1>1, <1>6, <1>7
<1>9. PICK Same : Same = {i \in 0 .. n : g[i] = f[i]}
  OBVIOUS
<1>10. 0 \in Same
  <2>1. 0 \in 0 .. n
    OBVIOUS
  <2>2. g[0] = <<>>
    BY <1>8, <2>1 DEF SentAt
  <2> QED BY <1>3, <1>9, <2>1, <2>2
<1>11. \A i \in 1 .. n : i - 1 \in Same => i \in Same
  <2> SUFFICES ASSUME NEW i \in 1 .. n, i - 1 \in Same PROVE i \in Same
    OBVIOUS
  <2>1. i \in 0 .. n /\ i # 0
    OBVIOUS
  <2>2. g[i] = Echoed(g[i - 1], lines[i])
    BY <1>8, <2>1 DEF SentAt
  <2>3. g[i - 1] = f[i - 1]
    BY <1>9
  <2>4. g[i] = f[i]
    BY <1>4, <2>2, <2>3
  <2> QED BY <1>9, <2>1, <2>4
<1>12. n \in Same
  <2>1. 0 .. n \subseteq Same
    BY <1>10, <1>11, FromZero
  <2> QED BY <2>1
<1>13. g[n] = SubSeq(lines, 1, n)
  <2>1. n \in 0 .. n
    OBVIOUS
  <2> QED BY <1>2, <1>9, <1>12, <2>1
<1>14. SubSeq(lines, 1, n) = lines
  <2>1. PICK s : s = SubSeq(lines, 1, n)
    OBVIOUS
  <2>2. \A q \in 1 .. n : lines[q] \in AnyLine
    BY <1>1
  <2>3. /\ s \in Seq(AnyLine) /\ Len(s) = IF 1 <= n THEN n - 1 + 1 ELSE 0
        /\ \A q \in 1 .. n - 1 + 1 : s[q] = lines[1 + q - 1]
    BY <2>1, <2>2, SubSeqProperties
  <2>4. Len(s) = n /\ \A q \in 1 .. n : s[q] = lines[q]
    BY <2>3
  <2> QED BY <1>1, <2>1, <2>3, <2>4, SeqEqual
<1> QED BY <1>1, <1>7, <1>13, <1>14

(* The lines kept of a file are lines. *)
LEMMA SolidTyped ==
    ASSUME NEW body \in Seq(AnyLine)
    PROVE  Solid(body) \in Seq(AnyLine)
<1>1. Len(body) \in 0 .. Len(body)
  BY LenProperties
<1> QED BY <1>1, KeptKeeps, SolidIsKept

(* A write puts, at the path of the machine's own file, its own lines. *)
LEMMA WritesOwn ==
    ASSUME NEW m, NEW d \in DataSet, data[m] = d, KubeadmShaped(d)
    PROVE  /\ Len(Parsed(m).files) = Len(d.files)
           /\ \A j \in DOMAIN d.files :
                 /\ Writing(m, j).paths = {d.files[j].path}
                 /\ Writing(m, j).lines = Solid(d.files[j].body)
                 /\ Solid(d.files[j].body) \in Seq(AnyLine)
<1>1. d \in BootstrapData
  BY DataAssumption
<1>2. /\ Len(Parsed(m).files) = Len(d.files)
      /\ \A j \in DOMAIN d.files : ReadOf(Parsed(m).files[j], d.files[j])
  BY <1>1, FilesAreRead DEF Parsed
<1>3. ASSUME NEW j \in DOMAIN d.files
      PROVE  /\ Writing(m, j).paths = {d.files[j].path}
             /\ Writing(m, j).lines = Solid(d.files[j].body)
             /\ Solid(d.files[j].body) \in Seq(AnyLine)
  <2>1. PICK f, file : f = Parsed(m).files[j] /\ file = d.files[j]
    OBVIOUS
  <2>2. ReadOf(f, file)
    BY <1>2, <2>1
  <2>3. PICK lines : lines = Solid(f.contents)
    OBVIOUS
  <2>4. lines \in Seq(AnyLine) /\ lines = Solid(file.body)
    <3>1. f.contents \in Seq(AnyLine)
      BY <2>2 DEF ReadOf, ReadFile
    <3> QED BY <2>2, <2>3, <3>1, SolidTyped DEF ReadOf
  <2>5. \A i \in 1 .. Len(lines) : lines[i].kind = "name" => i = Len(lines)
    <3>1. OnlyLast(file, "name")
      BY <2>1 DEF KubeadmShaped
    <3>2. DOMAIN lines = 1 .. Len(lines)
      BY <2>4, LenProperties
    <3> QED BY <2>4, <3>1, <3>2 DEF OnlyLast
  <2>6. Echo(f.contents) = lines
    <3>1. Echo(f.contents) = SentOf(lines)[Len(lines)]
      BY <2>3, EchoIsSent
    <3>2. SentOf(lines)[Len(lines)] = lines
      BY <2>4, <2>5, SentWhole
    <3> QED BY <3>1, <3>2
  <2>7. Writing(m, j) = Write(f, lines)
    BY <2>1, <2>6 DEF Writing
  <2>8. f.path = file.path
    BY <2>2 DEF ReadOf
  <2>9. Write(f, lines).paths = {file.path} /\ Write(f, lines).lines = lines
    BY <2>8 DEF Write, Command
  <2> QED BY <2>1, <2>4, <2>7, <2>9
<1> QED BY <1>2, <1>3

----------------------------------------------------------------------------
(* At path p is the file of data d that has this path, once the first k of *)
(* its files are written, and nothing else.                                *)
Holds(fs, d, p, k) ==
    /\ \A j \in DOMAIN d.files :
          j <= k /\ d.files[j].path = p => fs[p] = Solid(d.files[j].body)
    /\ (\A j \in DOMAIN d.files : j <= k => d.files[j].path # p)
          => fs[p] = <<>>

(* What the files that matter hold when l commands are to come.            *)
NodeFiles(fs, d, l) ==
    /\ l = Len(d.files) + 3 => \A p \in PkiPaths : fs[p] = <<>>
    /\ l <= Len(d.files) + 2 =>
          \A p \in PkiPaths \cup TmpPaths :
             Holds(fs, d, p, Len(d.files) + 2 - l)

FilesInv ==
    /\ DOMAIN files = Paths \cup Scripts
    /\ attempt # None /\ KubeadmShaped(data[attempt])
          => NodeFiles(files, data[attempt], Len(todo))

(* The files of the data a machine may have are counted. *)
LEMMA DataCounted ==
    ASSUME NEW d \in DataSet
    PROVE  Len(d.files) \in Nat /\ DOMAIN d.files = 1 .. Len(d.files)
<1>1. d.files \in Seq(DataFile)
  BY DataAssumption DEF BootstrapData
<1> QED BY <1>1, LenProperties

(* No path is added to the node's and none is lost. *)
LEMMA PathsStay ==
    ASSUME [Next]_vars
    PROVE  DOMAIN files' = DOMAIN files
<1>1. \A paths : DOMAIN Removed(paths) = DOMAIN files
  BY DEF Removed
<1>2. \A paths, lines : DOMAIN Appended(paths, lines) = DOMAIN files
  BY DEF Appended
<1>3. ASSUME NEW m \in Machines, Connect(m) \/ ConnectFails(m)
      PROVE  files' = files
  BY <1>3 DEF Connect, ConnectFails, nodeVars
<1>4. SendExec \/ SendProviderID \/ SendRun \/ Drop => files' = files
  BY DEF SendExec, SendProviderID, SendRun, Drop, nodeVars
<1>5. SendRemove \/ Reset => \E paths : files' = Removed(paths)
  BY DEF SendRemove, Reset
<1>6. SendPut => \E paths, lines : files' = Appended(paths, lines)
  BY DEF SendPut
<1>7. SendFails => \/ files' = files
                   \/ \E paths, lines : files' = Appended(paths, lines)
  BY DEF SendFails
<1>8. UNCHANGED vars => files' = files
  BY DEF vars, nodeVars
<1> QED BY <1>1, <1>2, <1>3, <1>4, <1>5, <1>6, <1>7, <1>8 DEF Next

(* The step of an attempt that goes on with data d, from l commands to one *)
(* less: when a removal cannot fail, the paths that matter are empty once  *)
(* both removals are made, and each write adds one file of the data.       *)
LEMMA FilesSent ==
    ASSUME TodoInv, FilesInv, "rm" \notin Failures, attempt # None, GoOn,
           NEW d \in DataSet, data[attempt] = d, KubeadmShaped(d),
           SendRemove \/ SendPut \/ SendExec \/ SendProviderID \/ SendRun
              \/ SendFails,
           Len(todo) # 1
    PROVE  NodeFiles(files', d, Len(todo) - 1)
<1>1. PICK w \in Nat, l \in Nat \ {0} :
         /\ w = Len(Parsed(attempt).files) /\ l = Len(todo)
         /\ l <= w + 4 => Head(todo) = Ahead(attempt, w, l)
         /\ l > w + 4 => Head(todo) \in Early
  BY NextCommand
<1>2. /\ w = Len(d.files) /\ DOMAIN d.files = 1 .. w
      /\ \A j \in 1 .. w :
            /\ Writing(attempt, j).paths = {d.files[j].path}
            /\ Writing(attempt, j).lines = Solid(d.files[j].body)
            /\ Solid(d.files[j].body) \in Seq(AnyLine)
  <2>1. w = Len(d.files) /\ DOMAIN d.files = 1 .. w
    BY <1>1, WritesOwn, DataCounted
  <2> QED BY <2>1, WritesOwn
<1>3. /\ \A p \in PkiPaths \cup TmpPaths : p \in DOMAIN files
      /\ NodeFiles(files, d, l)
  BY <1>1, ProvisioningAssumption DEF FilesInv
<1>4. PICK paths, lines, op, checked :
         /\ paths = Head(todo).paths /\ lines = Head(todo).lines
         /\ op = Head(todo).op /\ checked = Head(todo).checked
  OBVIOUS
<1>5. /\ op = "rm" => files' = Removed(paths)
      /\ op # "rm" => files' = files \/ files' = Appended(paths, lines)
      /\ op = "put" => files' = Appended(paths, lines) \/ SendFails
  BY <1>4 DEF SendRemove, SendPut, SendExec, SendProviderID, SendRun, SendFails,
              Sends
<1>6. SendFails => ~checked
  <2>1. SendFails /\ checked => attempt' = None
    BY <1>4 DEF SendFails, Finish
  <2> QED BY <2>1, GoesOn
<1>7. SUFFICES /\ l - 1 = w + 3 => \A p \in PkiPaths : files'[p] = <<>>
               /\ l - 1 <= w + 2 =>
                    \A p \in PkiPaths \cup TmpPaths :
                        Holds(files', d, p, w + 2 - (l - 1))
  BY <1>1, <1>2 DEF NodeFiles
<1>8. CASE l - 1 > w + 3
  BY <1>1, <1>8
<1>9. CASE l - 1 = w + 3
  <2>1. l = w + 4 /\ ~(l - 1 <= w + 2)
    BY <1>9
  <2>2. Head(todo) = Delete(PkiPaths)
    <3>1. l # 1 /\ l # 2 /\ l \notin 3 .. w + 2 /\ l # w + 3 /\ l <= w + 4
      BY <2>1
    <3> QED BY <1>1, <2>1, <3>1 DEF Ahead
  <2>3. op = "rm" /\ paths = PkiPaths
    BY <1>4, <2>2 DEF Delete, Command
  <2>4. \A p \in PkiPaths : files'[p] = <<>>
    BY <1>3, <1>5, <2>3 DEF Removed
  <2> QED BY <2>1, <2>4
<1>10. CASE l - 1 = w + 2
  <2>1. l = w + 3 /\ w + 2 - (l - 1) = 0 /\ l - 1 # w + 3
    BY <1>10
  <2>2. Head(todo) = Delete(TmpPaths)
    <3>1. l # 1 /\ l # 2 /\ l \notin 3 .. w + 2 /\ l <= w + 4
      BY <2>1
    <3> QED BY <1>1, <2>1, <3>1 DEF Ahead
  <2>3. op = "rm" /\ paths = TmpPaths
    BY <1>4, <2>2 DEF Delete, Command
  <2>4. \A p \in PkiPaths : files[p] = <<>>
    BY <1>2, <1>3, <2>1 DEF NodeFiles
  <2>5. \A p \in PkiPaths \cup TmpPaths : files'[p] = <<>>
    BY <1>3, <1>5, <2>3, <2>4 DEF Removed
  <2>6. \A j \in DOMAIN d.files : ~(j <= 0)
    BY <1>2
  <2>7. \A p \in PkiPaths \cup TmpPaths : Holds(files', d, p, 0)
    BY <2>5, <2>6 DEF Holds
  <2> QED BY <2>1, <2>7
<1>11. CASE l \in 3 .. w + 2
  <2>1. PICK j \in 1 .. w : j = w + 3 - l
    BY <1>11
  <2>2. /\ w + 2 - (l - 1) = j /\ w + 2 - l = j - 1 /\ l - 1 # w + 3
        /\ l # 1 /\ l # 2 /\ l <= w + 4 /\ l <= w + 2
    BY <1>11, <2>1
  <2>3. Head(todo) = Writing(attempt, j)
    BY <1>1, <1>11, <2>1, <2>2 DEF Ahead
  <2>4. op = "put" /\ checked
    BY <1>4, <2>3 DEF Writing, Write, Command
  <2>5. PICK path, own : path = d.files[j].path /\ own = Solid(d.files[j].body)
    OBVIOUS
  <2>6. paths = {path} /\ lines = own /\ own \in Seq(AnyLine)
    BY <1>2, <1>4, <2>3, <2>5
  <2>7. files' = Appended({path}, own)
    BY <1>5, <1>6, <2>4, <2>6
  <2>8. ASSUME NEW p \in PkiPaths \cup TmpPaths PROVE Holds(files', d, p, j)
    <3>1. Holds(files, d, p, j - 1)
      BY <1>2, <1>3, <2>2 DEF NodeFiles
    <3>2. files'[p] = IF p = path THEN files[p] \o own ELSE files[p]
      BY <1>3, <2>7 DEF Appended
    <3>3. \A i \in 1 .. w : i <= j <=> i <= j - 1 \/ i = j
      OBVIOUS
    <3>4. CASE p = path
      <4>1. \A i \in 1 .. w : d.files[i].path = path => i = j
        BY <1>2, <2>5, PathsAssumption
      <4>2. \A i \in 1 .. w : i <= j - 1 => d.files[i].path # p
        <5>1. \A i \in 1 .. w : i <= j - 1 => i # j
          OBVIOUS
        <5> QED BY <3>4, <4>1, <5>1
      <4>3. files[p] = <<>>
        BY <1>2, <3>1, <4>2 DEF Holds
      <4>4. files'[p] = own
        <5>1. <<>> \o own = own
          BY <2>6, ConcatEmptySeq
        <5> QED BY <3>2, <3>4, <4>3, <5>1
      <4>5. \A i \in 1 .. w : i <= j /\ d.files[i].path = p
               => files'[p] = Solid(d.files[i].body)
        BY <2>5, <3>4, <4>1, <4>4
      <4>6. ~\A i \in 1 .. w : i <= j => d.files[i].path # p
        <5>1. j <= j
          OBVIOUS
        <5> QED BY <2>5, <3>4, <5>1
      <4> QED BY <1>2, <4>5, <4>6 DEF Holds
    <3>5. CASE p # path
      <4>1. files'[p] = files[p]
        BY <3>2, <3>5
      <4>2. d.files[j].path # p
        BY <2>5, <3>5
      <4> QED BY <1>2, <3>1, <3>3, <4>1, <4>2 DEF Holds
    <3> QED BY <3>4, <3>5
  <2> QED BY <2>2, <2>8
<1>12. CASE l = 2
  <2>1. /\ w + 2 - (l - 1) = w + 1 /\ w + 2 - l = w /\ l - 1 # w + 3
        /\ l <= w + 2 /\ l <= w + 4 /\ l # 1
    BY <1>12
  <2>2. Head(todo) = SetProviderID
    BY <1>1, <1>12, <2>1 DEF Ahead
  <2>3. op = "kubelet" /\ paths = {}
    BY <1>4, <2>2 DEF SetProviderID, Command
  <2>4. \A p \in PkiPaths \cup TmpPaths : files'[p] = files[p]
    BY <1>3, <1>5, <2>3 DEF Appended
  <2>5. \A i \in 1 .. w : i <= w + 1 /\ i <= w
    OBVIOUS
  <2>6. ASSUME NEW p \in PkiPaths \cup TmpPaths PROVE Holds(files', d, p, w + 1)
    <3>1. Holds(files, d, p, w)
      BY <1>2, <1>3, <2>1 DEF NodeFiles
    <3> QED BY <1>2, <2>4, <2>5, <3>1 DEF Holds
  <2> QED BY <2>1, <2>6
<1>13. \/ l - 1 > w + 3 \/ l - 1 = w + 3 \/ l - 1 = w + 2
       \/ l \in 3 .. w + 2 \/ l = 2
  <2>1. l # 1
    BY <1>1
  <2> QED BY <2>1
<1> QED BY <1>8, <1>9, <1>10, <1>11, <1>12, <1>13

(* At the start there is no attempt.                                       *)
LEMMA FilesInitially == Init => FilesInv
BY DEF Init, FilesInv

(* Every command keeps the files as far as the attempt has come, when rm   *)
(* does what it says: a file is deleted before it is written.              *)
LEMMA FilesNext ==
    ASSUME TodoInv, FilesInv, "rm" \notin Failures, [Next]_vars
    PROVE  FilesInv'
<1>1. DOMAIN files' = Paths \cup Scripts
  BY PathsStay DEF FilesInv
<1>2. CASE UNCHANGED vars
  BY <1>2 DEF vars, nodeVars, FilesInv
<1>3. CASE attempt' = None
  BY <1>1, <1>3 DEF FilesInv
<1>4. ASSUME NEW m \in Machines, Connect(m) PROVE FilesInv'
  <2>1. /\ attempt' = m /\ todo' = Commands(m) /\ data' = data
        /\ data[m] \in DataSet
    BY <1>4 DEF Connect
  <2>2. SUFFICES ASSUME KubeadmShaped(data[m])
                 PROVE  NodeFiles(files', data[m], Len(todo'))
    BY <1>1, <2>1 DEF FilesInv
  <2>3. PICK d \in DataSet : d = data[m]
    BY <2>1
  <2>4. PICK w, C :
              /\ w \in Nat
              /\ w = Len(Parsed(m).files) /\ C = Commands(m)
              /\ Len(C) \in Nat /\ Len(C) >= w + 4
    BY <2>3, CommandsLaidOut
  <2>5. w = Len(d.files)
    BY <2>2, <2>3, <2>4, WritesOwn
  <2>6. Len(todo') # w + 3 /\ ~(Len(todo') <= w + 2)
    BY <2>1, <2>4
  <2> QED BY <2>3, <2>5, <2>6 DEF NodeFiles
<1>5. CASE /\ attempt # None /\ GoOn /\ attempt' # None
           /\ SendRemove \/ SendPut \/ SendExec \/ SendProviderID \/ SendRun
                 \/ SendFails
  <2>1. /\ attempt' = attempt /\ data' = data /\ Len(todo) # 1
        /\ Len(todo') = Len(todo) - 1
    BY <1>5, GoesOn
  <2>2. SUFFICES ASSUME KubeadmShaped(data[attempt])
                 PROVE  NodeFiles(files', data[attempt], Len(todo'))
    BY <1>1, <2>1 DEF FilesInv
  <2>3. PICK d \in DataSet : d = data[attempt]
    BY <1>5 DEF TodoInv
  <2>4. NodeFiles(files', d, Len(todo) - 1)
    BY <1>5, <2>1, <2>2, <2>3, FilesSent
  <2> QED BY <2>1, <2>3, <2>4
<1>6. Drop \/ (\E m \in Machines : ConnectFails(m)) => attempt' = None
  BY DEF Drop, ConnectFails, Finish
<1>7. Reset => attempt' = attempt
  BY DEF Reset
<1>8. SendFails => GoOn \/ attempt' = None
  BY DEF SendFails, Finish
<1> QED BY <1>2, <1>3, <1>4, <1>5, <1>6, <1>7, <1>8, AttemptSteps

(* When a removal cannot fail: whatever other commands fail and whatever   *)
(* earlier attempts, of this machine and of others, left at the node, the  *)
(* bootstrap command finds the files of the machine's own data, whole.     *)
THEOREM MachinesRunOnOwnFiles ==
    ASSUME "rm" \notin Failures
    PROVE  Spec => []RunsOnOwnFiles
<1>1. ASSUME TodoInv, FilesInv PROVE RunsOnOwnFiles
  <2> SUFFICES ASSUME Sends("run"), KubeadmShaped(data[attempt]),
                      NEW p \in PkiPaths \cup TmpPaths
               PROVE  files[p] = Intended(attempt, p)
    BY DEF RunsOnOwnFiles
  <2>1. attempt # None /\ Len(todo) = 1
    BY <1>1, LastCommands DEF Sends
  <2>2. PICK d \in DataSet : d = data[attempt]
    BY <1>1, <2>1 DEF TodoInv
  <2>3. PICK w \in Nat : w = Len(d.files) /\ DOMAIN d.files = 1 .. w
    BY DataCounted
  <2>4. Holds(files, d, p, w + 1)
    <3>1. NodeFiles(files, d, 1)
      BY <1>1, <2>1, <2>2 DEF FilesInv
    <3>2. 1 <= w + 2 /\ w + 2 - 1 = w + 1
      OBVIOUS
    <3> QED BY <2>3, <3>1, <3>2 DEF NodeFiles
  <2>5. \A j \in DOMAIN d.files : j <= w + 1
    BY <2>3
  <2>6. PICK at : at = {i \in DOMAIN d.files : d.files[i].path = p}
    OBVIOUS
  <2>7. CASE at = {}
    <3>1. files[p] = <<>>
      BY <2>4, <2>6, <2>7 DEF Holds
    <3> QED BY <2>2, <2>6, <2>7, <3>1 DEF Intended
  <2>8. CASE at # {}
    <3>1. PICK i : i = CHOOSE j \in at : TRUE
      OBVIOUS
    <3>2. i \in at
      BY <2>8, <3>1
    <3>3. files[p] = Solid(d.files[i].body)
      BY <2>4, <2>5, <2>6, <3>2 DEF Holds
    <3> QED BY <2>2, <2>6, <2>8, <3>1, <3>3 DEF Intended
  <2> QED BY <2>7, <2>8
<1>2. TodoInv /\ FilesInv /\ [Next]_vars => TodoInv' /\ FilesInv'
  BY TodoNext, FilesNext
<1> QED BY <1>1, <1>2, TodoInitially, FilesInitially, PTL DEF Spec
=============================================================================
