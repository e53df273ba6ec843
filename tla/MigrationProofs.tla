--------------------------- MODULE MigrationProofs ---------------------------
(***************************************************************************)
(* Proofs about how servers open and upgrade their database, for any       *)
(* number of servers, rows and opens, any releases to upgrade from and any *)
(* retention of backups.                                                   *)
(*                                                                         *)
(* What the 29 migrations have in common is proved of each of them (Sound) *)
(* and of the effect of each statement (Ran), so that the steps of servers *)
(* are looked at without them.  The invariant (MigInv) then follows a      *)
(* trigger, which is of its final form, or still to be dropped or created  *)
(* by some server (Coming), and what is logged of a store that is upgraded *)
(* by one server at a time (Alone).                                        *)
(***************************************************************************)
EXTENDS Migrations, FiniteSetTheorems, SequenceTheorems, TLAPS

-----------------------------------------------------------------------------
(* The migrations.  Of a trigger the last DROP is the fourth statement of  *)
(* migration LastDrop, and the statement CreateAt of it creates it for     *)
(* good.  Transactions, which DML opens, are open at the places Txn only.  *)
LastDrop(t) == CASE t \in {"memories_ai", "memories_au"} -> 26 [] t = "relations_ai" -> 14 [] OTHER -> 10
CreateAt(t) == CASE t \in {"memories_au", "entities_au"} -> 6 [] t = "links_ai" -> 7 [] OTHER -> 5
Final(t, as) ==
    /\ as.columns > 0
    /\ t = "memories_ai" => as = [columns |-> Latest, gated |-> TRUE, scoped |-> FALSE]
    /\ t = "memories_au" => as = [columns |-> Latest, gated |-> TRUE, scoped |-> TRUE]
Txn(v, i) ==
    \/ v = 1 /\ i = 3
    \/ v = 2 /\ i \in {1, 4}
    \/ v = 3 /\ i \in {1, 2, 7}
    \/ v = 4 /\ i \in {1, 2, 3}
    \/ v = 5 /\ i = 9
    \/ v = 8 /\ i = 3
    \/ v = 9 /\ i \in {1, 5}
    \/ v = 29 /\ i = 2

IsStatement(x) ==
    \/ x.op \in {"alter", "make", "probe", "add"} /\ x = [op |-> x.op, objects |-> x.objects]
    \/ x.op = "fill" /\ x = [op |-> "fill", what |-> x.what]
    \/ x.op = "drop" /\ x = [op |-> "drop", triggers |-> x.triggers]
    \/ x.op = "create" /\ x = [op |-> "create", trigger |-> x.trigger, as |-> x.as]
    \/ x.op = "commit" /\ x = [op |-> "commit"]

\* Statement i of migration v, as far as the proofs look at it.
Sound(v, i, x) ==
    /\ IsStatement(x)
    /\ Txn(v, i) => x.op \in {"alter", "fill", "commit"} /\ (x.op # "commit" => Txn(v, i + 1))
    /\ x.op = "fill" => /\ Txn(v, i + 1)
                        /\ x.what = "refile" => v = 29
                        /\ x.what = "outbox" <=> (v = 3 /\ i = 6)
    /\ x.op \in {"probe", "add"} => v = 28
    /\ x.op = "drop" => \A t \in x.triggers : v < LastDrop(t) \/ (v = LastDrop(t) /\ i = 4)
    /\ x.op = "create" => /\ x.trigger \in Triggers
                          /\ \/ v < LastDrop(x.trigger)
                             \/ v = LastDrop(x.trigger) /\ i = CreateAt(x.trigger) /\ Final(x.trigger, x.as)
    /\ v = 3 /\ i = 6 => x.op = "fill"
SoundAll(v, s) ==
    /\ \E S : s \in Seq(S)
    /\ \A i \in 1..Len(s) : Sound(v, i, s[i])
    /\ Txn(v, Len(s) + 1) /\ v < 29 => Txn(v + 1, 1)
    /\ v = 3 => Len(s) = 6
    /\ \A t \in Triggers : v = LastDrop(t) => /\ Len(s) >= CreateAt(t)
                                            /\ s[4].op = "drop" /\ t \in s[4].triggers
                                            /\ s[CreateAt(t)].op = "create" /\ s[CreateAt(t)].trigger = t

LEMMA Alters2 ==
  ASSUME NEW a, NEW b
  PROVE  Alters(<<a, b>>) = <<Alter(a), Alter(b)>>
  BY DEF Alters

LEMMA Alters3 ==
  ASSUME NEW a, NEW b, NEW c
  PROVE  Alters(<<a, b, c>>) = <<Alter(a), Alter(b), Alter(c)>>
  BY DEF Alters

LEMMA Alters4 ==
  ASSUME NEW a, NEW b, NEW c, NEW d
  PROVE  Alters(<<a, b, c, d>>) = <<Alter(a), Alter(b), Alter(c), Alter(d)>>
  BY DEF Alters

LEMMA Alters7 ==
  ASSUME NEW a, NEW b, NEW c, NEW d, NEW e, NEW f, NEW g
  PROVE  Alters(<<a, b, c, d, e, f, g>>) = <<Alter(a), Alter(b), Alter(c), Alter(d), Alter(e), Alter(f), Alter(g)>>
  BY DEF Alters

LEMMA CommitIsSound ==
  ASSUME NEW v, NEW i, ~(v = 3 /\ i = 6)
  PROVE  Sound(v, i, Commit)
  BY DEF Sound, IsStatement, Commit
LEMMA AlterIsSound ==
  ASSUME NEW v, NEW i, NEW c, ~(v = 3 /\ i = 6), Txn(v, i) => Txn(v, i + 1)
  PROVE  Sound(v, i, Alter(c))
  BY DEF Sound, IsStatement, Alter
LEMMA MakeIsSound ==
  ASSUME NEW v, NEW i, NEW names, ~(v = 3 /\ i = 6), ~Txn(v, i)
  PROVE  Sound(v, i, Make(names))
  BY DEF Sound, IsStatement, Make
LEMMA FillIsSound ==
  ASSUME NEW v, NEW i, NEW what, Txn(v, i + 1), what = "refile" => v = 29, what = "outbox" <=> (v = 3 /\ i = 6)
  PROVE  Sound(v, i, Fill(what))
  BY DEF Sound, IsStatement, Fill

LEMMA Join11 ==
  ASSUME NEW a, NEW b
  PROVE  <<a>> \o <<b>> = <<a, b>>
  <1>1. PICK S : {a, b} \subseteq S
    OBVIOUS
  <1>2. <<a>> \in Seq(S) /\ <<b>> \in Seq(S) /\ <<a, b>> \in Seq(S)
    BY <1>1
  <1>3. /\ <<a>> \o <<b>> \in Seq(S) /\ Len(<<a>> \o <<b>>) = 2
        /\ \A n \in 1..2 : (<<a>> \o <<b>>)[n] = <<a, b>>[n]
    BY <1>2
  <1> QED
    BY <1>2, <1>3, SeqEqual
LEMMA Join12 ==
  ASSUME NEW a, NEW b, NEW c
  PROVE  <<a>> \o <<b, c>> = <<a, b, c>>
  <1>1. PICK S : {a, b, c} \subseteq S
    OBVIOUS
  <1>2. <<a>> \in Seq(S) /\ <<b, c>> \in Seq(S) /\ <<a, b, c>> \in Seq(S)
    BY <1>1
  <1>3. /\ <<a>> \o <<b, c>> \in Seq(S) /\ Len(<<a>> \o <<b, c>>) = 3
        /\ \A n \in 1..3 : (<<a>> \o <<b, c>>)[n] = <<a, b, c>>[n]
    BY <1>2
  <1> QED
    BY <1>2, <1>3, SeqEqual
LEMMA Join22 ==
  ASSUME NEW a, NEW b, NEW c, NEW d
  PROVE  <<a, b>> \o <<c, d>> = <<a, b, c, d>>
  <1>1. PICK S : {a, b, c, d} \subseteq S
    OBVIOUS
  <1>2. <<a, b>> \in Seq(S) /\ <<c, d>> \in Seq(S) /\ <<a, b, c, d>> \in Seq(S)
    BY <1>1
  <1>3. /\ <<a, b>> \o <<c, d>> \in Seq(S) /\ Len(<<a, b>> \o <<c, d>>) = 4
        /\ \A n \in 1..4 : (<<a, b>> \o <<c, d>>)[n] = <<a, b, c, d>>[n]
    BY <1>2
  <1> QED
    BY <1>2, <1>3, SeqEqual
LEMMA Join71 ==
  ASSUME NEW a, NEW b, NEW c, NEW d, NEW e, NEW f, NEW g, NEW h
  PROVE  <<a, b, c, d, e, f, g>> \o <<h>> = <<a, b, c, d, e, f, g, h>>
  <1>1. PICK S : {a, b, c, d, e, f, g, h} \subseteq S
    OBVIOUS
  <1>2. <<a, b, c, d, e, f, g>> \in Seq(S) /\ <<h>> \in Seq(S) /\ <<a, b, c, d, e, f, g, h>> \in Seq(S)
    BY <1>1
  <1>3. /\ <<a, b, c, d, e, f, g>> \o <<h>> \in Seq(S) /\ Len(<<a, b, c, d, e, f, g>> \o <<h>>) = 8
        /\ \A n \in 1..8 : (<<a, b, c, d, e, f, g>> \o <<h>>)[n] = <<a, b, c, d, e, f, g, h>>[n]
    BY <1>2
  <1> QED
    BY <1>2, <1>3, SeqEqual

LEMMA Sound1 == SoundAll(1, V1)
  <1>1. PICK a, b :
           /\ a = Alter("capture_id")
           /\ b = Fill("capture_id")
    OBVIOUS
  <1>2. V1 = <<a, b>>
    BY <1>1, Zenon DEF V1
  <1>3. /\ V1 \in Seq({a, b}) /\ Len(V1) = 2
        /\ V1[1] = a /\ V1[2] = b
    BY <1>2
  <1>4. Sound(1, 1, a) /\ Sound(1, 2, b)
    <2>1. Sound(1, 1, a)
      BY <1>1, AlterIsSound DEF Txn
    <2>2. Sound(1, 2, b)
      BY <1>1, FillIsSound DEF Txn
    <2> QED
      BY <2>1, <2>2
  <1>5. \A t \in Triggers : 1 # LastDrop(t)
    BY DEF LastDrop
  <1> QED
    BY <1>3, <1>4, <1>5 DEF SoundAll, Txn

LEMMA Sound2 == SoundAll(2, V2)
  <1>1. PICK a, b, c :
           /\ a = Commit
           /\ b = Make({"memory_tags"})
           /\ c = Fill("memory_tags")
    OBVIOUS
  <1>2. V2 = (<<a>> \o <<b>>) \o <<c>>
    BY <1>1, Zenon DEF V2, Script
  <1>3. /\ V2 \in Seq({a, b, c}) /\ Len(V2) = 3
        /\ V2[1] = a /\ V2[2] = b /\ V2[3] = c
    <2>1. <<a>> \o <<b>> = <<a, b>>
      BY Join11
    <2>2. V2 = <<a, b>> \o <<c>>
      BY <1>2, <2>1, Zenon
    <2> QED
      BY <2>2
  <1>4. Sound(2, 1, a) /\ Sound(2, 2, b) /\ Sound(2, 3, c)
    <2>1. Sound(2, 1, a)
      BY <1>1, CommitIsSound DEF Txn
    <2>2. Sound(2, 2, b)
      BY <1>1, MakeIsSound DEF Txn
    <2>3. Sound(2, 3, c)
      BY <1>1, FillIsSound DEF Txn
    <2> QED
      BY <2>1, <2>2, <2>3
  <1>5. \A t \in Triggers : 2 # LastDrop(t)
    BY DEF LastDrop
  <1> QED
    BY <1>3, <1>4, <1>5 DEF SoundAll, Txn

LEMMA Sound3 == SoundAll(3, V3)
  <1>1. PICK a, b, c, d, e, f :
           /\ a = Alter("node_id")
           /\ b = Commit
           /\ c = Make({"sync_log", "sync_outbox"})
           /\ d = Create("memories_ai", 3, FALSE, FALSE)
           /\ e = Create("memories_au", 3, FALSE, FALSE)
           /\ f = Fill("outbox")
    OBVIOUS
  <1>2. V3 = (<<a>> \o (<<b>> \o (<<c>> \o <<d, e>>))) \o <<f>>
    BY <1>1, Zenon DEF V3, Script, Listed
  <1>3. /\ V3 \in Seq({a, b, c, d, e, f}) /\ Len(V3) = 6
        /\ V3[1] = a /\ V3[2] = b /\ V3[3] = c /\ V3[4] = d /\ V3[5] = e /\ V3[6] = f
    BY <1>2
  <1>4. Sound(3, 1, a) /\ Sound(3, 2, b) /\ Sound(3, 3, c) /\ Sound(3, 4, d) /\ Sound(3, 5, e) /\ Sound(3, 6, f)
    <2>1. Sound(3, 1, a)
      BY <1>1, AlterIsSound DEF Txn
    <2>2. Sound(3, 2, b)
      BY <1>1, CommitIsSound DEF Txn
    <2>3. Sound(3, 3, c)
      BY <1>1, MakeIsSound DEF Txn
    <2>4. Sound(3, 4, d)
      BY <1>1 DEF Sound, IsStatement, Txn, LastDrop, CreateAt, Final, Triggers, Create
    <2>5. Sound(3, 5, e)
      BY <1>1 DEF Sound, IsStatement, Txn, LastDrop, CreateAt, Final, Triggers, Create
    <2>6. Sound(3, 6, f)
      BY <1>1, FillIsSound DEF Txn
    <2> QED
      BY <2>1, <2>2, <2>3, <2>4, <2>5, <2>6
  <1>5. \A t \in Triggers : 3 # LastDrop(t)
    BY DEF LastDrop
  <1> QED
    BY <1>3, <1>4, <1>5 DEF SoundAll, Txn

LEMMA Sound4 == SoundAll(4, V4)
  <1>1. PICK a, b, c, d, e, f :
           /\ a = Alter("client")
           /\ b = Fill("client")
           /\ c = Commit
           /\ d = Drop({"memories_ai", "memories_au"})
           /\ e = Create("memories_ai", 4, FALSE, FALSE)
           /\ f = Create("memories_au", 4, FALSE, FALSE)
    OBVIOUS
  <1>2. V4 = <<a, b>> \o (<<c>> \o (<<d>> \o <<e, f>>))
    BY <1>1, Zenon DEF V4, Script, Both, Listed
  <1>3. /\ V4 \in Seq({a, b, c, d, e, f}) /\ Len(V4) = 6
        /\ V4[1] = a /\ V4[2] = b /\ V4[3] = c /\ V4[4] = d /\ V4[5] = e /\ V4[6] = f
    BY <1>2
  <1>4. Sound(4, 1, a) /\ Sound(4, 2, b) /\ Sound(4, 3, c) /\ Sound(4, 4, d) /\ Sound(4, 5, e) /\ Sound(4, 6, f)
    <2>1. Sound(4, 1, a)
      BY <1>1, AlterIsSound DEF Txn
    <2>2. Sound(4, 2, b)
      BY <1>1, FillIsSound DEF Txn
    <2>3. Sound(4, 3, c)
      BY <1>1, CommitIsSound DEF Txn
    <2>4. Sound(4, 4, d)
      BY <1>1 DEF Sound, IsStatement, Txn, LastDrop, CreateAt, Final, Triggers, Drop
    <2>5. Sound(4, 5, e)
      BY <1>1 DEF Sound, IsStatement, Txn, LastDrop, CreateAt, Final, Triggers, Create
    <2>6. Sound(4, 6, f)
      BY <1>1 DEF Sound, IsStatement, Txn, LastDrop, CreateAt, Final, Triggers, Create
    <2> QED
      BY <2>1, <2>2, <2>3, <2>4, <2>5, <2>6
  <1>5. \A t \in Triggers : 4 # LastDrop(t)
    BY DEF LastDrop
  <1> QED
    BY <1>3, <1>4, <1>5 DEF SoundAll, Txn

LEMMA Sound5 == SoundAll(5, V5)
  <1>1. PICK a, b, c, d, e, f, g, h, i, j, k, l :
           /\ a = Alter("accessed_at")
           /\ b = Alter("access_count")
           /\ c = Alter("decay_rate")
           /\ d = Alter("vitality")
           /\ e = Alter("base_weight")
           /\ f = Alter("status")
           /\ g = Alter("memory_type")
           /\ h = Fill("accessed_at")
           /\ i = Commit
           /\ j = Drop({"memories_ai", "memories_au"})
           /\ k = Create("memories_ai", 5, FALSE, FALSE)
           /\ l = Create("memories_au", 5, FALSE, FALSE)
    OBVIOUS
  <1>2. V5 = (<<a, b, c, d, e, f, g>> \o <<h>>) \o (<<i>> \o (<<j>> \o <<k, l>>))
    <2>1. Alters(<<"accessed_at", "access_count", "decay_rate", "vitality", "base_weight", "status", "memory_type">>) = <<a, b, c, d, e, f, g>>
      BY <1>1, Alters7
    <2> QED
      BY <1>1, <2>1, Zenon DEF V5, Script, Both, Listed
  <1>3. /\ V5 \in Seq({a, b, c, d, e, f, g, h, i, j, k, l}) /\ Len(V5) = 12
        /\ V5[1] = a /\ V5[2] = b /\ V5[3] = c /\ V5[4] = d /\ V5[5] = e /\ V5[6] = f /\ V5[7] = g /\ V5[8] = h /\ V5[9] = i /\ V5[10] = j /\ V5[11] = k /\ V5[12] = l
    <2>1. <<a, b, c, d, e, f, g>> \o <<h>> = <<a, b, c, d, e, f, g, h>>
      BY Join71
    <2>2. V5 = <<a, b, c, d, e, f, g, h>> \o (<<i>> \o (<<j>> \o <<k, l>>))
      BY <1>2, <2>1, Zenon
    <2> QED
      BY <2>2
  <1>4. Sound(5, 1, a) /\ Sound(5, 2, b) /\ Sound(5, 3, c) /\ Sound(5, 4, d) /\ Sound(5, 5, e) /\ Sound(5, 6, f) /\ Sound(5, 7, g) /\ Sound(5, 8, h) /\ Sound(5, 9, i) /\ Sound(5, 10, j) /\ Sound(5, 11, k) /\ Sound(5, 12, l)
    <2>1. Sound(5, 1, a)
      BY <1>1, AlterIsSound DEF Txn
    <2>2. Sound(5, 2, b)
      BY <1>1, AlterIsSound DEF Txn
    <2>3. Sound(5, 3, c)
      BY <1>1, AlterIsSound DEF Txn
    <2>4. Sound(5, 4, d)
      BY <1>1, AlterIsSound DEF Txn
    <2>5. Sound(5, 5, e)
      BY <1>1, AlterIsSound DEF Txn
    <2>6. Sound(5, 6, f)
      BY <1>1, AlterIsSound DEF Txn
    <2>7. Sound(5, 7, g)
      BY <1>1, AlterIsSound DEF Txn
    <2>8. Sound(5, 8, h)
      BY <1>1, FillIsSound DEF Txn
    <2>9. Sound(5, 9, i)
      BY <1>1, CommitIsSound DEF Txn
    <2>10. Sound(5, 10, j)
      BY <1>1 DEF Sound, IsStatement, Txn, LastDrop, CreateAt, Final, Triggers, Drop
    <2>11. Sound(5, 11, k)
      BY <1>1 DEF Sound, IsStatement, Txn, LastDrop, CreateAt, Final, Triggers, Create
    <2>12. Sound(5, 12, l)
      BY <1>1 DEF Sound, IsStatement, Txn, LastDrop, CreateAt, Final, Triggers, Create
    <2> QED
      BY <2>1, <2>2, <2>3, <2>4, <2>5, <2>6, <2>7, <2>8, <2>9, <2>10, <2>11, <2>12
  <1>5. \A t \in Triggers : 5 # LastDrop(t)
    BY DEF LastDrop
  <1> QED
    BY <1>3, <1>4, <1>5 DEF SoundAll, Txn

LEMMA Sound6 == SoundAll(6, V6)
  <1>1. PICK a, b, c, d, e :
           /\ a = Alter("source_capture_id")
           /\ b = Commit
           /\ c = Drop({"memories_ai", "memories_au"})
           /\ d = Create("memories_ai", 6, FALSE, FALSE)
           /\ e = Create("memories_au", 6, FALSE, FALSE)
    OBVIOUS
  <1>2. V6 = <<a>> \o (<<b>> \o (<<c>> \o <<d, e>>))
    BY <1>1, Zenon DEF V6, Script, Both, Listed
  <1>3. /\ V6 \in Seq({a, b, c, d, e}) /\ Len(V6) = 5
        /\ V6[1] = a /\ V6[2] = b /\ V6[3] = c /\ V6[4] = d /\ V6[5] = e
    BY <1>2
  <1>4. Sound(6, 1, a) /\ Sound(6, 2, b) /\ Sound(6, 3, c) /\ Sound(6, 4, d) /\ Sound(6, 5, e)
    <2>1. Sound(6, 1, a)
      BY <1>1, AlterIsSound DEF Txn
    <2>2. Sound(6, 2, b)
      BY <1>1, CommitIsSound DEF Txn
    <2>3. Sound(6, 3, c)
      BY <1>1 DEF Sound, IsStatement, Txn, LastDrop, CreateAt, Final, Triggers, Drop
    <2>4. Sound(6, 4, d)
      BY <1>1 DEF Sound, IsStatement, Txn, LastDrop, CreateAt, Final, Triggers, Create
    <2>5. Sound(6, 5, e)
      BY <1>1 DEF Sound, IsStatement, Txn, LastDrop, CreateAt, Final, Triggers, Create
    <2> QED
      BY <2>1, <2>2, <2>3, <2>4, <2>5
  <1>5. \A t \in Triggers : 6 # LastDrop(t)
    BY DEF LastDrop
  <1> QED
    BY <1>3, <1>4, <1>5 DEF SoundAll, Txn

LEMMA Sound7 == SoundAll(7, V7)
  <1>1. PICK a, b, c, d, e, f, g, h :
           /\ a = Alter("subject")
           /\ b = Alter("predicate")
           /\ c = Alter("object")
           /\ d = Alter("superseded_by")
           /\ e = Commit
           /\ f = Drop({"memories_ai", "memories_au"})
           /\ g = Create("memories_ai", 7, FALSE, FALSE)
           /\ h = Create("memories_au", 7, FALSE, FALSE)
    OBVIOUS
  <1>2. V7 = <<a, b, c, d>> \o (<<e>> \o (<<f>> \o <<g, h>>))
    <2>1. Alters(<<"subject", "predicate", "object", "superseded_by">>) = <<a, b, c, d>>
      BY <1>1, Alters4
    <2> QED
      BY <1>1, <2>1, Zenon DEF V7, Script, Both, Listed
  <1>3. /\ V7 \in Seq({a, b, c, d, e, f, g, h}) /\ Len(V7) = 8
        /\ V7[1] = a /\ V7[2] = b /\ V7[3] = c /\ V7[4] = d /\ V7[5] = e /\ V7[6] = f /\ V7[7] = g /\ V7[8] = h
    BY <1>2
  <1>4. Sound(7, 1, a) /\ Sound(7, 2, b) /\ Sound(7, 3, c) /\ Sound(7, 4, d) /\ Sound(7, 5, e) /\ Sound(7, 6, f) /\ Sound(7, 7, g) /\ Sound(7, 8, h)
    <2>1. Sound(7, 1, a)
      BY <1>1, AlterIsSound DEF Txn
    <2>2. Sound(7, 2, b)
      BY <1>1, AlterIsSound DEF Txn
    <2>3. Sound(7, 3, c)
      BY <1>1, AlterIsSound DEF Txn
    <2>4. Sound(7, 4, d)
      BY <1>1, AlterIsSound DEF Txn
    <2>5. Sound(7, 5, e)
      BY <1>1, CommitIsSound DEF Txn
    <2>6. Sound(7, 6, f)
      BY <1>1 DEF Sound, IsStatement, Txn, LastDrop, CreateAt, Final, Triggers, Drop
    <2>7. Sound(7, 7, g)
      BY <1>1 DEF Sound, IsStatement, Txn, LastDrop, CreateAt, Final, Triggers, Create
    <2>8. Sound(7, 8, h)
      BY <1>1 DEF Sound, IsStatement, Txn, LastDrop, CreateAt, Final, Triggers, Create
    <2> QED
      BY <2>1, <2>2, <2>3, <2>4, <2>5, <2>6, <2>7, <2>8
  <1>5. \A t \in Triggers : 7 # LastDrop(t)
    BY DEF LastDrop
  <1> QED
    BY <1>3, <1>4, <1>5 DEF SoundAll, Txn

LEMMA Sound8 == SoundAll(8, V8)
  <1>1. PICK a, b :
           /\ a = Make({"vec_chunks"})
           /\ b = Fill("vec_chunks")
    OBVIOUS
  <1>2. V8 = <<a, b>>
    BY <1>1, Zenon DEF V8
  <1>3. /\ V8 \in Seq({a, b}) /\ Len(V8) = 2
        /\ V8[1] = a /\ V8[2] = b
    BY <1>2
  <1>4. Sound(8, 1, a) /\ Sound(8, 2, b)
    <2>1. Sound(8, 1, a)
      BY <1>1, MakeIsSound DEF Txn
    <2>2. Sound(8, 2, b)
      BY <1>1, FillIsSound DEF Txn
    <2> QED
      BY <2>1, <2>2
  <1>5. \A t \in Triggers : 8 # LastDrop(t)
    BY DEF LastDrop
  <1> QED
    BY <1>3, <1>4, <1>5 DEF SoundAll, Txn

LEMMA Sound9 == SoundAll(9, V9)
  <1>1. PICK a, b, c, d, e, f, g, h :
           /\ a = Commit
           /\ b = Make({"sync_sends", "sync_flags"})
           /\ c = Alter("last_pull_id")
           /\ d = Fill("created_at")
           /\ e = Commit
           /\ f = Drop({"memories_ai", "memories_au"})
           /\ g = Create("memories_ai", Latest, TRUE, FALSE)
           /\ h = Create("memories_au", Latest, TRUE, FALSE)
    OBVIOUS
  <1>2. V9 = ((<<a>> \o <<b>>) \o <<c, d>>) \o (<<e>> \o (<<f>> \o <<g, h>>))
    BY <1>1, Zenon DEF V9, Script, Both, Gated
  <1>3. /\ V9 \in Seq({a, b, c, d, e, f, g, h}) /\ Len(V9) = 8
        /\ V9[1] = a /\ V9[2] = b /\ V9[3] = c /\ V9[4] = d /\ V9[5] = e /\ V9[6] = f /\ V9[7] = g /\ V9[8] = h
    <2>1. <<a>> \o <<b>> = <<a, b>>
      BY Join11
    <2>2. <<a, b>> \o <<c, d>> = <<a, b, c, d>>
      BY Join22
    <2>3. V9 = <<a, b, c, d>> \o (<<e>> \o (<<f>> \o <<g, h>>))
      BY <1>2, <2>1, <2>2, Zenon
    <2> QED
      BY <2>3
  <1>4. Sound(9, 1, a) /\ Sound(9, 2, b) /\ Sound(9, 3, c) /\ Sound(9, 4, d) /\ Sound(9, 5, e) /\ Sound(9, 6, f) /\ Sound(9, 7, g) /\ Sound(9, 8, h)
    <2>1. Sound(9, 1, a)
      BY <1>1, CommitIsSound DEF Txn
    <2>2. Sound(9, 2, b)
      BY <1>1, MakeIsSound DEF Txn
    <2>3. Sound(9, 3, c)
      BY <1>1, AlterIsSound DEF Txn
    <2>4. Sound(9, 4, d)
      BY <1>1, FillIsSound DEF Txn
    <2>5. Sound(9, 5, e)
      BY <1>1, CommitIsSound DEF Txn
    <2>6. Sound(9, 6, f)
      BY <1>1 DEF Sound, IsStatement, Txn, LastDrop, CreateAt, Final, Triggers, Drop
    <2>7. Sound(9, 7, g)
      BY <1>1 DEF Sound, IsStatement, Txn, LastDrop, CreateAt, Final, Triggers, Create, Latest
    <2>8. Sound(9, 8, h)
      BY <1>1 DEF Sound, IsStatement, Txn, LastDrop, CreateAt, Final, Triggers, Create, Latest
    <2> QED
      BY <2>1, <2>2, <2>3, <2>4, <2>5, <2>6, <2>7, <2>8
  <1>5. \A t \in Triggers : 9 # LastDrop(t)
    BY DEF LastDrop
  <1> QED
    BY <1>3, <1>4, <1>5 DEF SoundAll, Txn

LEMMA Sound10 == SoundAll(10, V10)
  <1>1. PICK a, b, c, d, e, f, g :
           /\ a = Commit
           /\ b = Make({"entities", "memory_entities"})
           /\ c = Commit
           /\ d = Drop({"entities_ai", "entities_au", "links_ai"})
           /\ e = Create("entities_ai", 10, TRUE, FALSE)
           /\ f = Create("entities_au", 10, TRUE, FALSE)
           /\ g = Create("links_ai", 10, TRUE, FALSE)
    OBVIOUS
  <1>2. V10 = (<<a>> \o <<b>>) \o (<<c>> \o <<d, e, f, g>>)
    BY <1>1, Zenon DEF V10, Script
  <1>3. /\ V10 \in Seq({a, b, c, d, e, f, g}) /\ Len(V10) = 7
        /\ V10[1] = a /\ V10[2] = b /\ V10[3] = c /\ V10[4] = d /\ V10[5] = e /\ V10[6] = f /\ V10[7] = g
    <2>1. <<a>> \o <<b>> = <<a, b>>
      BY Join11
    <2>2. V10 = <<a, b>> \o (<<c>> \o <<d, e, f, g>>)
      BY <1>2, <2>1, Zenon
    <2> QED
      BY <2>2
  <1>4. Sound(10, 1, a) /\ Sound(10, 2, b) /\ Sound(10, 3, c) /\ Sound(10, 4, d) /\ Sound(10, 5, e) /\ Sound(10, 6, f) /\ Sound(10, 7, g)
    <2>1. Sound(10, 1, a)
      BY <1>1, CommitIsSound DEF Txn
    <2>2. Sound(10, 2, b)
      BY <1>1, MakeIsSound DEF Txn
    <2>3. Sound(10, 3, c)
      BY <1>1, CommitIsSound DEF Txn
    <2>4. Sound(10, 4, d)
      BY <1>1 DEF Sound, IsStatement, Txn, LastDrop, CreateAt, Final, Triggers, Drop
    <2>5. Sound(10, 5, e)
      BY <1>1 DEF Sound, IsStatement, Txn, LastDrop, CreateAt, Final, Triggers, Create
    <2>6. Sound(10, 6, f)
      BY <1>1 DEF Sound, IsStatement, Txn, LastDrop, CreateAt, Final, Triggers, Create
    <2>7. Sound(10, 7, g)
      BY <1>1 DEF Sound, IsStatement, Txn, LastDrop, CreateAt, Final, Triggers, Create
    <2> QED
      BY <2>1, <2>2, <2>3, <2>4, <2>5, <2>6, <2>7
  <1>5. \A t \in Triggers : 10 = LastDrop(t) => /\ 7 >= CreateAt(t) /\ V10[4].op = "drop" /\ t \in V10[4].triggers
              /\ V10[CreateAt(t)].op = "create" /\ V10[CreateAt(t)].trigger = t
    BY <1>1, <1>3 DEF Triggers, LastDrop, CreateAt, Drop, Create
  <1> QED
    BY <1>3, <1>4, <1>5 DEF SoundAll, Txn

LEMMA Sound11 == SoundAll(11, V11)
  <1>1. PICK a, b :
           /\ a = Commit
           /\ b = Make({"wiki_pages", "wiki_links", "wiki_meta"})
    OBVIOUS
  <1>2. V11 = <<a>> \o <<b>>
    BY <1>1, Zenon DEF V11, Script
  <1>3. /\ V11 \in Seq({a, b}) /\ Len(V11) = 2
        /\ V11[1] = a /\ V11[2] = b
    BY <1>2
  <1>4. Sound(11, 1, a) /\ Sound(11, 2, b)
    <2>1. Sound(11, 1, a)
      BY <1>1, CommitIsSound DEF Txn
    <2>2. Sound(11, 2, b)
      BY <1>1, MakeIsSound DEF Txn
    <2> QED
      BY <2>1, <2>2
  <1>5. \A t \in Triggers : 11 # LastDrop(t)
    BY DEF LastDrop
  <1> QED
    BY <1>3, <1>4, <1>5 DEF SoundAll, Txn

LEMMA Sound12 == SoundAll(12, V12)
  <1>1. PICK a, b :
           /\ a = Commit
           /\ b = Make({"mempalace_imports"})
    OBVIOUS
  <1>2. V12 = <<a>> \o <<b>>
    BY <1>1, Zenon DEF V12, Script
  <1>3. /\ V12 \in Seq({a, b}) /\ Len(V12) = 2
        /\ V12[1] = a /\ V12[2] = b
    BY <1>2
  <1>4. Sound(12, 1, a) /\ Sound(12, 2, b)
    <2>1. Sound(12, 1, a)
      BY <1>1, CommitIsSound DEF Txn
    <2>2. Sound(12, 2, b)
      BY <1>1, MakeIsSound DEF Txn
    <2> QED
      BY <2>1, <2>2
  <1>5. \A t \in Triggers : 12 # LastDrop(t)
    BY DEF LastDrop
  <1> QED
    BY <1>3, <1>4, <1>5 DEF SoundAll, Txn

LEMMA Sound13 == SoundAll(13, V13)
  <1>1. PICK a, b, c, d, e, f :
           /\ a = Alter("doc_id")
           /\ b = Alter("chunk_index")
           /\ c = Commit
           /\ d = Drop({"memories_ai", "memories_au"})
           /\ e = Create("memories_ai", Latest, TRUE, FALSE)
           /\ f = Create("memories_au", Latest, TRUE, FALSE)
    OBVIOUS
  <1>2. V13 = <<a, b>> \o (<<c>> \o (<<d>> \o <<e, f>>))
    <2>1. Alters(<<"doc_id", "chunk_index">>) = <<a, b>>
      BY <1>1, Alters2
    <2> QED
      BY <1>1, <2>1, Zenon DEF V13, Script, Both, Gated
  <1>3. /\ V13 \in Seq({a, b, c, d, e, f}) /\ Len(V13) = 6
        /\ V13[1] = a /\ V13[2] = b /\ V13[3] = c /\ V13[4] = d /\ V13[5] = e /\ V13[6] = f
    BY <1>2
  <1>4. Sound(13, 1, a) /\ Sound(13, 2, b) /\ Sound(13, 3, c) /\ Sound(13, 4, d) /\ Sound(13, 5, e) /\ Sound(13, 6, f)
    <2>1. Sound(13, 1, a)
      BY <1>1, AlterIsSound DEF Txn
    <2>2. Sound(13, 2, b)
      BY <1>1, AlterIsSound DEF Txn
    <2>3. Sound(13, 3, c)
      BY <1>1, CommitIsSound DEF Txn
    <2>4. Sound(13, 4, d)
      BY <1>1 DEF Sound, IsStatement, Txn, LastDrop, CreateAt, Final, Triggers, Drop
    <2>5. Sound(13, 5, e)
      BY <1>1 DEF Sound, IsStatement, Txn, LastDrop, CreateAt, Final, Triggers, Create, Latest
    <2>6. Sound(13, 6, f)
      BY <1>1 DEF Sound, IsStatement, Txn, LastDrop, CreateAt, Final, Triggers, Create, Latest
    <2> QED
      BY <2>1, <2>2, <2>3, <2>4, <2>5, <2>6
  <1>5. \A t \in Triggers : 13 # LastDrop(t)
    BY DEF LastDrop
  <1> QED
    BY <1>3, <1>4, <1>5 DEF SoundAll, Txn

LEMMA Sound14 == SoundAll(14, V14)
  <1>1. PICK a, b, c, d, e :
           /\ a = Commit
           /\ b = Make({"entity_relations"})
           /\ c = Commit
           /\ d = Drop({"relations_ai"})
           /\ e = Create("relations_ai", 14, TRUE, FALSE)
    OBVIOUS
  <1>2. V14 = (<<a>> \o <<b>>) \o (<<c>> \o <<d, e>>)
    BY <1>1, Zenon DEF V14, Script
  <1>3. /\ V14 \in Seq({a, b, c, d, e}) /\ Len(V14) = 5
        /\ V14[1] = a /\ V14[2] = b /\ V14[3] = c /\ V14[4] = d /\ V14[5] = e
    <2>1. <<a>> \o <<b>> = <<a, b>>
      BY Join11
    <2>2. V14 = <<a, b>> \o (<<c>> \o <<d, e>>)
      BY <1>2, <2>1, Zenon
    <2> QED
      BY <2>2
  <1>4. Sound(14, 1, a) /\ Sound(14, 2, b) /\ Sound(14, 3, c) /\ Sound(14, 4, d) /\ Sound(14, 5, e)
    <2>1. Sound(14, 1, a)
      BY <1>1, CommitIsSound DEF Txn
    <2>2. Sound(14, 2, b)
      BY <1>1, MakeIsSound DEF Txn
    <2>3. Sound(14, 3, c)
      BY <1>1, CommitIsSound DEF Txn
    <2>4. Sound(14, 4, d)
      BY <1>1 DEF Sound, IsStatement, Txn, LastDrop, CreateAt, Final, Triggers, Drop
    <2>5. Sound(14, 5, e)
      BY <1>1 DEF Sound, IsStatement, Txn, LastDrop, CreateAt, Final, Triggers, Create
    <2> QED
      BY <2>1, <2>2, <2>3, <2>4, <2>5
  <1>5. \A t \in Triggers : 14 = LastDrop(t) => /\ 5 >= CreateAt(t) /\ V14[4].op = "drop" /\ t \in V14[4].triggers
              /\ V14[CreateAt(t)].op = "create" /\ V14[CreateAt(t)].trigger = t
    BY <1>1, <1>3 DEF Triggers, LastDrop, CreateAt, Drop, Create
  <1> QED
    BY <1>3, <1>4, <1>5 DEF SoundAll, Txn

LEMMA Sound15 == SoundAll(15, V15)
  <1>1. PICK a, b :
           /\ a = Commit
           /\ b = Make({"dbs_imports"})
    OBVIOUS
  <1>2. V15 = <<a>> \o <<b>>
    BY <1>1, Zenon DEF V15, Script
  <1>3. /\ V15 \in Seq({a, b}) /\ Len(V15) = 2
        /\ V15[1] = a /\ V15[2] = b
    BY <1>2
  <1>4. Sound(15, 1, a) /\ Sound(15, 2, b)
    <2>1. Sound(15, 1, a)
      BY <1>1, CommitIsSound DEF Txn
    <2>2. Sound(15, 2, b)
      BY <1>1, MakeIsSound DEF Txn
    <2> QED
      BY <2>1, <2>2
  <1>5. \A t \in Triggers : 15 # LastDrop(t)
    BY DEF LastDrop
  <1> QED
    BY <1>3, <1>4, <1>5 DEF SoundAll, Txn

LEMMA Sound16 == SoundAll(16, V16)
  <1>1. PICK a, b, c, d, e :
           /\ a = Alter("deleted_at")
           /\ b = Commit
           /\ c = Drop({"memories_ai", "memories_au"})
           /\ d = Create("memories_ai", Latest, TRUE, FALSE)
           /\ e = Create("memories_au", Latest, TRUE, FALSE)
    OBVIOUS
  <1>2. V16 = <<a>> \o (<<b>> \o (<<c>> \o <<d, e>>))
    BY <1>1, Zenon DEF V16, Script, Both, Gated
  <1>3. /\ V16 \in Seq({a, b, c, d, e}) /\ Len(V16) = 5
        /\ V16[1] = a /\ V16[2] = b /\ V16[3] = c /\ V16[4] = d /\ V16[5] = e
    BY <1>2
  <1>4. Sound(16, 1, a) /\ Sound(16, 2, b) /\ Sound(16, 3, c) /\ Sound(16, 4, d) /\ Sound(16, 5, e)
    <2>1. Sound(16, 1, a)
      BY <1>1, AlterIsSound DEF Txn
    <2>2. Sound(16, 2, b)
      BY <1>1, CommitIsSound DEF Txn
    <2>3. Sound(16, 3, c)
      BY <1>1 DEF Sound, IsStatement, Txn, LastDrop, CreateAt, Final, Triggers, Drop
    <2>4. Sound(16, 4, d)
      BY <1>1 DEF Sound, IsStatement, Txn, LastDrop, CreateAt, Final, Triggers, Create, Latest
    <2>5. Sound(16, 5, e)
      BY <1>1 DEF Sound, IsStatement, Txn, LastDrop, CreateAt, Final, Triggers, Create, Latest
    <2> QED
      BY <2>1, <2>2, <2>3, <2>4, <2>5
  <1>5. \A t \in Triggers : 16 # LastDrop(t)
    BY DEF LastDrop
  <1> QED
    BY <1>3, <1>4, <1>5 DEF SoundAll, Txn

LEMMA Sound17 == SoundAll(17, V17)
  <1>1. PICK a, b :
           /\ a = Commit
           /\ b = Make({"memory_feedback"})
    OBVIOUS
  <1>2. V17 = <<a>> \o <<b>>
    BY <1>1, Zenon DEF V17, Script
  <1>3. /\ V17 \in Seq({a, b}) /\ Len(V17) = 2
        /\ V17[1] = a /\ V17[2] = b
    BY <1>2
  <1>4. Sound(17, 1, a) /\ Sound(17, 2, b)
    <2>1. Sound(17, 1, a)
      BY <1>1, CommitIsSound DEF Txn
    <2>2. Sound(17, 2, b)
      BY <1>1, MakeIsSound DEF Txn
    <2> QED
      BY <2>1, <2>2
  <1>5. \A t \in Triggers : 17 # LastDrop(t)
    BY DEF LastDrop
  <1> QED
    BY <1>3, <1>4, <1>5 DEF SoundAll, Txn

LEMMA Sound18 == SoundAll(18, V18)
  <1>1. PICK a, b :
           /\ a = Commit
           /\ b = Make({"embedding_meta"})
    OBVIOUS
  <1>2. V18 = <<a>> \o <<b>>
    BY <1>1, Zenon DEF V18, Script
  <1>3. /\ V18 \in Seq({a, b}) /\ Len(V18) = 2
        /\ V18[1] = a /\ V18[2] = b
    BY <1>2
  <1>4. Sound(18, 1, a) /\ Sound(18, 2, b)
    <2>1. Sound(18, 1, a)
      BY <1>1, CommitIsSound DEF Txn
    <2>2. Sound(18, 2, b)
      BY <1>1, MakeIsSound DEF Txn
    <2> QED
      BY <2>1, <2>2
  <1>5. \A t \in Triggers : 18 # LastDrop(t)
    BY DEF LastDrop
  <1> QED
    BY <1>3, <1>4, <1>5 DEF SoundAll, Txn

LEMMA Sound19 == SoundAll(19, V19)
  <1>1. PICK a, b :
           /\ a = Commit
           /\ b = Make({"memory_associations"})
    OBVIOUS
  <1>2. V19 = <<a>> \o <<b>>
    BY <1>1, Zenon DEF V19, Script
  <1>3. /\ V19 \in Seq({a, b}) /\ Len(V19) = 2
        /\ V19[1] = a /\ V19[2] = b
    BY <1>2
  <1>4. Sound(19, 1, a) /\ Sound(19, 2, b)
    <2>1. Sound(19, 1, a)
      BY <1>1, CommitIsSound DEF Txn
    <2>2. Sound(19, 2, b)
      BY <1>1, MakeIsSound DEF Txn
    <2> QED
      BY <2>1, <2>2
  <1>5. \A t \in Triggers : 19 # LastDrop(t)
    BY DEF LastDrop
  <1> QED
    BY <1>3, <1>4, <1>5 DEF SoundAll, Txn

LEMMA Sound20 == SoundAll(20, V20)
  <1>1. PICK a, b, c :
           /\ a = Alter("last_attempt_at")
           /\ b = Alter("last_push_at")
           /\ c = Alter("last_pull_at")
    OBVIOUS
  <1>2. V20 = <<a, b, c>>
    <2>1. Alters(<<"last_attempt_at", "last_push_at", "last_pull_at">>) = <<a, b, c>>
      BY <1>1, Alters3
    <2> QED
      BY <1>1, <2>1, Zenon DEF V20
  <1>3. /\ V20 \in Seq({a, b, c}) /\ Len(V20) = 3
        /\ V20[1] = a /\ V20[2] = b /\ V20[3] = c
    BY <1>2
  <1>4. Sound(20, 1, a) /\ Sound(20, 2, b) /\ Sound(20, 3, c)
    <2>1. Sound(20, 1, a)
      BY <1>1, AlterIsSound DEF Txn
    <2>2. Sound(20, 2, b)
      BY <1>1, AlterIsSound DEF Txn
    <2>3. Sound(20, 3, c)
      BY <1>1, AlterIsSound DEF Txn
    <2> QED
      BY <2>1, <2>2, <2>3
  <1>5. \A t \in Triggers : 20 # LastDrop(t)
    BY DEF LastDrop
  <1> QED
    BY <1>3, <1>4, <1>5 DEF SoundAll, Txn

LEMMA Sound21 == SoundAll(21, V21)
  BY DEF V21, SoundAll, Txn, LastDrop

LEMMA Sound22 == SoundAll(22, V22)
  <1>1. PICK a, b, c :
           /\ a = Commit
           /\ b = Drop({"memories_au"})
           /\ c = Create("memories_au", Latest, TRUE, TRUE)
    OBVIOUS
  <1>2. V22 = <<a>> \o <<b, c>>
    BY <1>1, Zenon DEF V22, Script
  <1>3. /\ V22 \in Seq({a, b, c}) /\ Len(V22) = 3
        /\ V22[1] = a /\ V22[2] = b /\ V22[3] = c
    BY <1>2
  <1>4. Sound(22, 1, a) /\ Sound(22, 2, b) /\ Sound(22, 3, c)
    <2>1. Sound(22, 1, a)
      BY <1>1, CommitIsSound DEF Txn
    <2>2. Sound(22, 2, b)
      BY <1>1 DEF Sound, IsStatement, Txn, LastDrop, CreateAt, Final, Triggers, Drop
    <2>3. Sound(22, 3, c)
      BY <1>1 DEF Sound, IsStatement, Txn, LastDrop, CreateAt, Final, Triggers, Create, Latest
    <2> QED
      BY <2>1, <2>2, <2>3
  <1>5. \A t \in Triggers : 22 # LastDrop(t)
    BY DEF LastDrop
  <1> QED
    BY <1>3, <1>4, <1>5 DEF SoundAll, Txn

LEMMA Sound23 == SoundAll(23, V23)
  <1>1. PICK a, b, c, d, e, f, g :
           /\ a = Alter("remind_at")
           /\ b = Commit
           /\ c = Make({"reminder_deliveries"})
           /\ d = Commit
           /\ e = Drop({"memories_ai", "memories_au"})
           /\ f = Create("memories_ai", Latest, TRUE, FALSE)
           /\ g = Create("memories_au", Latest, TRUE, TRUE)
    OBVIOUS
  <1>2. V23 = (<<a>> \o (<<b>> \o <<c>>)) \o (<<d>> \o (<<e>> \o <<f, g>>))
    BY <1>1, Zenon DEF V23, Script, Both, Gated
  <1>3. /\ V23 \in Seq({a, b, c, d, e, f, g}) /\ Len(V23) = 7
        /\ V23[1] = a /\ V23[2] = b /\ V23[3] = c /\ V23[4] = d /\ V23[5] = e /\ V23[6] = f /\ V23[7] = g
    <2>1. <<b>> \o <<c>> = <<b, c>>
      BY Join11
    <2>2. <<a>> \o <<b, c>> = <<a, b, c>>
      BY Join12
    <2>3. V23 = <<a, b, c>> \o (<<d>> \o (<<e>> \o <<f, g>>))
      BY <1>2, <2>1, <2>2, Zenon
    <2> QED
      BY <2>3
  <1>4. Sound(23, 1, a) /\ Sound(23, 2, b) /\ Sound(23, 3, c) /\ Sound(23, 4, d) /\ Sound(23, 5, e) /\ Sound(23, 6, f) /\ Sound(23, 7, g)
    <2>1. Sound(23, 1, a)
      BY <1>1, AlterIsSound DEF Txn
    <2>2. Sound(23, 2, b)
      BY <1>1, CommitIsSound DEF Txn
    <2>3. Sound(23, 3, c)
      BY <1>1, MakeIsSound DEF Txn
    <2>4. Sound(23, 4, d)
      BY <1>1, CommitIsSound DEF Txn
    <2>5. Sound(23, 5, e)
      BY <1>1 DEF Sound, IsStatement, Txn, LastDrop, CreateAt, Final, Triggers, Drop
    <2>6. Sound(23, 6, f)
      BY <1>1 DEF Sound, IsStatement, Txn, LastDrop, CreateAt, Final, Triggers, Create, Latest
    <2>7. Sound(23, 7, g)
      BY <1>1 DEF Sound, IsStatement, Txn, LastDrop, CreateAt, Final, Triggers, Create, Latest
    <2> QED
      BY <2>1, <2>2, <2>3, <2>4, <2>5, <2>6, <2>7
  <1>5. \A t \in Triggers : 23 # LastDrop(t)
    BY DEF LastDrop
  <1> QED
    BY <1>3, <1>4, <1>5 DEF SoundAll, Txn

LEMMA Sound24 == SoundAll(24, V24)
  <1>1. PICK a, b :
           /\ a = Commit
           /\ b = Make({"memory_revisions"})
    OBVIOUS
  <1>2. V24 = <<a>> \o <<b>>
    BY <1>1, Zenon DEF V24, Script
  <1>3. /\ V24 \in Seq({a, b}) /\ Len(V24) = 2
        /\ V24[1] = a /\ V24[2] = b
    BY <1>2
  <1>4. Sound(24, 1, a) /\ Sound(24, 2, b)
    <2>1. Sound(24, 1, a)
      BY <1>1, CommitIsSound DEF Txn
    <2>2. Sound(24, 2, b)
      BY <1>1, MakeIsSound DEF Txn
    <2> QED
      BY <2>1, <2>2
  <1>5. \A t \in Triggers : 24 # LastDrop(t)
    BY DEF LastDrop
  <1> QED
    BY <1>3, <1>4, <1>5 DEF SoundAll, Txn

LEMMA Sound25 == SoundAll(25, V25)
  <1>1. PICK a, b :
           /\ a = Commit
           /\ b = Make({"analytics_snapshots"})
    OBVIOUS
  <1>2. V25 = <<a>> \o <<b>>
    BY <1>1, Zenon DEF V25, Script
  <1>3. /\ V25 \in Seq({a, b}) /\ Len(V25) = 2
        /\ V25[1] = a /\ V25[2] = b
    BY <1>2
  <1>4. Sound(25, 1, a) /\ Sound(25, 2, b)
    <2>1. Sound(25, 1, a)
      BY <1>1, CommitIsSound DEF Txn
    <2>2. Sound(25, 2, b)
      BY <1>1, MakeIsSound DEF Txn
    <2> QED
      BY <2>1, <2>2
  <1>5. \A t \in Triggers : 25 # LastDrop(t)
    BY DEF LastDrop
  <1> QED
    BY <1>3, <1>4, <1>5 DEF SoundAll, Txn

LEMMA Sound26 == SoundAll(26, V26)
  <1>1. PICK a, b, c, d, e, f :
           /\ a = Alter("sensitive")
           /\ b = Alter("revisions.sensitive")
           /\ c = Commit
           /\ d = Drop({"memories_ai", "memories_au"})
           /\ e = Create("memories_ai", Latest, TRUE, FALSE)
           /\ f = Create("memories_au", Latest, TRUE, TRUE)
    OBVIOUS
  <1>2. V26 = <<a, b>> \o (<<c>> \o (<<d>> \o <<e, f>>))
    <2>1. Alters(<<"sensitive", "revisions.sensitive">>) = <<a, b>>
      BY <1>1, Alters2
    <2> QED
      BY <1>1, <2>1, Zenon DEF V26, Script, Both, Gated
  <1>3. /\ V26 \in Seq({a, b, c, d, e, f}) /\ Len(V26) = 6
        /\ V26[1] = a /\ V26[2] = b /\ V26[3] = c /\ V26[4] = d /\ V26[5] = e /\ V26[6] = f
    BY <1>2
  <1>4. Sound(26, 1, a) /\ Sound(26, 2, b) /\ Sound(26, 3, c) /\ Sound(26, 4, d) /\ Sound(26, 5, e) /\ Sound(26, 6, f)
    <2>1. Sound(26, 1, a)
      BY <1>1, AlterIsSound DEF Txn
    <2>2. Sound(26, 2, b)
      BY <1>1, AlterIsSound DEF Txn
    <2>3. Sound(26, 3, c)
      BY <1>1, CommitIsSound DEF Txn
    <2>4. Sound(26, 4, d)
      BY <1>1 DEF Sound, IsStatement, Txn, LastDrop, CreateAt, Final, Triggers, Drop
    <2>5. Sound(26, 5, e)
      BY <1>1 DEF Sound, IsStatement, Txn, LastDrop, CreateAt, Final, Triggers, Create, Latest
    <2>6. Sound(26, 6, f)
      BY <1>1 DEF Sound, IsStatement, Txn, LastDrop, CreateAt, Final, Triggers, Create, Latest
    <2> QED
      BY <2>1, <2>2, <2>3, <2>4, <2>5, <2>6
  <1>5. \A t \in Triggers : 26 = LastDrop(t) => /\ 6 >= CreateAt(t) /\ V26[4].op = "drop" /\ t \in V26[4].triggers
              /\ V26[CreateAt(t)].op = "create" /\ V26[CreateAt(t)].trigger = t
    BY <1>1, <1>3 DEF Triggers, LastDrop, CreateAt, Drop, Create
  <1> QED
    BY <1>3, <1>4, <1>5 DEF SoundAll, Txn

LEMMA Sound27 == SoundAll(27, V27)
  <1>1. PICK a, b :
           /\ a = Commit
           /\ b = Make({"saved_searches", "saved_search_seen_memories"})
    OBVIOUS
  <1>2. V27 = <<a>> \o <<b>>
    BY <1>1, Zenon DEF V27, Script
  <1>3. /\ V27 \in Seq({a, b}) /\ Len(V27) = 2
        /\ V27[1] = a /\ V27[2] = b
    BY <1>2
  <1>4. Sound(27, 1, a) /\ Sound(27, 2, b)
    <2>1. Sound(27, 1, a)
      BY <1>1, CommitIsSound DEF Txn
    <2>2. Sound(27, 2, b)
      BY <1>1, MakeIsSound DEF Txn
    <2> QED
      BY <2>1, <2>2
  <1>5. \A t \in Triggers : 27 # LastDrop(t)
    BY DEF LastDrop
  <1> QED
    BY <1>3, <1>4, <1>5 DEF SoundAll, Txn

LEMMA Sound28 == SoundAll(28, V28)
  <1>1. PICK a, b :
           /\ a = [op |-> "probe", objects |-> {"last_pull_seq"}]
           /\ b = [op |-> "add", objects |-> {"last_pull_seq"}]
    OBVIOUS
  <1>2. V28 = <<a, b>>
    BY <1>1, Zenon DEF V28
  <1>3. /\ V28 \in Seq({a, b}) /\ Len(V28) = 2
        /\ V28[1] = a /\ V28[2] = b
    BY <1>2
  <1>4. Sound(28, 1, a) /\ Sound(28, 2, b)
    <2>1. Sound(28, 1, a)
      BY <1>1 DEF Sound, IsStatement, Txn
    <2>2. Sound(28, 2, b)
      BY <1>1 DEF Sound, IsStatement, Txn
    <2> QED
      BY <2>1, <2>2
  <1>5. \A t \in Triggers : 28 # LastDrop(t)
    BY DEF LastDrop
  <1> QED
    BY <1>3, <1>4, <1>5 DEF SoundAll, Txn

LEMMA Sound29 == SoundAll(29, V29)
  <1>1. PICK a :
           /\ a = Fill("refile")
    OBVIOUS
  <1>2. V29 = <<a>>
    BY <1>1, Zenon DEF V29
  <1>3. /\ V29 \in Seq({a}) /\ Len(V29) = 1
        /\ V29[1] = a
    BY <1>2
  <1>4. Sound(29, 1, a)
    <2>1. Sound(29, 1, a)
      BY <1>1, FillIsSound DEF Txn
    <2> QED
      BY <2>1
  <1>5. \A t \in Triggers : 29 # LastDrop(t)
    BY DEF LastDrop
  <1> QED
    BY <1>3, <1>4, <1>5 DEF SoundAll, Txn

LEMMA AllSound ==
  \A v \in 1..29 : SoundAll(v, Migration[v])
  <1>1. /\ Migration[1] = V1 /\ Migration[2] = V2 /\ Migration[3] = V3 /\ Migration[4] = V4 /\ Migration[5] = V5
        /\ Migration[6] = V6 /\ Migration[7] = V7 /\ Migration[8] = V8 /\ Migration[9] = V9 /\ Migration[10] = V10
        /\ Migration[11] = V11 /\ Migration[12] = V12 /\ Migration[13] = V13 /\ Migration[14] = V14 /\ Migration[15] = V15
        /\ Migration[16] = V16 /\ Migration[17] = V17 /\ Migration[18] = V18 /\ Migration[19] = V19 /\ Migration[20] = V20
        /\ Migration[21] = V21 /\ Migration[22] = V22 /\ Migration[23] = V23 /\ Migration[24] = V24 /\ Migration[25] = V25
        /\ Migration[26] = V26 /\ Migration[27] = V27 /\ Migration[28] = V28 /\ Migration[29] = V29
    BY DEF Migration
  <1>2. \A v \in 1..29 : v <= 15 => SoundAll(v, Migration[v])
    BY <1>1, Sound1, Sound2, Sound3, Sound4, Sound5, Sound6, Sound7, Sound8, Sound9, Sound10, Sound11, Sound12,
       Sound13, Sound14, Sound15
  <1>3. \A v \in 1..29 : v > 15 => SoundAll(v, Migration[v])
    BY <1>1, Sound16, Sound17, Sound18, Sound19, Sound20, Sound21, Sound22, Sound23, Sound24, Sound25, Sound26,
       Sound27, Sound28, Sound29
  <1> QED
    BY <1>2, <1>3
LEMMA Latest29 == SchemaVersion = 29
  BY DEF SchemaVersion, Migration

\* The statements of a migration, the last of which sets the version.
LEMMA StatementsAre ==
  ASSUME NEW v \in 1..29
  PROVE  /\ Len(Statements(v)) \in Nat \ {0} /\ Statements(v)[Len(Statements(v))] = Version(v)
         /\ Len(Migration[v]) = Len(Statements(v)) - 1 /\ DOMAIN Migration[v] = 1..(Len(Statements(v)) - 1)
         /\ \A i \in 1..(Len(Statements(v)) - 1) : /\ Statements(v)[i] = Migration[v][i]
                                                  /\ Sound(v, i, Statements(v)[i])
         /\ Txn(v, Len(Statements(v))) /\ v < 29 => Txn(v + 1, 1)
  <1>1. PICK m : m = Migration[v]
    OBVIOUS
  <1>2. SoundAll(v, m)
    BY <1>1, AllSound
  <1>3. PICK S : m \in Seq(S)
    BY <1>2 DEF SoundAll
  <1>4. PICK T : S \subseteq T /\ Version(v) \in T
    <2>1. S \subseteq S \cup {Version(v)} /\ Version(v) \in S \cup {Version(v)}
      OBVIOUS
    <2> QED
      BY <2>1
  <1>5. m \in Seq(T) /\ Len(m) \in Nat /\ DOMAIN m = 1..Len(m)
    BY <1>3, <1>4, SeqMonotonic, LenProperties
  <1>6. Statements(v) = Append(m, Version(v))
    BY <1>1 DEF Statements
  <1>7. /\ Len(Statements(v)) = Len(m) + 1 /\ Statements(v)[Len(m) + 1] = Version(v)
        /\ \A i \in 1..Len(m) : Statements(v)[i] = m[i]
    BY <1>4, <1>5, <1>6
  <1>8. Txn(v, Len(m) + 1) /\ v < 29 => Txn(v + 1, 1)
    BY <1>2 DEF SoundAll
  <1>9. \A i \in 1..Len(m) : Sound(v, i, m[i])
    BY <1>2 DEF SoundAll
  <1> QED
    BY <1>1, <1>5, <1>7, <1>8, <1>9
LEMMA Lengths ==
  ASSUME NEW v \in 1..29
  PROVE  /\ Len(Statements(v)) \in Nat \ {0} /\ Len(Migration[v]) \in Nat
         /\ Len(Statements(v)) = Len(Migration[v]) + 1
  <1>1. Len(Statements(v)) \in Nat \ {0}
    BY StatementsAre
  <1>2. Len(Migration[v]) = Len(Statements(v)) - 1
    BY StatementsAre
  <1> QED
    BY <1>1, <1>2
LEMMA TriggerStatements ==
  ASSUME NEW v \in 1..29, NEW t \in Triggers, v = LastDrop(t)
  PROVE  /\ Len(Statements(v)) > CreateAt(t)
         /\ Statements(v)[4].op = "drop" /\ t \in Statements(v)[4].triggers
         /\ Statements(v)[CreateAt(t)].op = "create" /\ Statements(v)[CreateAt(t)].trigger = t
  <1>1. SoundAll(v, Migration[v])
    BY AllSound
  <1>2. /\ Len(Migration[v]) >= CreateAt(t) /\ Migration[v][4].op = "drop" /\ t \in Migration[v][4].triggers
        /\ Migration[v][CreateAt(t)].op = "create" /\ Migration[v][CreateAt(t)].trigger = t
    BY <1>1 DEF SoundAll
  <1>3. CreateAt(t) \in {5, 6, 7}
    BY DEF CreateAt
  <1>0. Len(Migration[v]) \in Nat /\ Len(Statements(v)) = Len(Migration[v]) + 1
    BY Lengths
  <1>4. /\ 4 \in 1..(Len(Statements(v)) - 1) /\ CreateAt(t) \in 1..(Len(Statements(v)) - 1)
        /\ Len(Statements(v)) > CreateAt(t)
    BY <1>0, <1>2, <1>3
  <1>5. Statements(v)[4] = Migration[v][4] /\ Statements(v)[CreateAt(t)] = Migration[v][CreateAt(t)]
    BY <1>4, StatementsAre
  <1> QED
    BY <1>2, <1>4, <1>5
LEMMA Version3 == Len(Statements(3)) = 7
  <1>1. 3 \in 1..29
    OBVIOUS
  <1>2. Len(Migration[3]) = 6
    BY <1>1, AllSound DEF SoundAll
  <1>3. Len(Migration[3]) \in Nat /\ Len(Statements(3)) = Len(Migration[3]) + 1
    BY <1>1, Lengths
  <1> QED
    BY <1>2, <1>3
\* Version 29 refiles the rows and does nothing else.
LEMMA Version29 == Len(Statements(29)) = 2 /\ Statements(29)[1].op = "fill" /\ Statements(29)[2].op = "version"
  <1>1. 29 \in 1..29
    OBVIOUS
  <1>2. Migration[29] = V29
    BY DEF Migration
  <1>3. Len(V29) = 1 /\ V29[1].op = "fill"
    BY DEF V29, Fill
  <1>4. Len(Migration[29]) \in Nat /\ Len(Statements(29)) = Len(Migration[29]) + 1
    BY <1>1, Lengths
  <1>5. Len(Statements(29)) = 2
    BY <1>2, <1>3, <1>4
  <1>6. Statements(29)[2] = Version(29)
    BY <1>1, <1>5, StatementsAre
  <1>7. Statements(29)[1] = V29[1]
    <2>1. 1 \in 1..(Len(Statements(29)) - 1)
      BY <1>5
    <2> QED
      BY <1>1, <1>2, <2>1, StatementsAre
  <1> QED
    BY <1>3, <1>5, <1>6, <1>7 DEF Version

-----------------------------------------------------------------------------
(* What a statement does to a store.                                       *)
IsStore(s) ==
    /\ s = [version |-> s.version, objects |-> s.objects, triggers |-> s.triggers, flag |-> s.flag,
            rev |-> s.rev, refiled |-> s.refiled, outbox |-> s.outbox]
    /\ s.version \in 0..29 /\ DOMAIN s.triggers = Triggers
    /\ s.rev \in [Rows -> Nat]

\* n has the rows, the flag and the outbox of s.
SameRows(s, n) == n.flag = s.flag /\ n.rev = s.rev /\ n.refiled = s.refiled /\ n.outbox = s.outbox

LEMMA ObjectsAdded ==
  ASSUME NEW s, IsStore(s), NEW x, x.op \in {"alter", "make", "add"}
  PROVE  LET n == Effect(s, x) IN
         /\ IsStore(n) /\ SameRows(s, n) /\ n.version = s.version /\ n.triggers = s.triggers
         /\ n.objects = s.objects \cup x.objects
  <1>1. Effect(s, x) = [s EXCEPT !.objects = @ \cup x.objects]
    BY DEF Effect
  <1> QED
    BY <1>1 DEF IsStore, SameRows
LEMMA TriggersDropped ==
  ASSUME NEW s, IsStore(s), NEW x, x.op = "drop"
  PROVE  LET n == Effect(s, x) IN
         /\ IsStore(n) /\ SameRows(s, n) /\ n.version = s.version /\ n.objects = s.objects
         /\ \A t \in Triggers : n.triggers[t] = IF t \in x.triggers THEN Absent ELSE s.triggers[t]
  <1>1. PICK new : new = [t \in Triggers |-> IF t \in x.triggers THEN Absent ELSE s.triggers[t]]
    OBVIOUS
  <1>2. Effect(s, x) = [s EXCEPT !.triggers = new]
    BY <1>1 DEF Effect
  <1>3. Effect(s, x) = [version |-> s.version, objects |-> s.objects, triggers |-> new, flag |-> s.flag,
                        rev |-> s.rev, refiled |-> s.refiled, outbox |-> s.outbox]
    BY <1>2 DEF IsStore
  <1> QED
    BY <1>1, <1>3 DEF IsStore, SameRows
LEMMA TriggerCreated ==
  ASSUME NEW s, IsStore(s), NEW x, x.op = "create", x.trigger \in Triggers
  PROVE  LET n == Effect(s, x) IN
         /\ IsStore(n) /\ SameRows(s, n) /\ n.version = s.version /\ n.objects = s.objects
         /\ \A t \in Triggers : n.triggers[t] = IF t = x.trigger /\ s.triggers[t] = Absent THEN x.as ELSE s.triggers[t]
  <1>1. PICK new : new = [s.triggers EXCEPT ![x.trigger] = IF @ = Absent THEN x.as ELSE @]
    OBVIOUS
  <1>2. Effect(s, x) = [s EXCEPT !.triggers = new]
    BY <1>1 DEF Effect
  <1>3. Effect(s, x) = [version |-> s.version, objects |-> s.objects, triggers |-> new, flag |-> s.flag,
                        rev |-> s.rev, refiled |-> s.refiled, outbox |-> s.outbox]
    BY <1>2 DEF IsStore
  <1>4. DOMAIN new = Triggers
        /\ \A t \in Triggers : new[t] = IF t = x.trigger /\ s.triggers[t] = Absent THEN x.as ELSE s.triggers[t]
    BY <1>1 DEF IsStore
  <1> QED
    BY <1>3, <1>4 DEF IsStore, SameRows
LEMMA VersionSet ==
  ASSUME NEW s, IsStore(s), NEW v \in 0..29
  PROVE  LET n == Effect(s, Version(v)) IN
         /\ IsStore(n) /\ SameRows(s, n) /\ n.version = v /\ n.triggers = s.triggers /\ n.objects = s.objects
  <1>1. Version(v).op = "version" /\ Version(v).v = v
    BY DEF Version
  <1>2. Effect(s, Version(v)) = [s EXCEPT !.version = v]
    BY <1>1 DEF Effect
  <1> QED
    BY <1>2 DEF IsStore, SameRows

\* DML keeps everything but rows and outbox, changes the rows it refiles only, and adds none.
SameRest(s, n) == n.version = s.version /\ n.objects = s.objects /\ n.triggers = s.triggers /\ n.flag = s.flag
Refiled(s, n) ==
    /\ s.refiled \subseteq n.refiled
    /\ \A r \in Rows : /\ r \notin n.refiled => n.rev[r] = s.rev[r]
                       /\ s.rev[r] = 0 => n.rev[r] = 0
OutboxAdded(s, n, what) ==
    /\ s.outbox \subseteq n.outbox
    /\ what = "outbox" => n.outbox = s.outbox \cup Everything(s, Present(s), 3)
    /\ what # "refile" => n.rev = s.rev
    /\ what = "refile" =>
         \A r \in Rows : IF r \in Present(s) /\ KindOf[r] = "palace" /\ r \notin s.refiled
                         THEN /\ n.rev[r] = s.rev[r] + 1
                              /\ Logged(s, r, s.rev[r] + 1, "update", TRUE) \subseteq n.outbox
                         ELSE n.rev[r] = s.rev[r]
LEMMA RowsFilled ==
  ASSUME NEW s, IsStore(s), NEW what
  PROVE  LET n == Filled(s, what) IN
         IsStore(n) /\ SameRest(s, n) /\ Refiled(s, n) /\ OutboxAdded(s, n, what)
  <1>1. CASE what \in {"outbox", "accessed_at"}
    <2>1. PICK more : /\ Filled(s, what) = [s EXCEPT !.outbox = @ \cup more]
                      /\ what = "outbox" => more = Everything(s, Present(s), 3)
      BY <1>1 DEF Filled
    <2>2. Filled(s, what) = [version |-> s.version, objects |-> s.objects, triggers |-> s.triggers, flag |-> s.flag,
                             rev |-> s.rev, refiled |-> s.refiled, outbox |-> s.outbox \cup more]
      BY <2>1 DEF IsStore
    <2> QED
      BY <1>1, <2>1, <2>2 DEF IsStore, SameRest, Refiled, OutboxAdded
  <1>2. CASE what = "refile"
    <2>1. PICK P : P = {r \in Present(s) : KindOf[r] = "palace" /\ r \notin s.refiled}
      OBVIOUS
    <2>2. PICK new : new = [r \in Rows |-> IF r \in P THEN s.rev[r] + 1 ELSE s.rev[r]]
      OBVIOUS
    <2>3. PICK more : more = UNION {Logged(s, r, s.rev[r] + 1, "update", TRUE) : r \in P}
      OBVIOUS
    <2>4. Filled(s, what) = [s EXCEPT !.rev = [r \in Rows |-> IF r \in P THEN @[r] + 1 ELSE @[r]],
                                      !.refiled = @ \cup P, !.outbox = @ \cup more]
      BY <1>2, <2>1, <2>3 DEF Filled
    <2>5. Filled(s, what) = [version |-> s.version, objects |-> s.objects, triggers |-> s.triggers, flag |-> s.flag,
                             rev |-> new, refiled |-> s.refiled \cup P, outbox |-> s.outbox \cup more]
      <3>1. PICK a : a = [s EXCEPT !.rev = [r \in Rows |-> IF r \in P THEN @[r] + 1 ELSE @[r]]]
        OBVIOUS
      <3>2. PICK b : b = [a EXCEPT !.refiled = @ \cup P]
        OBVIOUS
      <3>3. Filled(s, what) = [b EXCEPT !.outbox = @ \cup more]
        BY <2>4, <3>1, <3>2, Zenon
      <3>4. a = [version |-> s.version, objects |-> s.objects, triggers |-> s.triggers, flag |-> s.flag,
                 rev |-> new, refiled |-> s.refiled, outbox |-> s.outbox]
        BY <2>2, <3>1 DEF IsStore
      <3>5. b = [version |-> s.version, objects |-> s.objects, triggers |-> s.triggers, flag |-> s.flag,
                 rev |-> new, refiled |-> s.refiled \cup P, outbox |-> s.outbox]
        BY <3>2, <3>4
      <3> QED
        BY <3>3, <3>5
    <2>6. new \in [Rows -> Nat] /\ P \subseteq Rows
      BY <2>1, <2>2 DEF IsStore, Present
    <2>7. \A r \in P : Logged(s, r, s.rev[r] + 1, "update", TRUE) \subseteq more
      BY <2>3
    <2>8. PICK n : n = Filled(s, what)
      OBVIOUS
    <2>9. n.rev = new /\ n.refiled = s.refiled \cup P /\ n.outbox = s.outbox \cup more /\ IsStore(n) /\ SameRest(s, n)
      BY <2>5, <2>6, <2>8 DEF IsStore, SameRest
    <2>10. Refiled(s, n)
      BY <2>1, <2>2, <2>9 DEF Refiled, Present
    <2>11. OutboxAdded(s, n, what)
      BY <1>2, <2>1, <2>2, <2>7, <2>9 DEF OutboxAdded, Present
    <2> QED
      BY <2>8, <2>9, <2>10, <2>11
  <1>3. CASE what \notin {"outbox", "accessed_at", "refile"}
    <2>1. Filled(s, what) = s
      BY <1>3 DEF Filled
    <2> QED
      BY <1>3, <2>1 DEF SameRest, Refiled, OutboxAdded
  <1> QED
    BY <1>1, <1>2, <1>3

-----------------------------------------------------------------------------
(* The tables and columns of the versions.                                 *)
AddsObjects == {"alter", "make", "probe", "add"}
ObjectsOf(v) == UNION {stmt.objects : stmt \in {x \in Range(Migration[v]) : "objects" \in DOMAIN x}}

LEMMA StatementObjects ==
  ASSUME NEW x, IsStatement(x)
  PROVE  "objects" \in DOMAIN x <=> x.op \in AddsObjects
  BY DEF IsStatement, AddsObjects

LEMMA ObjectsOfIs ==
  ASSUME NEW v \in 1..29
  PROVE  /\ \A i \in 1..(Len(Statements(v)) - 1) : Statements(v)[i].op \in AddsObjects
                                                    => Statements(v)[i].objects \subseteq ObjectsOf(v)
         /\ \A o \in ObjectsOf(v) : \E i \in 1..(Len(Statements(v)) - 1) :
                                      Statements(v)[i].op \in AddsObjects /\ o \in Statements(v)[i].objects
  <1> DEFINE s == Statements(v)
             n == Len(s) - 1
             has == {x \in Range(Migration[v]) : "objects" \in DOMAIN x}
  <1>1. DOMAIN Migration[v] = 1..n /\ \A i \in 1..n : s[i] = Migration[v][i] /\ IsStatement(s[i])
    BY StatementsAre DEF Sound
  <1>2. \A x : x \in has <=> (\E i \in 1..n : x = s[i]) /\ x.op \in AddsObjects
    <2>1. \A x : x \in Range(Migration[v]) <=> \E i \in 1..n : x = s[i]
      BY <1>1 DEF Range
    <2> HIDE DEF s, n
    <2>2. \A x : (\E i \in 1..n : x = s[i]) => ("objects" \in DOMAIN x <=> x.op \in AddsObjects)
      BY <1>1, StatementObjects
    <2> QED
      BY <2>1, <2>2
  <1>3. ObjectsOf(v) = UNION {x.objects : x \in has}
    BY DEF ObjectsOf
  <1> HIDE DEF s, n, has
  <1>4. \A i \in 1..n : s[i].op \in AddsObjects => s[i].objects \subseteq ObjectsOf(v)
    BY <1>2, <1>3
  <1>5. \A o \in ObjectsOf(v) : \E i \in 1..n : s[i].op \in AddsObjects /\ o \in s[i].objects
    BY <1>2, <1>3
  <1> QED
    BY <1>4, <1>5 DEF s, n

LEMMA ObjectsAtIs ==
  ASSUME NEW v \in 0..29
  PROVE  /\ \A w \in 0..v : ObjectsAt(w) \subseteq ObjectsAt(v)
         /\ v > 0 => ObjectsAt(v) = ObjectsAt(v - 1) \cup ObjectsOf(v)
  <1>1. \A u \in 0..29 : ObjectsAt(u) = BaseSchema \cup UNION {ObjectsOf(i) : i \in 1..u}
    BY DEF ObjectsAt, ObjectsOf
  <1>2. \A w \in 0..v : 1..w \subseteq 1..v
    OBVIOUS
  <1>3. \A w \in 0..v : ObjectsAt(w) \subseteq ObjectsAt(v)
    BY <1>1, <1>2
  <1>4. ASSUME v > 0 PROVE ObjectsAt(v) = ObjectsAt(v - 1) \cup ObjectsOf(v)
    <2>1. \A u \in 0..29 : \A x : x \in ObjectsAt(u) <=> x \in BaseSchema \/ \E i \in 1..u : x \in ObjectsOf(i)
      BY <1>1
    <2>2. \A i : i \in 1..v <=> i \in 1..(v - 1) \/ i = v
      BY <1>4
    <2>3. \A x : (\E i \in 1..v : x \in ObjectsOf(i)) <=> (\E i \in 1..(v - 1) : x \in ObjectsOf(i)) \/ x \in ObjectsOf(v)
      BY <2>2, Zenon
    <2>4. v - 1 \in 0..29
      BY <1>4
    <2>5. \A x : x \in ObjectsAt(v) <=> x \in ObjectsAt(v - 1) \/ x \in ObjectsOf(v)
      BY <2>1, <2>3, <2>4, Zenon
    <2> QED
      BY <2>5
  <1> QED
    BY <1>3, <1>4

\* Version 28 looks for its column and adds it.
LEMMA Version28 ==
  /\ Len(Statements(28)) = 3 /\ Statements(28)[1].op = "probe" /\ Statements(28)[2].op = "add"
  /\ Statements(28)[1].objects = {"last_pull_seq"} /\ Statements(28)[2].objects = {"last_pull_seq"}
  <1>1. Migration[28] = V28
    BY DEF Migration
  <1>2. Len(V28) = 2 /\ V28[1].op = "probe" /\ V28[2].op = "add"
        /\ V28[1].objects = {"last_pull_seq"} /\ V28[2].objects = {"last_pull_seq"}
    BY DEF V28
  <1> QED
    BY <1>1, <1>2, StatementsAre

\* The store with the objects O has all that precedes statement i of migration v.
Has(O, v, i) ==
    /\ ObjectsAt(v - 1) \subseteq O
    /\ \A j \in 1..(i - 1) : Statements(v)[j].op \in {"alter", "make", "add"} => Statements(v)[j].objects \subseteq O

LEMMA HasMore ==
  ASSUME NEW O, NEW Q, O \subseteq Q, NEW v, NEW i, Has(O, v, i)
  PROVE  Has(Q, v, i)
  BY DEF Has
LEMMA HasVersion ==
  ASSUME NEW O, NEW v \in 1..29, Has(O, v, Len(Statements(v)))
  PROVE  ObjectsAt(v) \subseteq O
  <1>1. ASSUME NEW o \in ObjectsOf(v) PROVE o \in O
    <2>1. PICK i \in 1..(Len(Statements(v)) - 1) : Statements(v)[i].op \in AddsObjects /\ o \in Statements(v)[i].objects
      BY <1>1, ObjectsOfIs
    <2>2. CASE Statements(v)[i].op # "probe"
      BY <2>1, <2>2 DEF Has, AddsObjects
    <2>3. CASE Statements(v)[i].op = "probe"
      <3>1. Sound(v, i, Statements(v)[i])
        BY <2>1, StatementsAre
      <3>2. v = 28
        BY <2>3, <3>1 DEF Sound
      <3>3. i = 1
        <4>1. Len(Statements(v)) = 3
          BY <3>2, Version28
        <4>2. i \in {1, 2}
          BY <4>1
        <4> QED
          BY <2>3, <3>2, <4>2, Version28
      <3>4. 2 \in 1..(Len(Statements(28)) - 1)
        BY Version28
      <3>5. Statements(28)[2].objects \subseteq O
        BY <3>2, <3>4, Version28 DEF Has
      <3> QED
        BY <2>1, <3>2, <3>3, <3>5, Version28
    <2> QED
      BY <2>2, <2>3
  <1>2. ObjectsAt(v) = ObjectsAt(v - 1) \cup ObjectsOf(v)
    <2>1. v \in 0..29 /\ v > 0
      OBVIOUS
    <2> QED
      BY <2>1, ObjectsAtIs
  <1> QED
    BY <1>1, <1>2 DEF Has
\* One statement further.
LEMMA HasNext ==
  ASSUME NEW O, NEW v \in 1..29, NEW i \in 1..(Len(Statements(v)) - 1), Has(O, v, i),
         Statements(v)[i].op \in {"alter", "make", "add"} => Statements(v)[i].objects \subseteq O
  PROVE  Has(O, v, i + 1)
  <1>1. \A j \in 1..((i + 1) - 1) : j \in 1..(i - 1) \/ j = i
    BY StatementsAre
  <1> QED
    BY <1>1 DEF Has
LEMMA HasNone ==
  ASSUME NEW O, NEW v \in 1..29, ObjectsAt(v - 1) \subseteq O
  PROVE  Has(O, v, 1)
  BY DEF Has

-----------------------------------------------------------------------------
(* The invariant.                                                          *)
OpenStages == {"down", "snapshot", "migrate", "commit", "flag", "reconcile", "open"}
IsPlace(x) == x = <<x[1], x[2]>> /\ x[1] \in 1..29 /\ x[2] \in 1..Len(Statements(x[1]))
MigShape ==
    /\ IsStore(disk) /\ IsStore(work)
    /\ holder \in Openers \cup {NoOpener} /\ (holder = NoOpener => work = disk)
    /\ stage \in [Openers -> OpenStages]
    /\ at = [p \in Openers |-> at[p]] /\ \A p \in Openers : IsPlace(at[p])
    /\ found = [p \in Openers |-> found[p]]
    /\ snapshots \in Seq([version : 0..29, rev : [Rows -> Nat]])
    /\ \A p \in Openers : holder = p => stage[p] = "commit" \/ (stage[p] = "migrate" /\ Txn(at[p][1], at[p][2]))

\* n has come from s by the statements of a transaction.
Ahead(s, n) ==
    /\ s.objects \subseteq n.objects /\ s.triggers = n.triggers /\ s.flag = n.flag
    /\ Refiled(s, n)
Full(s) == ObjectsAt(s.version) \subseteq s.objects /\ s.objects \subseteq ObjectsAt(29)

\* Backup i of the store s, were it to be migrated now.
Covered(s) ==
    (\E r \in Rows : IsMemory(r) /\ s.rev[r] > 0) =>
        \E i \in 1..Len(snapshots) : \A r \in Rows : IsMemory(r) /\ r \notin s.refiled => snapshots[i].rev[r] = s.rev[r]
Migrating(p) == stage[p] \in {"snapshot", "migrate"}
Upgrading(p) ==
    /\ Migrating(p) => Has(View(p).objects, at[p][1], at[p][2])
    /\ stage[p] = "migrate" /\ at[p] = <<28, 2>> /\ found[p] = "column" => "last_pull_seq" \in View(p).objects
    /\ stage[p] = "snapshot" => at[p][2] = 1
    /\ stage[p] \in {"migrate", "commit"} => spared \/ Covered(disk)

\* p is still to drop the trigger t; it has dropped it and is still to create it.
Behind(p, t) == Migrating(p) /\ (at[p][1] < LastDrop(t) \/ (at[p][1] = LastDrop(t) /\ at[p][2] <= 4))
Between(p, t) == Migrating(p) /\ at[p][1] = LastDrop(t) /\ at[p][2] \in 5..CreateAt(t)
Coming(t) ==
    \/ Final(t, disk.triggers[t])
    \/ \E p \in Openers : Behind(p, t)
    \/ disk.triggers[t] = Absent /\ \E p \in Openers : Between(p, t)
    \/ Opening = {} /\ disk.version < LastDrop(t)

\* What is logged of a store; filled: the outbox has been filled by v3; early: v29
\* has not refiled anything.
LoggedRow(s, r) == \E e \in s.outbox : /\ e.row = r /\ e.rev = s.rev[r]
                                       /\ IsMemory(r) /\ e.rev > 1 => e.columns = Latest
LoggedAll(s) == \A r \in Present(s) : KindOf[r] # "relation" => LoggedRow(s, r)
Kept(s, filled, early) ==
    /\ s.flag \in {"unset", "0", "1"}
    /\ s.flag = "unset" => \A r \in Rows : KindOf[r] = "palace" => s.rev[r] = 0
    /\ s.flag = "1" \/ (s.flag = "unset" /\ filled) => LoggedAll(s)
    /\ early => \A r \in Rows : s.rev[r] <= 1
FilledAt(v, i) == v > 3 \/ (v = 3 /\ i = 7)
EarlyAt(v, i) == v < 29 \/ i = 1
KeptDisk(s) == Kept(s, s.version >= 3, s.version < 29)
KeptAt(s, v, i) == s.version < v /\ Kept(s, FilledAt(v, i), EarlyAt(v, i))
AloneRight(p) ==
    /\ stage[p] = "snapshot" => at[p] = <<disk.version + 1, 1>>
    /\ stage[p] = "migrate" => disk.version < at[p][1] /\ KeptAt(View(p), at[p][1], at[p][2])
    /\ stage[p] = "commit" => View(p).version = 29 /\ Kept(View(p), TRUE, FALSE)
    /\ stage[p] \in {"flag", "reconcile", "open"} => disk.version = 29
    /\ stage[p] = "reconcile" => found[p] = disk.flag
    /\ stage[p] = "open" => disk.flag \in {"0", "1"}
Alone ==
    ~together => /\ KeptDisk(disk)
                 /\ \A p \in Openers : AloneRight(p)
                 /\ \A p, q \in Opening : p = q
MigInv ==
    /\ MigShape /\ Ahead(disk, work) /\ Full(disk) /\ Full(work)
    /\ \A p \in Openers : Upgrading(p)
    /\ \A t \in Triggers : Coming(t)
    /\ Alone

-----------------------------------------------------------------------------
(* What statement i of migration v does to a store.                        *)
Grows(s, n) == s.objects \subseteq n.objects /\ n.flag = s.flag /\ Refiled(s, n)
TriggerRan(s, n, v, i, t) ==
    /\ \/ n.triggers[t] = s.triggers[t]
       \/ v < LastDrop(t)
       \/ v = LastDrop(t) /\ i = 4
       \/ v = LastDrop(t) /\ i = CreateAt(t)
    /\ v = LastDrop(t) /\ i = 4 => n.triggers[t] = Absent
    /\ v = LastDrop(t) /\ i = CreateAt(t) => IF s.triggers[t] = Absent THEN Final(t, n.triggers[t])
                                                                       ELSE n.triggers[t] = s.triggers[t]
RowsRan(s, n, v, i) ==
    /\ s.outbox \subseteq n.outbox
    /\ v = 3 /\ i = 6 => Everything(s, Present(s), 3) \subseteq n.outbox
    /\ \/ n.rev = s.rev
       \/ v = 29 /\ i = 1 /\ OutboxAdded(s, n, "refile")
ObjectsRan(s, n, v, i) ==
    IF i = Len(Statements(v)) THEN n.version = v /\ ObjectsAt(v) \subseteq n.objects
                              ELSE n.version = s.version /\ Has(n.objects, v, i + 1)
Ran(s, n, v, i) ==
    /\ IsStore(n) /\ Full(n) /\ Grows(s, n)
    /\ ObjectsRan(s, n, v, i) /\ RowsRan(s, n, v, i)
    /\ \A t \in Triggers : TriggerRan(s, n, v, i, t)
    /\ Txn(v, i) \/ Statements(v)[i].op = "fill" => n.triggers = s.triggers

LEMMA SameRowsRan ==
  ASSUME NEW s, NEW n, SameRows(s, n), NEW v, NEW i, ~(v = 3 /\ i = 6)
  PROVE  RowsRan(s, n, v, i) /\ Refiled(s, n) /\ n.flag = s.flag
  BY DEF SameRows, RowsRan, Refiled

\* The places of the statements about triggers hold no others.
LEMMA TriggerPlaces ==
  ASSUME NEW v \in 1..29, NEW i \in 1..Len(Statements(v)), NEW t \in Triggers, v = LastDrop(t)
  PROVE  /\ i = 4 => Statements(v)[i].op = "drop" /\ t \in Statements(v)[i].triggers
         /\ i = CreateAt(t) => Statements(v)[i].op = "create" /\ Statements(v)[i].trigger = t
         /\ i \in {4, CreateAt(t)} => i < Len(Statements(v))
         /\ CreateAt(t) \in 5..7
  <1>1. CreateAt(t) \in 5..7
    BY DEF CreateAt
  <1>2. Len(Statements(v)) \in Nat
    BY Lengths
  <1>3. /\ Len(Statements(v)) > CreateAt(t)
        /\ Statements(v)[4].op = "drop" /\ t \in Statements(v)[4].triggers
        /\ Statements(v)[CreateAt(t)].op = "create" /\ Statements(v)[CreateAt(t)].trigger = t
    BY TriggerStatements
  <1> QED
    BY <1>1, <1>2, <1>3

LEMMA NoTriggerRan ==
  ASSUME NEW v \in 1..29, NEW i \in 1..Len(Statements(v)), NEW s, NEW n, n.triggers = s.triggers,
         Statements(v)[i].op \notin {"drop", "create"}
  PROVE  /\ \A t \in Triggers : TriggerRan(s, n, v, i, t)
         /\ Txn(v, i) \/ Statements(v)[i].op = "fill" => n.triggers = s.triggers
  BY TriggerPlaces DEF TriggerRan

\* A statement other than the last one is sound.
LEMMA IsSound ==
  ASSUME NEW v \in 1..29, NEW i \in 1..Len(Statements(v)), i # Len(Statements(v))
  PROVE  i \in 1..(Len(Statements(v)) - 1) /\ Sound(v, i, Statements(v)[i]) /\ Statements(v)[i].op # "version"
  <1>0. Len(Statements(v)) \in Nat \ {0}
    BY Lengths
  <1>1. i \in 1..(Len(Statements(v)) - 1)
    BY <1>0
  <1>2. Sound(v, i, Statements(v)[i])
    BY <1>1, StatementsAre
  <1> QED
    BY <1>1, <1>2 DEF Sound, IsStatement
LEMMA LastIs ==
  ASSUME NEW v \in 1..29
  PROVE  Statements(v)[Len(Statements(v))] = Version(v)
  BY StatementsAre
LEMMA OtherStatements ==
  ASSUME NEW v \in 1..29, NEW i \in 1..Len(Statements(v)), i # Len(Statements(v))
  PROVE  Statements(v)[i].op \in {"alter", "make", "probe", "add", "fill", "drop", "create", "commit"}
  <1>1. IsStatement(Statements(v)[i])
    BY IsSound DEF Sound
  <1> QED
    BY <1>1 DEF IsStatement

LEMMA VersionRan ==
  ASSUME NEW v \in 1..29, NEW i, i = Len(Statements(v)), NEW s, IsStore(s), Full(s), Has(s.objects, v, i)
  PROVE  Ran(s, Effect(s, Statements(v)[i]), v, i)
  <1>1. PICK n : n = Effect(s, Version(v))
    OBVIOUS
  <1>2. IsStore(n) /\ SameRows(s, n) /\ n.version = v /\ n.triggers = s.triggers /\ n.objects = s.objects
    <2>1. v \in 0..29
      OBVIOUS
    <2> QED
      BY <1>1, <2>1, VersionSet
  <1>3. Statements(v)[i] = Version(v) /\ i \in 1..Len(Statements(v))
    <2>1. Statements(v)[i] = Version(v)
      BY LastIs
    <2>2. Len(Statements(v)) \in Nat \ {0}
      BY Lengths
    <2> QED
      BY <2>1, <2>2
  <1>4. ObjectsAt(v) \subseteq s.objects
    BY HasVersion
  <1>5. ~(v = 3 /\ i = 6)
    <2>1. ASSUME v = 3 PROVE i = 7
      BY <2>1, Version3
    <2>2. i = 7 => i # 6
      OBVIOUS
    <2> QED
      BY <2>1, <2>2
  <1>6. RowsRan(s, n, v, i) /\ Refiled(s, n) /\ n.flag = s.flag
    BY <1>2, <1>5, SameRowsRan
  <1>7. Statements(v)[i].op = "version"
    BY <1>3 DEF Version
  <1>8. /\ \A t \in Triggers : TriggerRan(s, n, v, i, t)
        /\ Txn(v, i) \/ Statements(v)[i].op = "fill" => n.triggers = s.triggers
    BY <1>2, <1>3, <1>7, NoTriggerRan
  <1>9. Full(n) /\ Grows(s, n) /\ ObjectsRan(s, n, v, i)
    BY <1>2, <1>4, <1>6 DEF Full, Grows, ObjectsRan
  <1>10. Ran(s, n, v, i)
    BY <1>2, <1>6, <1>8, <1>9 DEF Ran
  <1> QED
    BY <1>1, <1>3, <1>10

LEMMA IsVersion ==
  ASSUME NEW v \in 1..29
  PROVE  v \in 0..29 /\ v > 0 /\ 29 \in 0..29
  OBVIOUS
LEMMA AddsRan ==
  ASSUME NEW v \in 1..29, NEW i \in 1..Len(Statements(v)), i # Len(Statements(v)),
         NEW s, IsStore(s), Full(s), Has(s.objects, v, i), Statements(v)[i].op \in {"alter", "make", "add"}
  PROVE  Ran(s, Effect(s, Statements(v)[i]), v, i)
  <1>0. PICK x : x = Statements(v)[i]
    OBVIOUS
  <1>1. PICK n : n = Effect(s, x)
    OBVIOUS
  <1>2. /\ IsStore(n) /\ SameRows(s, n) /\ n.version = s.version /\ n.triggers = s.triggers
        /\ n.objects = s.objects \cup x.objects
    BY <1>0, <1>1, ObjectsAdded
  <1>3. i \in 1..(Len(Statements(v)) - 1) /\ Sound(v, i, x)
    BY <1>0, IsSound
  <1>4. ~(v = 3 /\ i = 6)
    BY <1>0, <1>3 DEF Sound
  <1>5. RowsRan(s, n, v, i) /\ Refiled(s, n) /\ n.flag = s.flag
    BY <1>2, <1>4, SameRowsRan
  <1>6. Has(n.objects, v, i + 1)
    <2>1. Has(n.objects, v, i)
      BY <1>2, HasMore
    <2> QED
      BY <1>0, <1>2, <1>3, <2>1, HasNext
  <1>7. x.objects \subseteq ObjectsAt(29)
    <2>1. x.objects \subseteq ObjectsOf(v)
      BY <1>0, <1>3, ObjectsOfIs DEF AddsObjects
    <2>0. v \in 0..29 /\ v > 0 /\ 29 \in 0..29
      BY IsVersion
    <2>2. ObjectsOf(v) \subseteq ObjectsAt(v)
      BY <2>0, ObjectsAtIs
    <2>3. ObjectsAt(v) \subseteq ObjectsAt(29)
      BY <2>0, ObjectsAtIs
    <2> QED
      BY <2>1, <2>2, <2>3
  <1>8. Full(n) /\ Grows(s, n) /\ ObjectsRan(s, n, v, i)
    BY <1>2, <1>5, <1>6, <1>7 DEF Full, Grows, ObjectsRan
  <1>9. /\ \A t \in Triggers : TriggerRan(s, n, v, i, t)
        /\ Txn(v, i) \/ Statements(v)[i].op = "fill" => n.triggers = s.triggers
    BY <1>2, NoTriggerRan
  <1>10. Ran(s, n, v, i)
    BY <1>2, <1>5, <1>8, <1>9 DEF Ran
  <1> QED
    BY <1>0, <1>1, <1>10

LEMMA KeepsObjects ==
  ASSUME NEW v \in 1..29, NEW i \in 1..(Len(Statements(v)) - 1), NEW s, Full(s), Has(s.objects, v, i),
         NEW n, n.objects = s.objects, n.version = s.version,
         Statements(v)[i].op \notin {"alter", "make", "add"}
  PROVE  Full(n) /\ ObjectsRan(s, n, v, i)
  <1>1. Has(s.objects, v, i + 1)
    BY HasNext
  <1>2. i # Len(Statements(v))
    BY Lengths
  <1> QED
    BY <1>1, <1>2 DEF Full, ObjectsRan

LEMMA FillRan ==
  ASSUME NEW v \in 1..29, NEW i \in 1..Len(Statements(v)), i # Len(Statements(v)),
         NEW s, IsStore(s), Full(s), Has(s.objects, v, i), Statements(v)[i].op = "fill"
  PROVE  Ran(s, Effect(s, Statements(v)[i]), v, i)
  <1>0. PICK x : x = Statements(v)[i]
    OBVIOUS
  <1>1. PICK n : n = Filled(s, x.what)
    OBVIOUS
  <1>2. Effect(s, x) = n
    BY <1>0, <1>1 DEF Effect
  <1>3. IsStore(n) /\ SameRest(s, n) /\ Refiled(s, n) /\ OutboxAdded(s, n, x.what)
    BY <1>1, RowsFilled
  <1>4. i \in 1..(Len(Statements(v)) - 1) /\ Sound(v, i, x)
    BY <1>0, IsSound
  <1>5. n.version = s.version /\ n.objects = s.objects /\ n.triggers = s.triggers /\ n.flag = s.flag
    BY <1>3 DEF SameRest
  <1>6. Full(n) /\ ObjectsRan(s, n, v, i)
    BY <1>4, <1>5, KeepsObjects
  <1>7. RowsRan(s, n, v, i)
    <2>1. x.what = "refile" => v = 29 /\ i = 1
      <3>1. x.what = "refile" => v = 29
        BY <1>0, <1>4 DEF Sound
      <3>2. v = 29 => i = 1
        BY <1>4, Version29
      <3> QED
        BY <3>1, <3>2
    <2>2. v = 3 /\ i = 6 => x.what = "outbox"
      BY <1>0, <1>4 DEF Sound
    <2>3. s.outbox \subseteq n.outbox
      BY <1>3 DEF OutboxAdded
    <2>4. v = 3 /\ i = 6 => Everything(s, Present(s), 3) \subseteq n.outbox
      BY <1>3, <2>2 DEF OutboxAdded
    <2>5. n.rev = s.rev \/ (v = 29 /\ i = 1 /\ OutboxAdded(s, n, "refile"))
      <3>1. CASE x.what = "refile"
        BY <1>3, <2>1, <3>1
      <3>2. CASE x.what # "refile"
        BY <1>3, <3>2 DEF OutboxAdded
      <3> QED
        BY <3>1, <3>2
    <2> QED
      BY <2>3, <2>4, <2>5 DEF RowsRan
  <1>8. /\ \A t \in Triggers : TriggerRan(s, n, v, i, t)
        /\ Txn(v, i) \/ Statements(v)[i].op = "fill" => n.triggers = s.triggers
    BY <1>5, NoTriggerRan
  <1>9. Grows(s, n)
    BY <1>3, <1>5 DEF Grows
  <1>10. Ran(s, n, v, i)
    BY <1>3, <1>6, <1>7, <1>8, <1>9 DEF Ran
  <1> QED
    BY <1>0, <1>2, <1>10

LEMMA TriggersRan ==
  ASSUME NEW v \in 1..29, NEW i \in 1..Len(Statements(v)), i # Len(Statements(v)),
         NEW s, IsStore(s), Full(s), Has(s.objects, v, i), Statements(v)[i].op \in {"drop", "create"}
  PROVE  Ran(s, Effect(s, Statements(v)[i]), v, i)
  <1>0. PICK x : x = Statements(v)[i]
    OBVIOUS
  <1>1. PICK n : n = Effect(s, x)
    OBVIOUS
  <1>2. i \in 1..(Len(Statements(v)) - 1) /\ Sound(v, i, x)
    BY <1>0, IsSound
  <1>3. ~Txn(v, i) /\ ~(v = 3 /\ i = 6)
    BY <1>0, <1>2 DEF Sound
  <1>4. /\ IsStore(n) /\ SameRows(s, n) /\ n.version = s.version /\ n.objects = s.objects
        /\ \A t \in Triggers : TriggerRan(s, n, v, i, t)
    <2>1. CASE x.op = "drop"
      <3>1. /\ IsStore(n) /\ SameRows(s, n) /\ n.version = s.version /\ n.objects = s.objects
            /\ \A t \in Triggers : n.triggers[t] = IF t \in x.triggers THEN Absent ELSE s.triggers[t]
        BY <1>1, <2>1, TriggersDropped
      <3>2. \A t \in x.triggers : v < LastDrop(t) \/ (v = LastDrop(t) /\ i = 4)
        BY <1>2, <2>1 DEF Sound
      <3>3. ASSUME NEW t \in Triggers PROVE TriggerRan(s, n, v, i, t)
        <4>1. v = LastDrop(t) /\ i = 4 => t \in x.triggers
          BY <1>0, TriggerPlaces
        <4>2. v = LastDrop(t) => i # CreateAt(t)
          BY <1>0, <2>1, TriggerPlaces
        <4> QED
          BY <3>1, <3>2, <4>1, <4>2 DEF TriggerRan
      <3> QED
        BY <3>1, <3>3
    <2>2. CASE x.op = "create"
      <3>1. /\ x.trigger \in Triggers
            /\ \/ v < LastDrop(x.trigger)
               \/ v = LastDrop(x.trigger) /\ i = CreateAt(x.trigger) /\ Final(x.trigger, x.as)
        BY <1>2, <2>2 DEF Sound
      <3>2. /\ IsStore(n) /\ SameRows(s, n) /\ n.version = s.version /\ n.objects = s.objects
            /\ \A t \in Triggers : n.triggers[t] = IF t = x.trigger /\ s.triggers[t] = Absent THEN x.as ELSE s.triggers[t]
        BY <1>1, <2>2, <3>1, TriggerCreated
      <3>3. ASSUME NEW t \in Triggers PROVE TriggerRan(s, n, v, i, t)
        <4>1. v = LastDrop(t) => i # 4
          BY <1>0, <2>2, TriggerPlaces
        <4>2. v = LastDrop(t) /\ i = CreateAt(t) => t = x.trigger
          BY <1>0, TriggerPlaces
        <4>3. LastDrop(t) \in Nat
          BY DEF LastDrop
        <4> QED
          BY <3>1, <3>2, <4>1, <4>2, <4>3 DEF TriggerRan
      <3> QED
        BY <3>2, <3>3
    <2> QED
      BY <1>0, <2>1, <2>2
  <1>5. RowsRan(s, n, v, i) /\ Refiled(s, n) /\ n.flag = s.flag
    BY <1>3, <1>4, SameRowsRan
  <1>6. Full(n) /\ ObjectsRan(s, n, v, i)
    BY <1>2, <1>4, KeepsObjects
  <1>7. Grows(s, n)
    BY <1>4, <1>5 DEF Grows
  <1>8. Ran(s, n, v, i)
    BY <1>3, <1>4, <1>5, <1>6, <1>7 DEF Ran
  <1> QED
    BY <1>0, <1>1, <1>8

LEMMA StatementRan ==
  ASSUME NEW v \in 1..29, NEW i \in 1..Len(Statements(v)), NEW s, IsStore(s), Full(s), Has(s.objects, v, i),
         Statements(v)[i].op \notin {"probe", "commit"}
  PROVE  Ran(s, Effect(s, Statements(v)[i]), v, i)
  <1>1. CASE i = Len(Statements(v))
    BY <1>1, VersionRan
  <1>2. CASE i # Len(Statements(v))
    BY <1>2, OtherStatements, AddsRan, FillRan, TriggersRan
  <1> QED
    BY <1>1, <1>2

-----------------------------------------------------------------------------
(* Stores that come from one another.                                      *)
LEMMA GrowsSelf ==
  ASSUME NEW s
  PROVE  Grows(s, s) /\ Ahead(s, s)
  BY DEF Grows, Ahead, Refiled
LEMMA RefiledTwice ==
  ASSUME NEW s, NEW n, NEW m, Refiled(s, n), Refiled(n, m)
  PROVE  Refiled(s, m)
  <1>1. s.refiled \subseteq m.refiled
    BY DEF Refiled
  <1>2. ASSUME NEW r \in Rows
        PROVE  (r \notin m.refiled => m.rev[r] = s.rev[r]) /\ (s.rev[r] = 0 => m.rev[r] = 0)
    <2>1. r \notin m.refiled => r \notin n.refiled
      BY DEF Refiled
    <2>2. /\ r \notin m.refiled => m.rev[r] = n.rev[r]
          /\ r \notin n.refiled => n.rev[r] = s.rev[r]
          /\ s.rev[r] = 0 => n.rev[r] = 0
          /\ n.rev[r] = 0 => m.rev[r] = 0
      BY DEF Refiled
    <2> QED
      BY <2>1, <2>2
  <1> QED
    BY <1>1, <1>2 DEF Refiled
LEMMA GrowsTwice ==
  ASSUME NEW s, NEW n, NEW m, Ahead(s, n), Grows(n, m)
  PROVE  Grows(s, m) /\ (m.triggers = n.triggers => Ahead(s, m))
  <1>1. Refiled(s, m)
    BY RefiledTwice DEF Ahead, Grows
  <1> QED
    BY <1>1 DEF Ahead, Grows

\* A backup of the store serves for what it becomes.
LEMMA StaysCovered ==
  ASSUME IsStore(disk), Covered(disk), Grows(disk, disk'), snapshots' = snapshots
  PROVE  Covered(disk)'
  <1> SUFFICES ASSUME \E r \in Rows : IsMemory(r) /\ disk'.rev[r] > 0
               PROVE  \E i \in 1..Len(snapshots) : \A r \in Rows : IsMemory(r) /\ r \notin disk'.refiled =>
                                                     snapshots[i].rev[r] = disk'.rev[r]
    BY DEF Covered, IsMemory
  <1>1. /\ disk.refiled \subseteq disk'.refiled
        /\ \A r \in Rows : (r \notin disk'.refiled => disk'.rev[r] = disk.rev[r]) /\ (disk.rev[r] = 0 => disk'.rev[r] = 0)
    BY DEF Grows, Refiled
  <1>2. PICK r \in Rows : IsMemory(r) /\ disk'.rev[r] > 0
    OBVIOUS
  <1>3. disk.rev[r] > 0
    BY <1>1, <1>2 DEF IsStore
  <1>4. PICK i \in 1..Len(snapshots) : \A q \in Rows : IsMemory(q) /\ q \notin disk.refiled => snapshots[i].rev[q] = disk.rev[q]
    BY <1>2, <1>3 DEF Covered
  <1> QED
    BY <1>1, <1>4

\* What a statement leaves logged.
LEMMA KeptRan ==
  ASSUME NEW s, IsStore(s), NEW n, IsStore(n), n.flag = s.flag, NEW v \in 1..29, NEW i \in Nat, RowsRan(s, n, v, i),
         Kept(s, FilledAt(v, i), EarlyAt(v, i)),
         v = 29 => Final("memories_au", s.triggers["memories_au"]),
         NEW f \in BOOLEAN, f => FilledAt(v, i) \/ (v = 3 /\ i = 6),
         NEW e \in BOOLEAN, e => v < 29
  PROVE  Kept(n, f, e)
  <1>1. \A r \in Rows : s.rev[r] \in Nat /\ n.rev[r] \in Nat
    BY DEF IsStore
  <1>2. CASE n.rev = s.rev
    <2>1. Present(n) = Present(s)
      BY <1>2 DEF Present
    <2>2. ASSUME LoggedAll(s) PROVE LoggedAll(n)
      BY <1>2, <2>1, <2>2 DEF LoggedAll, LoggedRow, RowsRan
    <2>3. ASSUME v = 3, i = 6 PROVE LoggedAll(n)
      <3>1. \A r \in Rows : s.rev[r] <= 1
        BY <2>3 DEF Kept, EarlyAt
      <3>2. ASSUME NEW r \in Present(n) PROVE LoggedRow(n, r)
        <4>1. [row |-> r, rev |-> s.rev[r], columns |-> 3] \in n.outbox
          BY <2>1, <2>3 DEF RowsRan, Everything
        <4>2. r \in Rows
          BY DEF Present
        <4>3. ~(s.rev[r] > 1)
          BY <1>1, <3>1, <4>2
        <4> QED
          BY <1>2, <4>1, <4>3 DEF LoggedRow
      <3> QED
        BY <3>2 DEF LoggedAll
    <2>4. e => \A r \in Rows : n.rev[r] <= 1
      BY <1>2 DEF Kept, EarlyAt
    <2>5. n.flag = "1" \/ (n.flag = "unset" /\ f) => LoggedAll(n)
      BY <2>2, <2>3 DEF Kept
    <2> QED
      BY <1>2, <2>4, <2>5 DEF Kept
  <1>3. CASE v = 29 /\ i = 1 /\ OutboxAdded(s, n, "refile")
    <2>1. \A r \in Rows : IF r \in Present(s) /\ KindOf[r] = "palace" /\ r \notin s.refiled
                          THEN /\ n.rev[r] = s.rev[r] + 1
                               /\ Logged(s, r, s.rev[r] + 1, "update", TRUE) \subseteq n.outbox
                          ELSE n.rev[r] = s.rev[r]
      BY <1>3 DEF OutboxAdded
    <2>2. ASSUME n.flag = "unset" PROVE \A r \in Rows : KindOf[r] = "palace" => n.rev[r] = 0
      <3>1. \A r \in Rows : KindOf[r] = "palace" => s.rev[r] = 0
        BY <2>2 DEF Kept
      <3>2. ASSUME NEW r \in Rows, KindOf[r] = "palace" PROVE n.rev[r] = 0
        <4>1. s.rev[r] = 0
          BY <3>1, <3>2
        <4>2. r \notin Present(s)
          BY <4>1 DEF Present
        <4> QED
          BY <2>1, <4>1, <4>2
      <3> QED
        BY <3>2
    <2>3. Present(n) = Present(s)
      <3>1. ASSUME NEW r \in Rows PROVE n.rev[r] > 0 <=> s.rev[r] > 0
        <4>1. CASE n.rev[r] = s.rev[r]
          BY <4>1
        <4>2. CASE n.rev[r] # s.rev[r]
          <5>1. r \in Present(s) /\ n.rev[r] = s.rev[r] + 1
            BY <2>1, <4>2
          <5> QED
            BY <1>1, <5>1 DEF Present
        <4> QED
          BY <4>1, <4>2
      <3> QED
        BY <3>1 DEF Present
    <2>4. ASSUME LoggedAll(s), n.flag \in {"1", "unset"}, NEW r \in Present(n), KindOf[r] # "relation" PROVE LoggedRow(n, r)
      <3>0. r \in Rows
        BY DEF Present
      <3>1. CASE n.rev[r] = s.rev[r]
        BY <2>3, <2>4, <3>1 DEF LoggedAll, LoggedRow, RowsRan
      <3>2. CASE n.rev[r] # s.rev[r]
        <4>1. /\ KindOf[r] = "palace" /\ n.rev[r] = s.rev[r] + 1
              /\ Logged(s, r, s.rev[r] + 1, "update", TRUE) \subseteq n.outbox
          BY <2>1, <3>0, <3>2
        <4>2. s.rev[r] > 0
          BY <2>3 DEF Present
        <4>3. n.flag = "1"
          BY <2>4, <3>0, <4>1, <4>2 DEF Kept
        <4>4. TriggerOf(r, "update") = "memories_au"
          BY <4>1 DEF TriggerOf, IsMemory
        <4>5. s.triggers["memories_au"] = [columns |-> Latest, gated |-> TRUE, scoped |-> TRUE]
          BY <1>3 DEF Final
        <4>6. [row |-> r, rev |-> s.rev[r] + 1, columns |-> Latest] \in Logged(s, r, s.rev[r] + 1, "update", TRUE)
          BY <4>3, <4>4, <4>5 DEF Logged, Latest
        <4> QED
          BY <4>1, <4>6 DEF LoggedRow
      <3> QED
        BY <3>1, <3>2
    <2>5. n.flag = "1" \/ n.flag = "unset" => LoggedAll(n)
      <3>1. FilledAt(v, i)
        BY <1>3 DEF FilledAt
      <3>2. n.flag = "1" \/ n.flag = "unset" => LoggedAll(s)
        BY <3>1 DEF Kept
      <3> QED
        BY <2>4, <3>2 DEF LoggedAll
    <2>6. ~e
      BY <1>3
    <2> QED
      BY <2>2, <2>5, <2>6 DEF Kept
  <1> QED
    BY <1>2, <1>3 DEF RowsRan

-----------------------------------------------------------------------------
(* A server that runs a statement: the place it moves to, the store that   *)
(* it sees before and after, and where that store is.                      *)
Others(p) == \A q \in Openers : q # p => at'[q] = at[q] /\ stage'[q] = stage[q] /\ found'[q] = found[q]
Moved(p, v, i) ==
    /\ stage' \in [Openers -> OpenStages] /\ at' = [q \in Openers |-> at'[q]] /\ found' = [q \in Openers |-> found'[q]]
    /\ Others(p) /\ IsPlace(at'[p])
    /\ IF i < Len(Statements(v)) THEN stage'[p] = "migrate" /\ at'[p] = <<v, i + 1>>
       ELSE IF v < 29 THEN stage'[p] = "migrate" /\ at'[p] = <<v + 1, 1>>
       ELSE stage'[p] = "commit" /\ at'[p] = at[p]
Moves(p, n) ==
    \/ holder \in {p, NoOpener} /\ disk' = n /\ work' = n /\ holder' = NoOpener
    \/ holder \in {p, NoOpener} /\ disk' = disk /\ work' = n /\ holder' = p
    \/ holder # p /\ n = disk /\ UNCHANGED <<disk, work, holder>>
Runs(p, n) ==
    LET v == at[p][1]
        i == at[p][2]
        op == Statements(v)[i].op
    IN /\ p \in Openers /\ stage[p] = "migrate"
       /\ Ran(View(p), n, v, i) /\ Moves(p, n) /\ Moved(p, v, i)
       /\ holder' = p => op # "commit" /\ (Txn(v, i) \/ op = "fill")
       /\ op = "fill" => disk' = disk
       /\ found'[p] = "column" /\ at'[p] = <<28, 2>> => "last_pull_seq" \in n.objects
       /\ UNCHANGED <<sync, snapshots, spared, together, opens>>

\* The place, and the store that p sees.
LEMMA PlaceOf ==
  ASSUME MigInv, NEW p \in Openers
  PROVE  /\ at[p][1] \in 1..29 /\ at[p][2] \in 1..Len(Statements(at[p][1])) /\ at[p] = <<at[p][1], at[p][2]>>
         /\ Len(Statements(at[p][1])) \in Nat \ {0}
         /\ IsStore(View(p)) /\ Full(View(p)) /\ Ahead(disk, View(p)) /\ stage[p] \in OpenStages
         /\ Migrating(p) => Has(View(p).objects, at[p][1], at[p][2])
  <1>1. at[p][1] \in 1..29 /\ at[p][2] \in 1..Len(Statements(at[p][1])) /\ at[p] = <<at[p][1], at[p][2]>>
    BY DEF MigInv, MigShape, IsPlace
  <1>2. Len(Statements(at[p][1])) \in Nat \ {0}
    BY <1>1, Lengths
  <1>3. IsStore(View(p)) /\ Full(View(p)) /\ Ahead(disk, View(p))
    BY GrowsSelf DEF MigInv, MigShape, View
  <1>4. stage[p] \in OpenStages /\ (Migrating(p) => Has(View(p).objects, at[p][1], at[p][2]))
    BY DEF MigInv, MigShape, Upgrading
  <1> QED
    BY <1>1, <1>2, <1>3, <1>4

LEMMA OneMore ==
  ASSUME NEW k \in 1..29, k < 29
  PROVE  k + 1 \in 1..29 /\ (k + 1) - 1 = k
  OBVIOUS
LEMMA Moving ==
  ASSUME MigInv, NEW p \in Openers, stage[p] = "migrate", Advance(p), found' = [q \in Openers |-> found'[q]],
         \A q \in Openers : q # p => found'[q] = found[q]
  PROVE  Moved(p, at[p][1], at[p][2])
  <1> DEFINE v == at[p][1]
             i == at[p][2]
             len == Len(Statements(v))
  <1>1. v \in 1..29 /\ i \in 1..len /\ at[p] = <<v, i>> /\ len \in Nat \ {0}
    BY PlaceOf
  <1>2. at = [q \in Openers |-> at[q]] /\ stage \in [Openers -> OpenStages]
    BY DEF MigInv, MigShape
  <1>3. SchemaVersion = 29
    BY Latest29
  <1>4. CASE i < len
    <2>1. at' = [at EXCEPT ![p][2] = @ + 1] /\ stage' = stage
      BY <1>4 DEF Advance
    <2>2. at'[p] = [at[p] EXCEPT ![2] = @ + 1] /\ \A q \in Openers : q # p => at'[q] = at[q]
      BY <1>2, <2>1
    <2>3. at'[p] = <<v, i + 1>>
      BY <1>1, <2>2
    <2>4. IsPlace(<<v, i + 1>>)
      BY <1>1, <1>4 DEF IsPlace
    <2>5. at' = [q \in Openers |-> at'[q]]
      BY <1>2, <2>1
    <2> QED
      BY <1>2, <1>4, <2>1, <2>2, <2>3, <2>4, <2>5 DEF Moved, Others
  <1>5. CASE i = len /\ v < 29
    <2>1. at' = [at EXCEPT ![p] = <<at[p][1] + 1, 1>>] /\ stage' = stage
      BY <1>1, <1>3, <1>5 DEF Advance
    <2>2. at'[p] = <<v + 1, 1>> /\ (\A q \in Openers : q # p => at'[q] = at[q]) /\ at' = [q \in Openers |-> at'[q]]
      BY <1>2, <2>1
    <2>3. IsPlace(<<v + 1, 1>>)
      <3>1. v + 1 \in 1..29
        BY <1>1, <1>5, OneMore
      <3>2. Len(Statements(v + 1)) \in Nat \ {0}
        BY <3>1, Lengths
      <3> QED
        BY <3>1, <3>2 DEF IsPlace
    <2> QED
      BY <1>1, <1>2, <1>5, <2>1, <2>2, <2>3 DEF Moved, Others
  <1>6. CASE i = len /\ v = 29
    <2>1. at' = at /\ stage' = [stage EXCEPT ![p] = "commit"]
      BY <1>1, <1>3, <1>6 DEF Advance, Goto
    <2>2. "commit" \in OpenStages
      BY DEF OpenStages
    <2>3. stage' \in [Openers -> OpenStages] /\ stage'[p] = "commit" /\ \A q \in Openers : q # p => stage'[q] = stage[q]
      BY <1>2, <2>1, <2>2
    <2>4. IsPlace(at[p])
      BY DEF MigInv, MigShape
    <2> QED
      BY <1>1, <1>2, <1>6, <2>1, <2>3, <2>4 DEF Moved, Others
  <1>7. ASSUME NEW k \in 1..29, NEW m \in Nat, NEW j \in 1..m PROVE j < m \/ (j = m /\ k < 29) \/ (j = m /\ k = 29)
    OBVIOUS
  <1> QED
    BY <1>1, <1>4, <1>5, <1>6, <1>7

\* A statement that leaves the store as it is.
LEMMA NothingRan ==
  ASSUME NEW v \in 1..29, NEW i \in 1..Len(Statements(v)), i # Len(Statements(v)),
         NEW s, IsStore(s), Full(s), Has(s.objects, v, i), Statements(v)[i].op \notin {"drop", "create", "fill"},
         Statements(v)[i].op \in {"alter", "make", "add"} => Statements(v)[i].objects \subseteq s.objects
  PROVE  Ran(s, s, v, i)
  <1>1. i \in 1..(Len(Statements(v)) - 1) /\ Sound(v, i, Statements(v)[i])
    BY IsSound
  <1>2. ~(v = 3 /\ i = 6)
    BY <1>1 DEF Sound
  <1>3. RowsRan(s, s, v, i)
    BY <1>2 DEF RowsRan
  <1>4. ObjectsRan(s, s, v, i)
    BY <1>1, HasNext DEF ObjectsRan
  <1>5. /\ \A t \in Triggers : TriggerRan(s, s, v, i, t)
        /\ Txn(v, i) \/ Statements(v)[i].op = "fill" => s.triggers = s.triggers
    BY NoTriggerRan
  <1>6. Grows(s, s)
    BY GrowsSelf
  <1> QED
    BY <1>3, <1>4, <1>5, <1>6 DEF Ran

\* The statement that sets the version is the last one.
LEMMA OpLast ==
  ASSUME NEW v \in 1..29, NEW i, Statements(v)[i].op # "version"
  PROVE  i # Len(Statements(v))
  <1>1. Statements(v)[Len(Statements(v))] = Version(v)
    BY LastIs
  <1>2. Version(v).op = "version"
    BY DEF Version
  <1> QED
    BY <1>1, <1>2
LEMMA Of28 ==
  ASSUME NEW i \in 1..Len(Statements(28))
  PROVE  /\ i \in {1, 2, 3} /\ (i = 3 => Statements(28)[i].op = "version")
         /\ i # Len(Statements(28)) => i \in {1, 2}
  <1>1. Len(Statements(28)) = 3
    BY Version28
  <1>2. i \in 1..3
    BY <1>1
  <1>3. Statements(28)[3] = Version(28)
    <2>1. 28 \in 1..29
      OBVIOUS
    <2> QED
      BY <1>1, <2>1, LastIs
  <1>4. Statements(28)[3].op = "version"
    BY <1>3 DEF Version
  <1>5. i \in {1, 2, 3}
    BY <1>2
  <1>6. i = 3 => Statements(28)[i].op = "version"
    BY <1>4
  <1>7. i # Len(Statements(28)) => i \in {1, 2}
    BY <1>1, <1>5
  <1> QED
    BY <1>5, <1>6, <1>7

LEMMA ExecuteRuns ==
  ASSUME MigInv, NEW p \in Openers, Execute(p)
  PROVE  \E n : Runs(p, n)
  <1> DEFINE v == at[p][1]
             i == at[p][2]
             s == View(p)
             x == Statements(v)[i]
  <1>1. /\ v \in 1..29 /\ i \in 1..Len(Statements(v)) /\ at[p] = <<v, i>> /\ Len(Statements(v)) \in Nat \ {0}
        /\ IsStore(s) /\ Full(s)
    BY PlaceOf
  <1>2. stage[p] = "migrate" /\ x.op \notin {"probe", "add"} /\ holder \in {p, NoOpener} /\ Advance(p)
        /\ UNCHANGED <<found, sync, snapshots, spared, together, opens>>
    BY DEF Execute, Current, MayWrite
  <1>3. Has(s.objects, v, i)
    BY <1>2, PlaceOf DEF Migrating
  <1>4. found' = [q \in Openers |-> found'[q]] /\ \A q \in Openers : found'[q] = found[q]
    BY <1>2 DEF MigInv, MigShape
  <1>5. Moved(p, v, i)
    BY <1>2, <1>4, Moving
  <1>6. v = 28 => x.op \notin {"alter", "make", "drop", "create", "fill", "commit"}
    <2>1. ASSUME v = 28 PROVE i \in {1, 2, 3} /\ (i = 3 => x.op = "version")
      BY <1>1, <2>1, Of28
    <2> QED
      BY <2>1, Version28
  <1>7. at'[p] # <<28, 2>>
    <2>1. CASE v = 28
      <3>1. i = 3 /\ Len(Statements(v)) = 3
        <4>1. i \in {1, 2, 3}
          BY <1>1, <2>1, Of28
        <4> QED
          BY <1>2, <2>1, <4>1, Version28
      <3>2. at'[p] = <<29, 1>>
        <4>1. ~(i < Len(Statements(v))) /\ v < 29 /\ v + 1 = 29
          BY <2>1, <3>1
        <4> QED
          BY <1>5, <4>1 DEF Moved
      <3> QED
        BY <3>2
    <2>2. CASE v # 28
      <3>1. at'[p] \in {<<v, i + 1>>, <<v + 1, 1>>, <<v, i>>}
        BY <1>1, <1>5 DEF Moved
      <3> QED
        BY <1>1, <2>2, <3>1
    <2> QED
      BY <2>1, <2>2
  <1>8. NoOpener # p
    BY NoOpenerOut
  <1>9. CASE x.op = "commit"
    <2>1. disk' = s /\ work' = s /\ holder' = NoOpener
      BY <1>2, <1>9 DEF Execute, Current, Finish
    <2>2. i # Len(Statements(v))
      BY <1>1, <1>9, OpLast
    <2>3. Ran(s, s, v, i)
      BY <1>1, <1>3, <1>9, <2>2, NothingRan
    <2>4. Moves(p, s)
      BY <1>2, <2>1 DEF Moves
    <2>5. Runs(p, s)
      BY <1>2, <1>5, <1>7, <1>8, <1>9, <2>1, <2>3, <2>4 DEF Runs
    <2> QED
      BY <2>5
  <1>10. CASE x.op = "fill"
    <2>1. PICK n : n = Effect(s, x)
      OBVIOUS
    <2>2. holder' = p /\ work' = n /\ disk' = disk
      BY <1>2, <1>10, <2>1 DEF Execute, Current, Begin
    <2>3. Ran(s, n, v, i)
      BY <1>1, <1>3, <1>10, <2>1, StatementRan
    <2>4. Moves(p, n)
      BY <1>2, <2>2 DEF Moves
    <2>5. Runs(p, n)
      BY <1>2, <1>5, <1>7, <1>8, <1>10, <2>2, <2>3, <2>4 DEF Runs
    <2> QED
      BY <2>5
  <1>11. CASE x.op \notin {"commit", "fill"}
    <2>1. PICK n : n = Effect(s, x)
      OBVIOUS
    <2>2. Put(p, n)
      BY <1>2, <1>11, <2>1 DEF Execute, Current
    <2>3. Ran(s, n, v, i)
      BY <1>1, <1>2, <1>3, <1>11, <2>1, StatementRan
    <2>4. Moves(p, n)
      BY <1>2, <1>8, <2>2 DEF Moves, Put
    <2>5. holder' = p => Txn(v, i)
      <3>1. holder' = holder
        BY <2>2 DEF Put
      <3>2. holder = p => Txn(v, i)
        BY <1>2 DEF MigInv, MigShape
      <3> QED
        BY <3>1, <3>2
    <2>6. Runs(p, n)
      BY <1>2, <1>5, <1>7, <1>8, <1>11, <2>3, <2>4, <2>5 DEF Runs
    <2> QED
      BY <2>6
  <1> QED
    BY <1>9, <1>10, <1>11

\* Version 28, the only one that looks before it writes.
LEMMA AtVersion28 ==
  ASSUME MigInv, NEW p \in Openers, stage[p] = "migrate", Current(p).op \in {"probe", "add"}
  PROVE  /\ at[p] = (IF Current(p).op = "probe" THEN <<28, 1>> ELSE <<28, 2>>)
         /\ Current(p).objects = {"last_pull_seq"} /\ holder # p
  <1> DEFINE v == at[p][1]
             i == at[p][2]
  <1>1. v \in 1..29 /\ i \in 1..Len(Statements(v)) /\ at[p] = <<v, i>>
    BY PlaceOf
  <1>2. Current(p) = Statements(v)[i]
    BY DEF Current
  <1>3. i # Len(Statements(v))
    BY <1>1, <1>2, OpLast
  <1>4. v = 28
    BY <1>1, <1>2, <1>3, IsSound DEF Sound
  <1>5. i \in {1, 2}
    BY <1>1, <1>3, <1>4, Of28
  <1>6. holder = p => Txn(v, i)
    BY DEF MigInv, MigShape
  <1>7. ~Txn(28, i)
    BY DEF Txn
  <1> QED
    BY <1>1, <1>2, <1>4, <1>5, <1>6, <1>7, Version28

LEMMA ProbeRuns ==
  ASSUME MigInv, NEW p \in Openers, Probe(p)
  PROVE  \E n : Runs(p, n)
  <1> DEFINE s == View(p)
  <1>1. stage[p] = "migrate" /\ Current(p).op = "probe" /\ Advance(p)
        /\ UNCHANGED <<disk, holder, work, sync, snapshots, spared, together, opens>>
    BY DEF Probe
  <1>2. at[p] = <<28, 1>> /\ Current(p).objects = {"last_pull_seq"} /\ holder # p
    BY <1>1, AtVersion28
  <1>3. at[p][1] = 28 /\ at[p][2] = 1 /\ Current(p) = Statements(28)[1]
    BY <1>2 DEF Current
  <1>4. /\ found' = [found EXCEPT ![p] = IF {"last_pull_seq"} \subseteq s.objects THEN "column" ELSE "no column"]
        /\ found = [q \in Openers |-> found[q]]
    BY <1>2 DEF Probe, MigInv, MigShape
  <1>5. /\ found' = [q \in Openers |-> found'[q]] /\ (\A q \in Openers : q # p => found'[q] = found[q])
        /\ found'[p] = "column" => "last_pull_seq" \in s.objects
    BY <1>4
  <1>6. Moved(p, 28, 1)
    BY <1>1, <1>3, <1>5, Moving
  <1>7. IsStore(s) /\ Full(s) /\ Has(s.objects, 28, 1) /\ 28 \in 1..29
    BY <1>1, <1>3, PlaceOf DEF Migrating
  <1>8. Ran(s, s, 28, 1)
    <2>1. 1 \in 1..Len(Statements(28)) /\ 1 # Len(Statements(28)) /\ Statements(28)[1].op = "probe"
      BY Version28
    <2> QED
      BY <1>7, <2>1, NothingRan
  <1>9. s = disk
    BY <1>2 DEF View
  <1>10. Moves(p, s)
    BY <1>1, <1>2, <1>9 DEF Moves
  <1>11. Runs(p, s)
    BY <1>1, <1>2, <1>3, <1>5, <1>6, <1>8, <1>10 DEF Runs
  <1> QED
    BY <1>11

LEMMA AddRuns ==
  ASSUME MigInv, NEW p \in Openers, Add(p), stage'[p] # "down"
  PROVE  \E n : Runs(p, n)
  <1> DEFINE s == View(p)
  <1>1. stage[p] = "migrate" /\ Current(p).op = "add" /\ UNCHANGED <<sync, snapshots, spared, together, opens>>
    BY DEF Add
  <1>2. at[p] = <<28, 2>> /\ Current(p).objects = {"last_pull_seq"} /\ holder # p
    BY <1>1, AtVersion28
  <1>3. at[p][1] = 28 /\ at[p][2] = 2 /\ Current(p) = Statements(28)[2]
    BY <1>2 DEF Current
  <1>4. IsStore(s) /\ Full(s) /\ Has(s.objects, 28, 2) /\ 28 \in 1..29
    BY <1>1, <1>3, PlaceOf DEF Migrating
  <1>5. found = [q \in Openers |-> found[q]] /\ stage = [q \in Openers |-> stage[q]]
    BY DEF MigInv, MigShape
  <1>6. s = disk
    BY <1>2 DEF View
  <1>7. 2 \in 1..Len(Statements(28)) /\ 2 # Len(Statements(28)) /\ Statements(28)[2].op = "add"
        /\ Statements(28)[2].objects = {"last_pull_seq"}
    BY Version28
  <1>8. CASE found[p] = "column"
    <2>1. Advance(p) /\ UNCHANGED <<disk, holder, work, found>>
      BY <1>8 DEF Add
    <2>2. Moved(p, 28, 2)
      BY <1>1, <1>3, <1>5, <2>1, Moving
    <2>3. "last_pull_seq" \in s.objects
      BY <1>1, <1>2, <1>8 DEF MigInv, Upgrading
    <2>4. Ran(s, s, 28, 2)
      BY <1>4, <1>7, <2>3, NothingRan
    <2>5. Moves(p, s)
      BY <1>2, <1>6, <2>1 DEF Moves
    <2>6. Runs(p, s)
      BY <1>1, <1>2, <1>3, <1>7, <2>1, <2>2, <2>3, <2>4, <2>5 DEF Runs
    <2> QED
      BY <2>6
  <1>9. CASE found[p] # "column" /\ ~({"last_pull_seq"} \subseteq s.objects)
    <2>1. PICK n : n = Effect(s, Current(p))
      OBVIOUS
    <2>2. MayWrite(p) /\ Put(p, n) /\ Advance(p) /\ UNCHANGED found
      BY <1>2, <1>9, <2>1 DEF Add
    <2>3. Moved(p, 28, 2)
      BY <1>1, <1>3, <1>5, <2>2, Moving
    <2>4. Ran(s, n, 28, 2)
      BY <1>3, <1>4, <1>7, <2>1, StatementRan
    <2>5. holder = NoOpener /\ Moves(p, n) /\ holder' = NoOpener
      BY <1>2, <2>2 DEF Moves, Put, MayWrite
    <2>6. NoOpener # p /\ found'[p] # "column"
      BY <1>9, <2>2, NoOpenerOut
    <2>7. Runs(p, n)
      BY <1>1, <1>3, <1>7, <2>3, <2>4, <2>5, <2>6 DEF Runs
    <2> QED
      BY <2>7
  <1>10. ~(found[p] # "column" /\ {"last_pull_seq"} \subseteq s.objects)
    BY <1>2, <1>5 DEF Add, Goto
  <1> QED
    BY <1>8, <1>9, <1>10

-----------------------------------------------------------------------------
(* A server that runs a statement keeps the invariant.                     *)
LEMMA RunsView ==
  ASSUME MigInv, NEW p, NEW n, Runs(p, n)
  PROVE  /\ p \in Openers /\ stage[p] = "migrate" /\ at[p][1] \in 1..29 /\ at[p][2] \in 1..Len(Statements(at[p][1]))
         /\ Len(Statements(at[p][1])) \in Nat \ {0}
         /\ Ran(View(p), n, at[p][1], at[p][2]) /\ Moved(p, at[p][1], at[p][2])
         /\ IsStore(n) /\ Full(n) /\ Ahead(disk, View(p)) /\ Grows(disk, n) /\ View(p)' = n
         /\ disk' \in {disk, n} /\ Grows(disk, disk')
         /\ \A q \in Openers : q # p => (View(q)' = disk' /\ View(q) = disk) \/ View(q)' = View(q)
         /\ n.triggers = disk'.triggers
  <1>1. p \in Openers /\ stage[p] = "migrate" /\ Ran(View(p), n, at[p][1], at[p][2]) /\ Moved(p, at[p][1], at[p][2])
        /\ Moves(p, n)
    BY DEF Runs
  <1>2. at[p][1] \in 1..29 /\ at[p][2] \in 1..Len(Statements(at[p][1])) /\ Len(Statements(at[p][1])) \in Nat \ {0}
        /\ Ahead(disk, View(p))
    BY <1>1, PlaceOf
  <1>3. IsStore(n) /\ Full(n) /\ Grows(View(p), n)
    BY <1>1 DEF Ran
  <1>4. Grows(disk, n)
    BY <1>2, <1>3, GrowsTwice
  <1>5. NoOpener # p
    BY <1>1, NoOpenerOut
  <1>6. View(p)' = n /\ disk' \in {disk, n}
    BY <1>5, <1>1 DEF Moves, View
  <1>7. Grows(disk, disk')
    BY <1>4, <1>6, GrowsSelf
  <1>8. ASSUME NEW q \in Openers, q # p PROVE (View(q)' = disk' /\ View(q) = disk) \/ View(q)' = View(q)
    <2>1. NoOpener # q
      BY NoOpenerOut
    <2> QED
      BY <1>1, <1>5, <1>8, <2>1 DEF Moves, View
  <1>9. n.triggers = disk'.triggers
    <2>1. CASE disk' = n
      BY <2>1
    <2>2. CASE disk' # n
      <3>1. holder' = p
        BY <1>1, <2>2 DEF Moves
      <3>2. n.triggers = View(p).triggers
        BY <1>1, <3>1 DEF Runs, Ran
      <3>3. View(p).triggers = disk.triggers
        BY <1>2 DEF Ahead
      <3> QED
        BY <1>6, <2>2, <3>2, <3>3
    <2> QED
      BY <2>1, <2>2
  <1> QED
    BY <1>1, <1>2, <1>3, <1>4, <1>6, <1>7, <1>8, <1>9

LEMMA RunsShape ==
  ASSUME MigInv, NEW p, NEW n, Runs(p, n)
  PROVE  MigShape' /\ Ahead(disk, work)' /\ Full(disk)' /\ Full(work)'
  <1> DEFINE v == at[p][1]
             i == at[p][2]
  <1>1. MigShape /\ Ahead(disk, work) /\ Full(disk) /\ Full(work)
    BY DEF MigInv
  <1>2. /\ p \in Openers /\ v \in 1..29 /\ i \in 1..Len(Statements(v)) /\ Ran(View(p), n, v, i) /\ Moved(p, v, i)
        /\ Len(Statements(v)) \in Nat \ {0}
        /\ IsStore(n) /\ Full(n) /\ Ahead(disk, View(p)) /\ Grows(disk, n) /\ n.triggers = disk'.triggers
    BY RunsView
  <1>3. p # NoOpener
    BY <1>2, NoOpenerOut
  <1>4. /\ UNCHANGED <<sync, snapshots, spared, together, opens>> /\ Moves(p, n)
        /\ holder' = p => Statements(v)[i].op # "commit" /\ (Txn(v, i) \/ Statements(v)[i].op = "fill")
    BY DEF Runs
  <1>5. IsStore(disk)' /\ IsStore(work)' /\ Full(disk)' /\ Full(work)' /\ holder' \in Openers \cup {NoOpener}
        /\ (holder' = NoOpener => work' = disk')
    BY <1>1, <1>2, <1>3, <1>4 DEF Moves, MigShape, IsStore, Full
  <1>6. Ahead(disk, work)'
    <2>1. CASE work' = disk'
      BY <2>1 DEF Ahead, Refiled
    <2>2. CASE holder' = p /\ work' = n /\ disk' = disk
      <3>1. Ahead(disk', n)
        BY <1>2, <2>2 DEF Grows, Ahead
      <3> QED
        BY <2>2, <3>1 DEF Ahead, Refiled
    <2>3. CASE UNCHANGED <<disk, work>>
      BY <1>1, <2>3 DEF Ahead, Refiled
    <2> QED
      BY <1>4, <2>1, <2>2, <2>3 DEF Moves
  <1>7. stage' \in [Openers -> OpenStages] /\ at' = [q \in Openers |-> at'[q]] /\ found' = [q \in Openers |-> found'[q]]
    BY <1>2 DEF Moved
  <1>8. \A q \in Openers : IsPlace(at'[q])
    <2>1. IsPlace(at'[p]) /\ \A q \in Openers : q # p => at'[q] = at[q]
      BY <1>2 DEF Moved, Others
    <2> QED
      BY <1>1, <2>1 DEF MigShape
  <1>9. ASSUME NEW q \in Openers, holder' = q PROVE stage'[q] = "commit" \/ (stage'[q] = "migrate" /\ Txn(at'[q][1], at'[q][2]))
    <2>1. CASE q = p
      <3>1. Statements(v)[i].op # "commit" /\ (Txn(v, i) \/ Statements(v)[i].op = "fill")
        BY <1>4, <1>9, <2>1
      <3>2. CASE i < Len(Statements(v))
        <4>1. stage'[p] = "migrate" /\ at'[p] = <<v, i + 1>>
          BY <1>2, <3>2 DEF Moved
        <4>0. i # Len(Statements(v))
          BY <1>2, <3>2
        <4>2. Sound(v, i, Statements(v)[i])
          BY <1>2, <4>0, IsSound
        <4>3. Txn(v, i + 1)
          BY <3>1, <4>2 DEF Sound
        <4> QED
          BY <2>1, <4>1, <4>3
      <3>3. CASE ~(i < Len(Statements(v)))
        <4>1. i = Len(Statements(v))
          BY <1>2, <3>3
        <4>2. Statements(v)[i].op # "fill"
          <5>1. Statements(v)[i] = Version(v)
            BY <1>2, <4>1, LastIs
          <5> QED
            BY <5>1 DEF Version
        <4>3. v < 29 => Txn(v + 1, 1)
          BY <1>2, <3>1, <4>1, <4>2, StatementsAre
        <4>4. IF v < 29 THEN stage'[p] = "migrate" /\ at'[p] = <<v + 1, 1>> ELSE stage'[p] = "commit"
          BY <1>2, <3>3 DEF Moved
        <4> QED
          BY <2>1, <4>3, <4>4
      <3> QED
        BY <3>2, <3>3
    <2>2. CASE q # p
      <3>1. at'[q] = at[q] /\ stage'[q] = stage[q]
        BY <1>2, <2>2 DEF Moved, Others
      <3>2. holder = q
        BY <1>4, <1>9, <2>2, NoOpenerOut DEF Moves
      <3> QED
        BY <1>1, <3>1, <3>2 DEF MigShape
    <2> QED
      BY <2>1, <2>2
  <1>10. MigShape'
    BY <1>1, <1>4, <1>5, <1>7, <1>8, <1>9 DEF MigShape
  <1> QED
    BY <1>5, <1>6, <1>10

LEMMA RunsUpgrading ==
  ASSUME MigInv, NEW p, NEW n, Runs(p, n), NEW q \in Openers
  PROVE  Upgrading(q)'
  <1> DEFINE v == at[p][1]
             i == at[p][2]
  <1>1. /\ p \in Openers /\ stage[p] = "migrate" /\ v \in 1..29 /\ i \in 1..Len(Statements(v)) /\ Ran(View(p), n, v, i)
        /\ Moved(p, v, i) /\ Len(Statements(v)) \in Nat \ {0}
        /\ View(p)' = n /\ Grows(disk, disk')
    BY RunsView
  <1>2. Upgrading(q) /\ Upgrading(p) /\ IsStore(disk)
    BY <1>1 DEF MigInv, MigShape
  <1>3. UNCHANGED <<snapshots, spared>>
    BY DEF Runs
  <1>4. Covered(disk) => Covered(disk)'
    BY <1>1, <1>2, <1>3, StaysCovered
  <1>5. CASE q # p
    <2>1. at'[q] = at[q] /\ stage'[q] = stage[q] /\ found'[q] = found[q]
      BY <1>1, <1>5 DEF Moved, Others
    <2>2. View(q).objects \subseteq View(q)'.objects
      BY <1>1, <1>5, RunsView DEF Grows
    <2>3. Migrating(q)' => Has(View(q)'.objects, at[q][1], at[q][2])
      BY <1>2, <2>1, <2>2, HasMore DEF Upgrading, Migrating
    <2> QED
      BY <1>2, <1>3, <1>4, <2>1, <2>2, <2>3 DEF Upgrading, Has
  <1>6. CASE q = p
    <2>1. spared' \/ Covered(disk)'
      BY <1>1, <1>2, <1>3, <1>4 DEF Upgrading
    <2>2. stage'[p] \in {"migrate", "commit"}
      BY <1>1 DEF Moved
    <2>3. stage'[p] = "migrate" => Has(n.objects, at'[p][1], at'[p][2])
      <3>1. CASE i < Len(Statements(v))
        <4>1. at'[p] = <<v, i + 1>> /\ i # Len(Statements(v))
          BY <1>1, <3>1 DEF Moved
        <4> QED
          BY <1>1, <4>1 DEF Ran, ObjectsRan
      <3>2. CASE ~(i < Len(Statements(v))) /\ v < 29
        <4>1. at'[p] = <<v + 1, 1>> /\ i = Len(Statements(v))
          BY <1>1, <3>2 DEF Moved
        <4>2. ObjectsAt(v) \subseteq n.objects
          BY <1>1, <4>1 DEF Ran, ObjectsRan
        <4>3. v + 1 \in 1..29 /\ (v + 1) - 1 = v
          BY <1>1, <3>2, OneMore
        <4>4. Has(n.objects, v + 1, 1)
          BY <4>2, <4>3, HasNone
        <4> QED
          BY <4>1, <4>4
      <3>3. CASE ~(i < Len(Statements(v))) /\ ~(v < 29)
        BY <1>1, <3>3 DEF Moved
      <3> QED
        BY <3>1, <3>2, <3>3
    <2>4. found'[p] = "column" /\ at'[p] = <<28, 2>> => "last_pull_seq" \in n.objects
      BY DEF Runs
    <2>5. Migrating(p)' => stage'[p] = "migrate"
      BY <2>2 DEF Migrating
    <2> QED
      BY <1>1, <1>6, <2>1, <2>2, <2>3, <2>4, <2>5 DEF Upgrading, Has
  <1> QED
    BY <1>5, <1>6

\* A trigger is never lost: it is final, or someone is still to drop or to create it.
LEMMA RunsComing ==
  ASSUME MigInv, NEW p, NEW n, Runs(p, n), NEW t \in Triggers
  PROVE  Coming(t)'
  <1> DEFINE i == at[p][2]
  <1>0. PICK v : v = at[p][1]
    OBVIOUS
  <1>1. /\ p \in Openers /\ stage[p] = "migrate" /\ v \in 1..29 /\ i \in 1..Len(Statements(v))
        /\ Len(Statements(v)) \in Nat \ {0} /\ Ahead(disk, View(p)) /\ n.triggers = disk'.triggers
    BY <1>0, RunsView
  <1>2. Ran(View(p), n, v, i) /\ Moved(p, v, i)
    BY <1>0, RunsView
  <1>3. LastDrop(t) \in {10, 14, 26} /\ CreateAt(t) \in 5..7
    BY DEF LastDrop, CreateAt
  <1>4. v = LastDrop(t) => Len(Statements(v)) > CreateAt(t)
    BY <1>1, TriggerStatements
  <1>5. TriggerRan(View(p), n, v, i, t) /\ View(p).triggers = disk.triggers
    BY <1>1, <1>2 DEF Ran, Ahead
  <1>6. ASSUME v < LastDrop(t) PROVE Behind(p, t)'
    <2>0. v < 29
      BY <1>1, <1>3, <1>6
    <2>1. stage'[p] = "migrate"
      BY <1>2, <2>0 DEF Moved
    <2>2. at'[p] = <<v, i + 1>> \/ at'[p] = <<v + 1, 1>>
      BY <1>2, <2>0 DEF Moved
    <2>3. at'[p][1] < LastDrop(t) \/ (at'[p][1] = LastDrop(t) /\ at'[p][2] <= 4)
      BY <1>1, <1>3, <1>6, <2>2
    <2> QED
      BY <2>1, <2>3 DEF Behind, Migrating
  <1>7. ASSUME v = LastDrop(t), i <= CreateAt(t)
        PROVE  stage'[p] = "migrate" /\ at'[p] = <<v, i + 1>>
    <2>1. i < Len(Statements(v))
      BY <1>1, <1>3, <1>4, <1>7
    <2> QED
      BY <1>2, <2>1 DEF Moved
  <1>8. CASE v < LastDrop(t)
    BY <1>1, <1>6, <1>8 DEF Coming
  <1>9. CASE v = LastDrop(t) /\ i < 4
    <2>1. stage'[p] = "migrate" /\ at'[p] = <<v, i + 1>> /\ i + 1 <= 4
      BY <1>1, <1>3, <1>7, <1>9
    <2>2. Behind(p, t)'
      BY <1>9, <2>1 DEF Behind, Migrating
    <2> QED
      BY <1>1, <2>2 DEF Coming
  <1>10. CASE v = LastDrop(t) /\ i = 4
    <2>1. stage'[p] = "migrate" /\ at'[p] = <<v, 5>> /\ 5 \in 5..CreateAt(t)
      BY <1>1, <1>3, <1>7, <1>10
    <2>2. Between(p, t)'
      BY <1>10, <2>1 DEF Between, Migrating
    <2>3. disk'.triggers[t] = Absent
      BY <1>1, <1>5, <1>10 DEF TriggerRan
    <2> QED
      BY <1>1, <2>2, <2>3 DEF Coming
  <1>11. CASE v > LastDrop(t) \/ (v = LastDrop(t) /\ i > 4)
    <2>1. ~Behind(p, t)
      BY <1>0, <1>1, <1>3, <1>11 DEF Behind
    <2>2. \A q \in Openers : q # p => (Behind(q, t) <=> Behind(q, t)') /\ (Between(q, t) <=> Between(q, t)')
      BY <1>2 DEF Moved, Others, Behind, Between, Migrating
    <2>3. p \in Opening
      BY <1>1 DEF Opening
    <2>4. CASE v = LastDrop(t) /\ i = CreateAt(t) /\ disk.triggers[t] = Absent
      <3>1. Final(t, disk'.triggers[t])
        BY <1>1, <1>5, <2>4 DEF TriggerRan
      <3> QED
        BY <3>1 DEF Coming
    <2>5. CASE ~(v = LastDrop(t) /\ i = CreateAt(t) /\ disk.triggers[t] = Absent)
      <3>1. disk'.triggers[t] = disk.triggers[t]
        BY <1>1, <1>3, <1>5, <1>11, <2>5 DEF TriggerRan
      <3>2. CASE Final(t, disk.triggers[t])
        BY <3>1, <3>2 DEF Coming
      <3>3. CASE \E q \in Openers : Behind(q, t)
        <4>1. PICK q \in Openers : Behind(q, t)
          BY <3>3
        <4>2. Behind(q, t)'
          BY <2>1, <2>2, <4>1
        <4> QED
          BY <4>2 DEF Coming
      <3>4. CASE disk.triggers[t] = Absent /\ \E q \in Openers : Between(q, t)
        <4>1. PICK q \in Openers : Between(q, t)
          BY <3>4
        <4>2. CASE q # p
          BY <2>2, <3>1, <3>4, <4>1, <4>2 DEF Coming
        <4>3. CASE q = p
          <5>1. v = LastDrop(t) /\ i \in 5..CreateAt(t)
            BY <1>0, <4>1, <4>3 DEF Between
          <5>2. i + 1 \in 5..CreateAt(t) /\ i <= CreateAt(t)
            BY <1>1, <1>3, <2>5, <3>4, <5>1
          <5>3. stage'[p] = "migrate" /\ at'[p] = <<v, i + 1>>
            BY <1>7, <5>1, <5>2
          <5>4. Between(p, t)'
            BY <5>1, <5>2, <5>3 DEF Between, Migrating
          <5> QED
            BY <1>1, <3>1, <3>4, <5>4 DEF Coming
        <4> QED
          BY <4>2, <4>3
      <3> QED
        BY <2>3, <3>2, <3>3, <3>4 DEF MigInv, Coming
    <2> QED
      BY <2>4, <2>5
  <1> QED
    BY <1>1, <1>3, <1>8, <1>9, <1>10, <1>11

\* The server that upgrades the store alone.
LEMMA AloneOpening ==
  ASSUME MigInv, ~together, NEW p \in Openers, p \in Opening, stage[p] \in {"snapshot", "migrate"}
  PROVE  /\ \A q \in Openers : q # p => stage[q] = "down"
         /\ KeptDisk(disk) /\ AloneRight(p) /\ Opening = {p}
  <1>1. \A q \in Openers : AloneRight(q)
    BY DEF MigInv, Alone
  <1>2. KeptDisk(disk) /\ \A q \in Opening : q = p
    BY DEF MigInv, Alone
  <1>3. disk.version < 29
    <2>1. at[p][1] \in 1..29 /\ IsStore(disk)
      BY PlaceOf DEF MigInv, MigShape
    <2>2. disk.version \in 0..29
      BY <2>1 DEF IsStore
    <2>3. AloneRight(p)
      BY <1>1
    <2>4. CASE stage[p] = "snapshot"
      <3>1. at[p] = <<disk.version + 1, 1>>
        BY <2>3, <2>4 DEF AloneRight
      <3>2. at[p][1] = disk.version + 1
        BY <3>1
      <3> QED
        BY <2>1, <2>2, <3>2
    <2>5. CASE stage[p] = "migrate"
      <3>1. disk.version < at[p][1]
        BY <2>3, <2>5 DEF AloneRight
      <3> QED
        BY <2>1, <2>2, <3>1
    <2> QED
      BY <2>4, <2>5
  <1>4. ASSUME NEW q \in Openers, q # p PROVE stage[q] = "down"
    <2>1. q \notin Opening
      BY <1>2, <1>4
    <2>2. stage[q] \in {"down", "open"}
      BY <2>1 DEF Opening
    <2>3. stage[q] # "open"
      <3>1. AloneRight(q)
        BY <1>1
      <3>2. disk.version # 29
        BY <1>3
      <3> QED
        BY <3>1, <3>2 DEF AloneRight
    <2> QED
      BY <2>2, <2>3
  <1>5. Opening = {p}
    BY <1>2
  <1> QED
    BY <1>1, <1>2, <1>4, <1>5

LEMMA LessNext ==
  ASSUME NEW k \in 0..29, NEW m \in 1..29, k < m
  PROVE  k < m + 1
  OBVIOUS
LEMMA SinceThree ==
  ASSUME NEW k \in 0..29, NEW m \in 1..29, k < m
  PROVE  k >= 3 => m > 3
  OBVIOUS
LEMMA RunsAlone ==
  ASSUME MigInv, NEW p, NEW n, Runs(p, n)
  PROVE  Alone'
  <1> DEFINE s == View(p)
  <1>0. PICK v, i : v = at[p][1] /\ i = at[p][2]
    OBVIOUS
  <1>1. together' = together
    BY DEF Runs
  <1> SUFFICES ASSUME ~together PROVE KeptDisk(disk)' /\ (\A q \in Openers : AloneRight(q)') /\ (\A q, r \in Opening' : q = r)
    BY <1>1 DEF Alone
  <1>2. /\ p \in Openers /\ stage[p] = "migrate" /\ v \in 1..29 /\ i \in 1..Len(Statements(v)) /\ Ahead(disk, s)
        /\ Len(Statements(v)) \in Nat \ {0} /\ IsStore(n) /\ disk' \in {disk, n}
    BY <1>0, RunsView
  <1>3. Ran(s, n, v, i) /\ Moved(p, v, i)
    BY <1>0, RunsView
  <1>4. p \in Opening
    BY <1>2 DEF Opening
  <1>5. /\ \A q \in Openers : q # p => stage[q] = "down"
        /\ KeptDisk(disk) /\ AloneRight(p) /\ Opening = {p}
    BY <1>2, <1>4, AloneOpening
  <1>6. IsStore(s) /\ IsStore(disk)
    BY <1>2, PlaceOf DEF MigInv, MigShape
  <1>7. disk.version < v /\ s.version < v /\ Kept(s, FilledAt(v, i), EarlyAt(v, i))
    BY <1>0, <1>2, <1>5 DEF AloneRight, KeptAt
  <1>8. v = 29 => Final("memories_au", s.triggers["memories_au"])
    <2>1. Coming("memories_au") /\ LastDrop("memories_au") = 26
      BY DEF MigInv, Triggers, LastDrop
    <2>2. \A q \in Openers : q # p => ~Behind(q, "memories_au") /\ ~Between(q, "memories_au")
      BY <1>5 DEF Behind, Between, Migrating
    <2>3. v = 29 => ~Behind(p, "memories_au") /\ ~Between(p, "memories_au")
      BY <1>0, <2>1 DEF Behind, Between
    <2>4. s.triggers = disk.triggers
      BY <1>2 DEF Ahead
    <2> QED
      BY <1>4, <2>1, <2>2, <2>3, <2>4 DEF Coming
  <1>9. n.flag = s.flag /\ RowsRan(s, n, v, i)
    BY <1>3 DEF Ran, Grows
  <1>10. ASSUME NEW f \in BOOLEAN, f => FilledAt(v, i) \/ (v = 3 /\ i = 6), NEW e \in BOOLEAN, e => v < 29
         PROVE  Kept(n, f, e)
    <2>1. i \in Nat
      BY <1>2
    <2> QED
      BY <1>2, <1>6, <1>7, <1>8, <1>9, <1>10, <2>1, KeptRan
  <1>11. IF i = Len(Statements(v)) THEN n.version = v ELSE n.version = s.version
    BY <1>3 DEF Ran, ObjectsRan
  <1>12. v = 3 /\ i = Len(Statements(v)) => i = 7
    BY Version3
  <1>13. n.version \in 0..29 /\ s.version \in 0..29 /\ disk.version \in 0..29
    BY <1>2, <1>6 DEF IsStore
  <1>14. KeptDisk(disk)'
    <2>1. CASE disk' = disk
      BY <1>5, <2>1 DEF KeptDisk, Kept, LoggedAll, LoggedRow, Present, IsMemory
    <2>2. CASE disk' # disk
      <3>1. disk' = n /\ Statements(v)[i].op # "fill"
        BY <1>0, <1>2, <2>2 DEF Runs
      <3>2. n.version < 29 => v < 29
        <4>1. CASE v = 29
          <5>1. i # 1 /\ Len(Statements(29)) = 2
            BY <3>1, <4>1, Version29
          <5>2. i \in 1..2
            BY <1>2, <4>1, <5>1
          <5>3. i = 2 /\ Len(Statements(v)) = 2
            BY <4>1, <5>1, <5>2
          <5>4. n.version = 29
            BY <1>11, <4>1, <5>3
          <5> QED
            BY <5>4
        <4>2. CASE v # 29
          BY <1>2, <4>2
        <4> QED
          BY <4>1, <4>2
      <3>3. n.version >= 3 => FilledAt(v, i)
        <4>1. CASE i = Len(Statements(v))
          <5>1. n.version = v
            BY <1>11, <4>1
          <5>2. v = 3 => i = 7
            BY <1>12, <4>1
          <5>3. v >= 3 => FilledAt(v, i)
            BY <1>2, <5>2 DEF FilledAt
          <5>4. n.version >= 3 => v >= 3
            BY <5>1, Zenon
          <5> QED
            BY <5>3, <5>4, Zenon
        <4>2. CASE i # Len(Statements(v))
          <5>1. n.version = s.version
            BY <1>11, <4>2
          <5>2. s.version >= 3 => v > 3
            BY <1>2, <1>7, <1>13, SinceThree
          <5>3. n.version >= 3 => s.version >= 3
            BY <5>1, Zenon
          <5> QED
            BY <5>2, <5>3, Zenon DEF FilledAt
        <4> QED
          BY <4>1, <4>2
      <3>4. PICK f \in BOOLEAN : f <=> n.version >= 3
        OBVIOUS
      <3>5. PICK e \in BOOLEAN : e <=> n.version < 29
        OBVIOUS
      <3>6. Kept(n, f, e)
        BY <1>10, <3>2, <3>3, <3>4, <3>5
      <3>7. Kept(n, n.version >= 3, n.version < 29)
        BY <3>4, <3>5, <3>6 DEF Kept
      <3> QED
        BY <3>1, <3>7 DEF KeptDisk, Kept, LoggedAll, LoggedRow, Present, IsMemory
    <2> QED
      BY <2>1, <2>2
  <1>15. ASSUME NEW q \in Openers, q # p PROVE stage'[q] = "down"
    BY <1>3, <1>5, <1>15 DEF Moved, Others
  <1>16. AloneRight(p)'
    <2>1. stage'[p] = "migrate" => disk'.version < at'[p][1] /\ n.version < at'[p][1]
                                   /\ Kept(n, FilledAt(at'[p][1], at'[p][2]), EarlyAt(at'[p][1], at'[p][2]))
      <3>1. CASE i < Len(Statements(v))
        <4>1. at'[p] = <<v, i + 1>>
          BY <1>3, <3>1 DEF Moved
        <4>2. disk'.version < v /\ n.version < v
          BY <1>2, <1>7, <1>11, <3>1
        <4>3. FilledAt(v, i + 1) => FilledAt(v, i) \/ (v = 3 /\ i = 6)
          BY <1>2 DEF FilledAt
        <4>4. EarlyAt(v, i + 1) => v < 29
          BY <1>2 DEF EarlyAt
        <4>5. Kept(n, FilledAt(v, i + 1), EarlyAt(v, i + 1))
          BY <1>10, <4>3, <4>4 DEF FilledAt, EarlyAt
        <4> QED
          BY <4>1, <4>2, <4>5
      <3>2. CASE ~(i < Len(Statements(v))) /\ v < 29
        <4>1. at'[p] = <<v + 1, 1>> /\ i = Len(Statements(v))
          BY <1>2, <1>3, <3>2 DEF Moved
        <4>2. disk'.version < v + 1 /\ n.version < v + 1
          <5>1. n.version = v
            BY <1>11, <4>1
          <5>2. v < v + 1
            BY <1>2
          <5>3. disk.version < v + 1
            BY <1>2, <1>7, <1>13, LessNext
          <5>4. disk'.version = disk.version \/ disk'.version = n.version
            BY <1>2
          <5> QED
            BY <5>1, <5>2, <5>3, <5>4
        <4>3. FilledAt(v + 1, 1) => FilledAt(v, i)
          BY <1>2, <1>12, <4>1 DEF FilledAt
        <4>4. Kept(n, FilledAt(v + 1, 1), EarlyAt(v + 1, 1))
          BY <1>10, <3>2, <4>3 DEF FilledAt, EarlyAt
        <4> QED
          BY <4>1, <4>2, <4>4
      <3>3. CASE ~(i < Len(Statements(v))) /\ ~(v < 29)
        BY <1>3, <3>3 DEF Moved
      <3> QED
        BY <3>1, <3>2, <3>3
    <2>2. stage'[p] = "commit" => n.version = 29 /\ Kept(n, TRUE, FALSE)
      <3>1. CASE stage'[p] = "commit"
        <4>1. ~(i < Len(Statements(v))) /\ ~(v < 29)
          BY <1>3, <3>1 DEF Moved
        <4>2. i = Len(Statements(v)) /\ v = 29
          BY <1>2, <4>1
        <4>3. FilledAt(v, i)
          BY <4>2 DEF FilledAt
        <4>4. Kept(n, TRUE, FALSE)
          BY <1>10, <4>3
        <4> QED
          BY <1>11, <4>2, <4>4
      <3> QED
        BY <3>1
    <2>3. stage'[p] \in {"migrate", "commit"}
      BY <1>3 DEF Moved
    <2>4. View(p)' = n
      BY RunsView
    <2> QED
      BY <2>1, <2>2, <2>3, <2>4 DEF AloneRight, KeptAt, Kept, LoggedAll, LoggedRow, Present, IsMemory
  <1>17. \A q \in Openers : AloneRight(q)'
    BY <1>15, <1>16 DEF AloneRight
  <1>18. \A q, r \in Opening' : q = r
    BY <1>15 DEF Opening
  <1> QED
    BY <1>14, <1>17, <1>18

LEMMA RunsKeeps ==
  ASSUME MigInv, NEW p, NEW n, Runs(p, n)
  PROVE  MigInv'
  <1>1. MigShape' /\ Ahead(disk, work)' /\ Full(disk)' /\ Full(work)'
    BY RunsShape
  <1>2. \A q \in Openers : Upgrading(q)'
    BY RunsUpgrading
  <1>3. \A t \in Triggers : Coming(t)'
    BY RunsComing
  <1>4. Alone'
    BY RunsAlone
  <1> QED
    BY <1>1, <1>2, <1>3, <1>4 DEF MigInv

-----------------------------------------------------------------------------
(* The stores that earlier releases left behind.                           *)
LEMMA ColumnsNow ==
  ASSUME NEW v \in 26..29
  PROVE  MemoryColumns(v) = 26
  <1> DEFINE S == {n \in {0, 3, 4, 5, 6, 7, 9, 13, 16, 23, 26} : n <= v}
  <1>1. 26 \in S /\ \A n \in S : n \in 0..26
    OBVIOUS
  <1>2. PICK m : m = Max(S) /\ m \in S /\ \A n \in S : m >= n
    <2>1. \E m \in S : \A n \in S : m >= n
      BY <1>1
    <2>2. Max(S) = CHOOSE m \in S : \A n \in S : m >= n
      BY DEF Max
    <2> QED
      BY <2>1, <2>2
  <1>3. m = 26
    BY <1>1, <1>2
  <1> QED
    BY <1>2, <1>3 DEF MemoryColumns

LEMMA InitialTriggers ==
  ASSUME NEW v \in 0..29, NEW t \in Triggers
  PROVE  Final(t, TriggersAt(v)[t]) \/ v < LastDrop(t)
  <1>1. CASE t = "memories_ai"
    <2>1. LastDrop(t) = 26
      BY <1>1 DEF LastDrop
    <2>2. v >= 26 => TriggersAt(v)[t] = [columns |-> 26, gated |-> TRUE, scoped |-> FALSE]
      <3>1. TriggersAt(v)["memories_ai"] = IF v < 3 THEN Absent ELSE [columns |-> MemoryColumns(v), gated |-> v >= 9,
                                                                       scoped |-> FALSE]
        BY SMT DEF TriggersAt, Triggers
      <3>2. ASSUME v >= 26 PROVE ~(v < 3) /\ MemoryColumns(v) = 26 /\ (v >= 9) = TRUE /\ (v >= 22) = TRUE
        BY <3>2, ColumnsNow
      <3> QED
        BY <1>1, <3>1, <3>2, Zenon
    <2> QED
      BY <1>1, <2>1, <2>2 DEF Final, Latest
  <1>2. CASE t = "memories_au"
    <2>1. LastDrop(t) = 26
      BY <1>2 DEF LastDrop
    <2>2. v >= 26 => TriggersAt(v)[t] = [columns |-> 26, gated |-> TRUE, scoped |-> TRUE]
      <3>1. TriggersAt(v)["memories_au"] = IF v < 3 THEN Absent ELSE [columns |-> MemoryColumns(v), gated |-> v >= 9,
                                                                       scoped |-> (v >= 22)]
        BY SMT DEF TriggersAt, Triggers
      <3>2. ASSUME v >= 26 PROVE ~(v < 3) /\ MemoryColumns(v) = 26 /\ (v >= 9) = TRUE /\ (v >= 22) = TRUE
        BY <3>2, ColumnsNow
      <3> QED
        BY <1>2, <3>1, <3>2, Zenon
    <2> QED
      BY <1>2, <2>1, <2>2 DEF Final, Latest
  <1>3. CASE t \in {"entities_ai", "entities_au", "links_ai"}
    <2>1. LastDrop(t) = 10
      BY <1>3 DEF LastDrop
    <2>2. v >= 10 => TriggersAt(v)[t] = [columns |-> 10, gated |-> TRUE, scoped |-> FALSE]
      BY <1>3 DEF TriggersAt
    <2> QED
      BY <1>3, <2>1, <2>2 DEF Final
  <1>4. CASE t = "relations_ai"
    <2>1. LastDrop(t) = 14
      BY <1>4 DEF LastDrop
    <2>2. v >= 14 => TriggersAt(v)[t] = [columns |-> 14, gated |-> TRUE, scoped |-> FALSE]
      BY <1>4 DEF TriggersAt
    <2> QED
      BY <1>4, <2>1, <2>2 DEF Final
  <1> QED
    BY <1>1, <1>2, <1>3, <1>4 DEF Triggers

LEMMA ReleasedIs ==
  ASSUME NEW v \in 0..29, NEW R, NEW flag
  PROVE  LET s == Released(v, R, flag) IN
         /\ IsStore(s) /\ s.version = v /\ s.flag = flag /\ s.objects = ObjectsAt(v) /\ s.triggers = TriggersAt(v)
         /\ \A r \in Rows : s.rev[r] = IF r \in R THEN 1 ELSE 0
         /\ v >= 3 /\ flag # "0" => \A r \in Rows \cap R : [row |-> r, rev |-> 1, columns |-> MemoryColumns(v)] \in s.outbox
  <1>1. PICK rev : rev = [r \in Rows |-> IF r \in R THEN 1 ELSE 0]
    OBVIOUS
  <1>2. PICK bare : bare = [version |-> v, objects |-> ObjectsAt(v), triggers |-> TriggersAt(v),
                            flag |-> flag, rev |-> rev, refiled |-> {}, outbox |-> {}]
    OBVIOUS
  <1>3. PICK log : log = IF v < 3 \/ flag = "0" THEN {} ELSE Everything(bare, R, MemoryColumns(v))
    OBVIOUS
  <1>4. Released(v, R, flag) = [bare EXCEPT !.outbox = log]
    BY <1>1, <1>2, <1>3 DEF Released
  <1>5. PICK s : s = [version |-> v, objects |-> ObjectsAt(v), triggers |-> TriggersAt(v),
                      flag |-> flag, rev |-> rev, refiled |-> {}, outbox |-> log]
    OBVIOUS
  <1>6. Released(v, R, flag) = s
    BY <1>2, <1>4, <1>5
  <1>7. DOMAIN TriggersAt(v) = Triggers
    BY SMT DEF TriggersAt
  <1>8. rev \in [Rows -> Nat]
    BY <1>1
  <1>9. s.version = v /\ s.flag = flag /\ s.objects = ObjectsAt(v) /\ s.triggers = TriggersAt(v) /\ s.rev = rev
        /\ s.refiled = {} /\ s.outbox = log
    BY <1>5
  <1>10. IsStore(s)
    BY <1>5, <1>7, <1>8, <1>9 DEF IsStore
  <1>11. ASSUME v >= 3, flag # "0", NEW r \in Rows \cap R
         PROVE  [row |-> r, rev |-> 1, columns |-> MemoryColumns(v)] \in log
    <2>1. log = Everything(bare, R, MemoryColumns(v)) /\ bare.rev[r] = 1
      BY <1>1, <1>2, <1>3, <1>11
    <2> QED
      BY <1>11, <2>1 DEF Everything
  <1> QED
    BY <1>1, <1>6, <1>9, <1>10, <1>11

LEMMA InitKeeps ==
  ASSUME MigInit
  PROVE  MigInv
  <1>1. SchemaVersion = 29
    BY Latest29
  <1>2. PICK v \in IF together THEN Shared ELSE Releases : \E f \in IF v < 9 THEN {"unset"} ELSE {"0", "1"} :
          disk = Released(v, {r \in Rows : Since(KindOf[r]) <= v}, f)
    BY DEF MigInit
  <1>3. PICK f \in IF v < 9 THEN {"unset"} ELSE {"0", "1"} : disk = Released(v, {r \in Rows : Since(KindOf[r]) <= v}, f)
    BY <1>2
  <1>4. v \in 0..29
    BY <1>1, ReleaseAssumption
  <1>5. PICK R : R = {r \in Rows : Since(KindOf[r]) <= v}
    OBVIOUS
  <1>6. /\ IsStore(disk) /\ disk.version = v /\ disk.flag = f /\ disk.objects = ObjectsAt(v) /\ disk.triggers = TriggersAt(v)
        /\ \A r \in Rows : disk.rev[r] = IF r \in R THEN 1 ELSE 0
        /\ v >= 3 /\ f # "0" => \A r \in Rows \cap R : [row |-> r, rev |-> 1, columns |-> MemoryColumns(v)] \in disk.outbox
    BY <1>3, <1>4, <1>5, ReleasedIs
  <1>7. /\ work = disk /\ holder = NoOpener /\ stage = [p \in Openers |-> "down"] /\ at = [p \in Openers |-> <<1, 1>>]
        /\ found = [p \in Openers |-> "nothing"] /\ snapshots = <<>>
    BY DEF MigInit
  <1>8. IsPlace(<<1, 1>>)
    <2>1. 1 \in 1..29 /\ Len(Statements(1)) \in Nat \ {0}
      BY Lengths
    <2> QED
      BY <2>1 DEF IsPlace
  <1>9. MigShape
    <2>1. stage \in [Openers -> OpenStages]
      BY <1>7 DEF OpenStages
    <2>2. at = [p \in Openers |-> at[p]] /\ \A p \in Openers : IsPlace(at[p])
      BY <1>7, <1>8
    <2>3. found = [p \in Openers |-> found[p]]
      BY <1>7
    <2>4. snapshots \in Seq([version : 0..29, rev : [Rows -> Nat]])
      BY <1>7
    <2>5. \A p \in Openers : holder # p
      BY <1>7, NoOpenerOut
    <2> QED
      BY <1>6, <1>7, <2>1, <2>2, <2>3, <2>4, <2>5 DEF MigShape
  <1>10. Ahead(disk, work) /\ Full(disk) /\ Full(work)
    <2>1. ObjectsAt(v) \subseteq ObjectsAt(29)
      <3>1. 29 \in 0..29
        OBVIOUS
      <3> QED
        BY <1>4, <3>1, ObjectsAtIs
    <2> QED
      BY <1>6, <1>7, <2>1, GrowsSelf DEF Full
  <1>11. \A p \in Openers : Upgrading(p) /\ AloneRight(p)
    BY <1>7 DEF Upgrading, AloneRight, Migrating
  <1>12. Opening = {}
    BY <1>7 DEF Opening
  <1>13. \A t \in Triggers : Coming(t)
    BY <1>4, <1>6, <1>12, InitialTriggers DEF Coming
  <1>14. KeptDisk(disk)
    <2>0. f \in {"unset", "0", "1"}
      BY <1>3
    <2>1. ASSUME f = "unset" PROVE \A r \in Rows : KindOf[r] = "palace" => disk.rev[r] = 0
      <3>1. v < 9
        BY <2>1
      <3>2. \A r \in Rows : KindOf[r] = "palace" => Since(KindOf[r]) = 12
        BY DEF Since
      <3>3. \A r \in Rows : KindOf[r] = "palace" => r \notin R
        BY <1>4, <1>5, <3>1, <3>2
      <3> QED
        BY <1>6, <3>3
    <2>2. ASSUME f = "1" \/ (f = "unset" /\ v >= 3) PROVE LoggedAll(disk)
      <3>1. f # "0" /\ v >= 3
        BY <1>4, <2>2
      <3>2. ASSUME NEW r \in Present(disk) PROVE LoggedRow(disk, r)
        <4>1. r \in Rows \cap R /\ disk.rev[r] = 1
          BY <1>6 DEF Present
        <4>2. [row |-> r, rev |-> 1, columns |-> MemoryColumns(v)] \in disk.outbox
          BY <1>6, <3>1, <4>1
        <4> QED
          BY <4>1, <4>2 DEF LoggedRow
      <3> QED
        BY <3>2 DEF LoggedAll
    <2>3. \A r \in Rows : disk.rev[r] <= 1
      BY <1>6
    <2> QED
      BY <1>6, <2>0, <2>1, <2>2, <2>3 DEF KeptDisk, Kept
  <1> QED
    BY <1>9, <1>10, <1>11, <1>12, <1>13, <1>14 DEF MigInv, Alone

-----------------------------------------------------------------------------
(* The other steps of a server: where it goes, and what that leaves alone. *)
Goes(p, where) ==
    /\ stage' \in [Openers -> OpenStages] /\ at' = [q \in Openers |-> at'[q]] /\ found' = [q \in Openers |-> found'[q]]
    /\ Others(p) /\ IsPlace(at'[p]) /\ stage'[p] = where
LEMMA Going ==
  ASSUME MigInv, NEW p \in Openers, NEW where \in OpenStages, Goto(p, where), NEW x, IsPlace(x), NEW y,
         at' = at \/ at' = [at EXCEPT ![p] = x], found' = found \/ found' = [found EXCEPT ![p] = y]
  PROVE  /\ Goes(p, where)
         /\ at' = at \/ at'[p] = x
         /\ found' = found \/ found'[p] = y
  <1>1. stage \in [Openers -> OpenStages] /\ at = [q \in Openers |-> at[q]] /\ found = [q \in Openers |-> found[q]]
        /\ IsPlace(at[p])
    BY DEF MigInv, MigShape
  <1>2. stage' = [stage EXCEPT ![p] = where]
    BY DEF Goto
  <1>3. stage' \in [Openers -> OpenStages] /\ stage'[p] = where /\ \A q \in Openers : q # p => stage'[q] = stage[q]
    BY <1>1, <1>2
  <1>4. /\ at' = [q \in Openers |-> at'[q]] /\ (\A q \in Openers : q # p => at'[q] = at[q])
        /\ at' = at \/ at'[p] = x
    BY <1>1
  <1>5. /\ found' = [q \in Openers |-> found'[q]] /\ (\A q \in Openers : q # p => found'[q] = found[q])
        /\ found' = found \/ found'[p] = y
    BY <1>1
  <1>6. IsPlace(at'[p])
    BY <1>1, <1>4
  <1> QED
    BY <1>3, <1>4, <1>5, <1>6 DEF Goes, Others

LEMMA FirstPlace ==
  ASSUME NEW v \in 1..29
  PROVE  IsPlace(<<v, 1>>)
  <1>1. Len(Statements(v)) \in Nat \ {0}
    BY Lengths
  <1> QED
    BY <1>1 DEF IsPlace
LEMMA Forgetting ==
  ASSUME MigInv, NEW p \in Openers, NEW where \in OpenStages, Goto(p, where), Forget(p)
  PROVE  Goes(p, where)
  <1>1. IsPlace(<<1, 1>>)
    BY FirstPlace
  <1>2. at' = [at EXCEPT ![p] = <<1, 1>>] /\ found' = [found EXCEPT ![p] = "nothing"]
    BY DEF Forget
  <1> QED
    BY <1>1, <1>2, Going

\* The stores as they were.
Still == UNCHANGED <<disk, holder, work>>
LEMMA StillStores ==
  ASSUME MigInv, Still
  PROVE  /\ IsStore(disk)' /\ IsStore(work)' /\ Ahead(disk, work)' /\ Full(disk)' /\ Full(work)'
         /\ holder' \in Openers \cup {NoOpener} /\ (holder' = NoOpener => work' = disk')
         /\ \A q \in Openers : View(q)' = View(q)
         /\ KeptDisk(disk) => KeptDisk(disk)'
         /\ snapshots' = snapshots /\ Covered(disk) => Covered(disk)'
  <1>1. disk' = disk /\ work' = work /\ holder' = holder
    BY DEF Still
  <1>2. IsStore(disk)' /\ IsStore(work)' /\ Ahead(disk, work)' /\ Full(disk)' /\ Full(work)'
    BY <1>1 DEF MigInv, MigShape, IsStore, Ahead, Refiled, Full
  <1>3. holder' \in Openers \cup {NoOpener} /\ (holder' = NoOpener => work' = disk')
    BY <1>1 DEF MigInv, MigShape
  <1>4. \A q \in Openers : View(q)' = View(q)
    BY <1>1 DEF View
  <1>5. KeptDisk(disk) => KeptDisk(disk)'
    BY <1>1 DEF KeptDisk, Kept, LoggedAll, LoggedRow, Present, IsMemory
  <1>6. snapshots' = snapshots /\ Covered(disk) => Covered(disk)'
    BY <1>1 DEF Covered, IsMemory
  <1> QED
    BY <1>2, <1>3, <1>4, <1>5, <1>6

LEMMA ShapeKept ==
  ASSUME MigInv, NEW p \in Openers, NEW where, Goes(p, where), IsStore(disk)', IsStore(work)',
         holder' \in Openers \cup {NoOpener}, holder' = NoOpener => work' = disk',
         snapshots' \in Seq([version : 0..29, rev : [Rows -> Nat]]),
         \A q \in Openers : holder' = q => holder = q /\ q # p
  PROVE  MigShape'
  <1>1. MigShape
    BY DEF MigInv
  <1>2. /\ stage' \in [Openers -> OpenStages] /\ at' = [q \in Openers |-> at'[q]] /\ found' = [q \in Openers |-> found'[q]]
        /\ IsPlace(at'[p]) /\ \A q \in Openers : q # p => at'[q] = at[q] /\ stage'[q] = stage[q]
    BY DEF Goes, Others
  <1>3. \A q \in Openers : IsPlace(at'[q])
    BY <1>1, <1>2 DEF MigShape
  <1>4. ASSUME NEW q \in Openers, holder' = q PROVE stage'[q] = "commit" \/ (stage'[q] = "migrate" /\ Txn(at'[q][1], at'[q][2]))
    BY <1>1, <1>2, <1>4 DEF MigShape
  <1> QED
    BY <1>2, <1>3, <1>4 DEF MigShape

LEMMA OthersUpgrading ==
  ASSUME MigInv, NEW p \in Openers, NEW where, Goes(p, where), NEW q \in Openers, q # p,
         Migrating(q) => View(q).objects \subseteq View(q)'.objects,
         stage[q] \in {"migrate", "commit"} => (spared \/ Covered(disk) => spared' \/ Covered(disk)')
  PROVE  Upgrading(q)'
  <1>1. Upgrading(q)
    BY DEF MigInv
  <1>2. at'[q] = at[q] /\ stage'[q] = stage[q] /\ found'[q] = found[q]
    BY DEF Goes, Others
  <1>3. Migrating(q)' => Has(View(q)'.objects, at[q][1], at[q][2])
    BY <1>1, <1>2, HasMore DEF Upgrading, Migrating
  <1>4. stage[q] = "migrate" => Migrating(q)
    BY DEF Migrating
  <1> QED
    BY <1>1, <1>2, <1>3, <1>4 DEF Upgrading, Has

LEMMA AwayUpgrading ==
  ASSUME NEW p, stage'[p] \notin {"snapshot", "migrate", "commit"}
  PROVE  Upgrading(p)'
  BY DEF Upgrading, Migrating

LEMMA ComingKept ==
  ASSUME MigInv, NEW p \in Openers, NEW where, Goes(p, where), NEW t \in Triggers, disk'.triggers = disk.triggers,
         Behind(p, t) => Coming(t)',
         Between(p, t) => (disk.triggers[t] = Absent => Coming(t)'),
         Opening = {} /\ disk.version < LastDrop(t) => Coming(t)'
  PROVE  Coming(t)'
  <1>1. Coming(t)
    BY DEF MigInv
  <1>2. \A q \in Openers : q # p => (Behind(q, t) <=> Behind(q, t)') /\ (Between(q, t) <=> Between(q, t)')
    BY DEF Goes, Others, Behind, Between, Migrating
  <1>3. CASE Final(t, disk.triggers[t])
    BY <1>3 DEF Coming
  <1>4. CASE \E q \in Openers : Behind(q, t)
    <2>1. PICK q \in Openers : Behind(q, t)
      BY <1>4
    <2>2. q # p => Behind(q, t)'
      BY <1>2, <2>1
    <2> QED
      BY <2>1, <2>2 DEF Coming
  <1>5. CASE disk.triggers[t] = Absent /\ \E q \in Openers : Between(q, t)
    <2>1. PICK q \in Openers : Between(q, t)
      BY <1>5
    <2>2. q # p => Between(q, t)'
      BY <1>2, <2>1
    <2> QED
      BY <1>5, <2>1, <2>2 DEF Coming
  <1> QED
    BY <1>1, <1>3, <1>4, <1>5 DEF Coming

LEMMA Drops ==
  ASSUME NEW t
  PROVE  LastDrop(t) \in {10, 14, 26}
  BY DEF LastDrop
\* A server that is not migrating does not take part in it, before or after.
LEMMA ComingAway ==
  ASSUME MigInv, NEW p \in Openers, NEW where, Goes(p, where), NEW t \in Triggers, disk'.triggers = disk.triggers,
         p \in Opening, ~Behind(p, t), ~Between(p, t)
  PROVE  Coming(t)'
  BY ComingKept

\* What a server alone with the store has found of it.
LEMMA OthersAlone ==
  ASSUME MigInv, ~together, NEW p \in Openers, NEW where, Goes(p, where), NEW q \in Openers, q # p,
         stage[q] \in {"down", "open"}, stage[q] = "open" => disk'.version = 29 /\ disk'.flag \in {"0", "1"}
  PROVE  AloneRight(q)'
  <1>1. stage'[q] = stage[q]
    BY DEF Goes, Others
  <1> QED
    BY <1>1 DEF AloneRight
LEMMA OpeningNow ==
  ASSUME NEW p \in Openers, NEW where, Goes(p, where), NEW q \in Openers
  PROVE  q \in Opening' <=> IF q = p THEN where \notin {"down", "open"} ELSE q \in Opening
  BY DEF Goes, Others, Opening
LEMMA AloneIs ==
  ASSUME MigInv, ~together, NEW p \in Openers, p \in Opening
  PROVE  /\ \A q \in Openers : q # p => /\ stage[q] \in {"down", "open"}
                                        /\ stage[q] = "open" => disk.version = 29 /\ disk.flag \in {"0", "1"}
         /\ KeptDisk(disk) /\ AloneRight(p) /\ Opening = {p}
  <1>1. \A q \in Openers : AloneRight(q)
    BY DEF MigInv, Alone
  <1>2. KeptDisk(disk) /\ \A q \in Opening : q = p
    BY DEF MigInv, Alone
  <1>3. Opening = {p}
    BY <1>2
  <1>4. ASSUME NEW q \in Openers, q # p PROVE stage[q] \in {"down", "open"}
    BY <1>3, <1>4 DEF Opening
  <1>5. ASSUME NEW q \in Openers, stage[q] = "open" PROVE disk.version = 29 /\ disk.flag \in {"0", "1"}
    BY <1>1, <1>5 DEF AloneRight
  <1> QED
    BY <1>1, <1>2, <1>3, <1>4, <1>5

-----------------------------------------------------------------------------
(* The other actions keep the invariant.                                   *)
LEMMA OpenKeeps ==
  ASSUME MigInv, NEW p \in Openers, Open(p)
  PROVE  MigInv'
  <1>0. PICK v : v = disk.version
    OBVIOUS
  <1>1. /\ stage[p] = "down" /\ (together \/ Opening = {})
        /\ Still /\ UNCHANGED <<found, sync, snapshots, spared, together>>
    BY DEF Open, Still
  <1>2. v \in 0..29 /\ SchemaVersion = 29
    BY <1>0, Latest29 DEF MigInv, MigShape, IsStore
  <1>3. holder # p
    BY <1>1 DEF MigInv, MigShape
  <1>4. PICK where : /\ Goes(p, where) /\ where \in {"snapshot", "flag"}
                     /\ where = "snapshot" => v < 29 /\ at'[p] = <<v + 1, 1>>
                     /\ where = "flag" => v = 29
    <2>1. CASE v < 29
      <3>1. Goto(p, "snapshot") /\ at' = [at EXCEPT ![p] = <<v + 1, 1>>] /\ "snapshot" \in OpenStages
        BY <1>0, <1>2, <2>1 DEF Open, OpenStages
      <3>2. v + 1 \in 1..29
        BY <1>2, <2>1
      <3>3. IsPlace(<<v + 1, 1>>)
        BY <3>2, FirstPlace
      <3>4. Goes(p, "snapshot")
        BY <1>1, <3>1, <3>3, Going
      <3>5. at'[p] = <<v + 1, 1>>
        BY <3>1 DEF MigInv, MigShape
      <3> QED
        BY <2>1, <3>4, <3>5
    <2>2. CASE ~(v < 29)
      <3>1. Goto(p, "flag") /\ at' = at /\ "flag" \in OpenStages
        BY <1>0, <1>2, <2>2 DEF Open, OpenStages
      <3>2. IsPlace(at[p])
        BY DEF MigInv, MigShape
      <3>3. Goes(p, "flag")
        BY <1>1, <3>1, <3>2, Going
      <3> QED
        BY <1>2, <2>2, <3>3
    <2> QED
      BY <2>1, <2>2
  <1>5. /\ IsStore(disk)' /\ IsStore(work)' /\ Ahead(disk, work)' /\ Full(disk)' /\ Full(work)'
        /\ holder' \in Openers \cup {NoOpener} /\ (holder' = NoOpener => work' = disk')
        /\ \A q \in Openers : View(q)' = View(q)
        /\ KeptDisk(disk) => KeptDisk(disk)'
        /\ Covered(disk) => Covered(disk)'
    BY <1>1, StillStores
  <1>6. holder' = holder /\ disk' = disk
    BY <1>1 DEF Still
  <1>7. MigShape'
    <2>1. snapshots' \in Seq([version : 0..29, rev : [Rows -> Nat]])
      BY <1>1 DEF MigInv, MigShape
    <2> QED
      BY <1>3, <1>4, <1>5, <1>6, <2>1, ShapeKept
  <1>8. View(p)' = disk /\ View(p) = disk
    BY <1>3, <1>5 DEF View
  <1>9. stage'[p] = where
    BY <1>4 DEF Goes
  <1>10. ASSUME NEW q \in Openers PROVE Upgrading(q)'
    <2>1. CASE q # p
      BY <1>1, <1>4, <1>5, <2>1, OthersUpgrading
    <2>2. CASE q = p /\ where = "snapshot"
      <3>1. v + 1 \in 1..29 /\ (v + 1) - 1 = v
        BY <1>2, <1>4, <2>2
      <3>2. ObjectsAt(v) \subseteq disk.objects
        BY <1>0 DEF MigInv, Full
      <3>3. Has(disk.objects, v + 1, 1)
        BY <3>1, <3>2, HasNone
      <3>4. Has(View(p)'.objects, v + 1, 1)
        BY <1>8, <3>3
      <3> QED
        BY <1>4, <1>9, <2>2, <3>4 DEF Upgrading, Migrating, Has
    <2>3. CASE q = p /\ where = "flag"
      BY <1>9, <2>3, AwayUpgrading
    <2> QED
      BY <1>4, <2>1, <2>2, <2>3
  <1>11. ASSUME NEW t \in Triggers PROVE Coming(t)'
    <2>1. ~Behind(p, t) /\ ~Between(p, t)
      BY <1>1 DEF Behind, Between, Migrating
    <2>2. ASSUME v < LastDrop(t) PROVE Coming(t)'
      <3>1. LastDrop(t) \in {10, 14, 26}
        BY Drops
      <3>2. where = "snapshot" /\ at'[p] = <<v + 1, 1>>
        BY <1>4, <2>2, <3>1
      <3>3. v + 1 < LastDrop(t) \/ v + 1 = LastDrop(t)
        BY <1>2, <2>2, <3>1
      <3>4. Behind(p, t)'
        BY <1>9, <3>2, <3>3 DEF Behind, Migrating
      <3> QED
        BY <3>4 DEF Coming
    <2>3. Opening = {} /\ disk.version < LastDrop(t) => Coming(t)'
      BY <1>0, <2>2
    <2> QED
      BY <1>4, <1>6, <2>1, <2>3, ComingKept
  <1>12. ASSUME ~together PROVE Alone'
    <2>1. KeptDisk(disk)'
      BY <1>5, <1>12 DEF MigInv, Alone
    <2>2. Opening = {}
      BY <1>1, <1>12
    <2>3. ASSUME NEW q \in Openers PROVE AloneRight(q)'
      <3>1. AloneRight(q)
        BY <1>12 DEF MigInv, Alone
      <3>2. CASE q # p
        <4>1. stage[q] \in {"down", "open"}
          BY <2>2 DEF Opening
        <4>2. stage[q] = "open" => disk'.version = 29 /\ disk'.flag \in {"0", "1"}
          BY <1>6, <3>1 DEF AloneRight
        <4> QED
          BY <1>4, <1>12, <3>2, <4>1, <4>2, OthersAlone
      <3>3. CASE q = p
        BY <1>0, <1>4, <1>6, <1>9, <3>3 DEF AloneRight
      <3> QED
        BY <3>2, <3>3
    <2>4. \A q \in Opening' : q = p
      BY <1>4, <2>2, OpeningNow DEF Opening
    <2> QED
      BY <2>1, <2>3, <2>4 DEF Alone
  <1>13. Alone'
    BY <1>1, <1>12 DEF Alone
  <1> QED
    BY <1>5, <1>7, <1>10, <1>11, <1>13 DEF MigInv

\* The retention of backups.
LEMMA Latter ==
  ASSUME NEW k \in Nat \ {0}, NEW m \in Nat \ {0}
  PROVE  LET b == Max({1, k - m + 1}) IN b \in 1..k
  <1>1. PICK j : j = k - m + 1 /\ j \in Int /\ j <= k
    OBVIOUS
  <1>2. PICK b : b = Max({1, j})
    OBVIOUS
  <1>3. \E x \in {1, j} : \A y \in {1, j} : x >= y
    BY <1>1
  <1>4. b \in {1, j} /\ b >= 1
    <2>1. b = CHOOSE x \in {1, j} : \A y \in {1, j} : x >= y
      BY <1>2 DEF Max
    <2> QED
      BY <1>3, <2>1
  <1> QED
    BY <1>1, <1>2, <1>4
LEMMA Span ==
  ASSUME NEW k \in Nat \ {0}, NEW m \in 1..k
  PROVE  /\ m \in Int /\ k \in Int /\ m <= k /\ k - m + 1 \in Nat \ {0} /\ k - m + 1 \in 1..(k - m + 1)
         /\ m + (k - m + 1) - 1 = k /\ m..k \subseteq 1..k
  OBVIOUS
\* The retention of backups keeps the one that was made last.
Retained(all) == SubSeq(all, Max({1, Len(all) - Keep + 1}), Len(all))
EndsWith(s, b) == Len(s) \in Nat \ {0} /\ s[Len(s)] = b
LEMMA LastKept ==
  ASSUME NEW S, NEW old \in Seq(S), NEW b \in S, NEW new, new = Retained(Append(old, b))
  PROVE  new \in Seq(S) /\ EndsWith(new, b)
  <1>1. PICK all : all = Append(old, b)
    OBVIOUS
  <1>2. all \in Seq(S) /\ Len(all) \in Nat \ {0} /\ all[Len(all)] = b
    BY <1>1
  <1>3. PICK k : k = Len(all) /\ k \in Nat \ {0} /\ \A i \in 1..k : all[i] \in S
    BY <1>2
  <1>4. PICK m : m = Max({1, k - Keep + 1}) /\ m \in 1..k
    BY <1>3, Latter, OpenBounds
  <1>5. new = SubSeq(all, m, k)
    BY <1>1, <1>3, <1>4, Zenon DEF Retained
  <1>6. m \in Int /\ k \in Int /\ m <= k /\ k - m + 1 \in Nat \ {0} /\ k - m + 1 \in 1..(k - m + 1)
        /\ m + (k - m + 1) - 1 = k /\ m..k \subseteq 1..k
    BY <1>3, <1>4, Span
  <1>7. \A i \in m..k : all[i] \in S
    BY <1>3, <1>6
  <1>8. /\ SubSeq(all, m, k) \in Seq(S) /\ Len(SubSeq(all, m, k)) = IF m <= k THEN k - m + 1 ELSE 0
        /\ \A i \in 1..k - m + 1 : SubSeq(all, m, k)[i] = all[m + i - 1]
    BY <1>6, <1>7, SubSeqProperties
  <1>9. new \in Seq(S) /\ Len(new) = k - m + 1 /\ new[k - m + 1] = all[k]
    BY <1>5, <1>6, <1>8
  <1> QED
    BY <1>2, <1>3, <1>6, <1>9 DEF EndsWith

LEMMA SnapshotCovers ==
  ASSUME MigInv, NEW p \in Openers, Snapshot(p)
  PROVE  snapshots' \in Seq([version : 0..29, rev : [Rows -> Nat]]) /\ (spared' \/ Covered(disk)')
  <1>1. disk' = disk /\ snapshots \in Seq([version : 0..29, rev : [Rows -> Nat]]) /\ IsStore(disk)
    BY DEF Snapshot, MigInv, MigShape
  <1>2. CASE ~(\E r \in Rows : IsMemory(r) /\ disk.rev[r] > 0)
    <2>1. snapshots' = snapshots
      BY <1>2 DEF Snapshot
    <2>2. Covered(disk)'
      BY <1>1, <1>2 DEF Covered, IsMemory
    <2> QED
      BY <1>1, <2>1, <2>2
  <1>3. CASE spared' = TRUE /\ UNCHANGED snapshots
    BY <1>1, <1>3
  <1>4. CASE snapshots' = LET all == Append(snapshots, [version |-> disk.version, rev |-> disk.rev])
                          IN SubSeq(all, Max({1, Len(all) - Keep + 1}), Len(all))
    <2>1. PICK b : b = [version |-> disk.version, rev |-> disk.rev]
      OBVIOUS
    <2>2. b \in [version : 0..29, rev : [Rows -> Nat]] /\ b.rev = disk.rev
      BY <1>1, <2>1 DEF IsStore
    <2>3. snapshots' \in Seq([version : 0..29, rev : [Rows -> Nat]]) /\ Len(snapshots') \in Nat \ {0}
          /\ snapshots'[Len(snapshots')] = b
      <3>1. PICK S : S = [version : 0..29, rev : [Rows -> Nat]]
        OBVIOUS
      <3>2. snapshots' = Retained(Append(snapshots, b))
        BY <1>4, <2>1, Zenon DEF Retained
      <3>3. snapshots \in Seq(S) /\ b \in S
        BY <1>1, <2>2, <3>1
      <3>4. snapshots' \in Seq(S) /\ Len(snapshots') \in Nat \ {0} /\ snapshots'[Len(snapshots')] = b
        <4>1. PICK new : new = snapshots'
          OBVIOUS
        <4>2. PICK old : old = snapshots
          OBVIOUS
        <4>3. old \in Seq(S) /\ b \in S
          BY <3>3, <4>2
        <4>4. new = Retained(Append(old, b))
          BY <3>2, <4>1, <4>2, Zenon
        <4>5. new \in Seq(S) /\ EndsWith(new, b)
          BY <4>3, <4>4, LastKept
        <4> QED
          BY <4>1, <4>5 DEF EndsWith
      <3> QED
        BY <3>1, <3>4
    <2>4. Len(snapshots') \in 1..Len(snapshots') /\ snapshots'[Len(snapshots')].rev = disk.rev
      BY <2>2, <2>3
    <2>5. Covered(disk)'
      BY <1>1, <2>4 DEF Covered, IsMemory
    <2> QED
      BY <2>3, <2>5
  <1> QED
    BY <1>2, <1>3, <1>4 DEF Snapshot

LEMMA SnapshotKeeps ==
  ASSUME MigInv, NEW p \in Openers, Snapshot(p)
  PROVE  MigInv'
  <1>1. stage[p] = "snapshot" /\ Goto(p, "migrate") /\ Still /\ UNCHANGED <<at, found, sync, together>>
    BY DEF Snapshot, Still
  <1>2. snapshots' \in Seq([version : 0..29, rev : [Rows -> Nat]]) /\ (spared' \/ Covered(disk)')
    BY SnapshotCovers
  <1>3. holder # p
    BY <1>1 DEF MigInv, MigShape
  <1>4. Goes(p, "migrate")
    <2>1. "migrate" \in OpenStages /\ IsPlace(at[p])
      BY DEF OpenStages, MigInv, MigShape
    <2> QED
      BY <1>1, <2>1, Going
  <1>5. /\ IsStore(disk)' /\ IsStore(work)' /\ Ahead(disk, work)' /\ Full(disk)' /\ Full(work)'
        /\ holder' \in Openers \cup {NoOpener} /\ (holder' = NoOpener => work' = disk')
        /\ \A q \in Openers : View(q)' = View(q)
        /\ KeptDisk(disk) => KeptDisk(disk)'
    BY <1>1, StillStores
  <1>6. holder' = holder /\ disk' = disk /\ View(p) = disk
    BY <1>1, <1>3 DEF Still, View
  <1>7. MigShape'
    BY <1>2, <1>3, <1>4, <1>5, <1>6, ShapeKept
  <1>8. stage'[p] = "migrate" /\ at'[p] = at[p]
    BY <1>1, <1>4 DEF Goes
  <1>9. p \in Opening
    BY <1>1 DEF Opening
  <1>10. PICK v : v = at[p][1] /\ v \in 1..29
    BY PlaceOf
  <1>11. at[p][2] = 1
    BY <1>1 DEF MigInv, Upgrading
  <1>12. ASSUME NEW q \in Openers PROVE Upgrading(q)'
    <2>1. CASE q # p
      BY <1>2, <1>4, <1>5, <2>1, OthersUpgrading
    <2>2. CASE q = p
      <3>1. Has(View(p).objects, at[p][1], at[p][2])
        BY <1>1 DEF MigInv, Upgrading, Migrating
      <3>2. at[p] # <<28, 2>>
        BY <1>11
      <3> QED
        BY <1>2, <1>5, <1>8, <2>2, <3>1, <3>2 DEF Upgrading, Migrating, Has
    <2> QED
      BY <2>1, <2>2
  <1>13. ASSUME NEW t \in Triggers PROVE Coming(t)'
    <2>1. Behind(p, t) => Behind(p, t)'
      BY <1>8 DEF Behind, Migrating
    <2>2. ~Between(p, t)
      BY <1>11 DEF Between
    <2> QED
      BY <1>4, <1>6, <1>9, <2>1, <2>2, ComingKept DEF Coming
  <1>14. ASSUME ~together PROVE Alone'
    <2>1. /\ \A q \in Openers : q # p => /\ stage[q] \in {"down", "open"}
                                         /\ stage[q] = "open" => disk.version = 29 /\ disk.flag \in {"0", "1"}
          /\ KeptDisk(disk) /\ AloneRight(p) /\ Opening = {p}
      BY <1>9, <1>14, AloneIs
    <2>2. \A q \in Openers : q # p => AloneRight(q)'
      BY <1>4, <1>6, <1>14, <2>1, OthersAlone
    <2>3. AloneRight(p)'
      <3>1. at[p] = <<disk.version + 1, 1>>
        BY <1>1, <2>1 DEF AloneRight
      <3>2. PICK w \in 0..29 : w = disk.version
        BY DEF MigInv, MigShape, IsStore
      <3>3. v = w + 1 /\ w < 29 /\ w < v
        BY <1>10, <3>1, <3>2
      <3>4. Kept(disk, w >= 3, TRUE)
        BY <2>1, <3>2, <3>3 DEF KeptDisk, Kept
      <3>5. (v > 3 \/ (v = 3 /\ 1 = 7)) <=> w >= 3
        BY <3>3
      <3>6. Kept(disk, FilledAt(v, 1), EarlyAt(v, 1))
        BY <3>4, <3>5 DEF Kept, FilledAt, EarlyAt
      <3>7. KeptAt(View(p), v, 1)
        BY <1>6, <3>2, <3>3, <3>6 DEF KeptAt
      <3>8. KeptAt(View(p), v, 1)'
        <4>1. View(p)' = disk
          BY <1>5, <1>6
        <4> QED
          BY <1>6, <3>7, <4>1 DEF KeptAt, Kept, LoggedAll, LoggedRow, Present, IsMemory
      <3> QED
        BY <1>6, <1>8, <1>10, <1>11, <3>2, <3>3, <3>8 DEF AloneRight, KeptAt, Kept, LoggedAll, LoggedRow, Present, IsMemory
    <2>4. \A q \in Opening' : q = p
      BY <1>4, <2>1, OpeningNow DEF Opening
    <2> QED
      BY <1>5, <2>1, <2>2, <2>3, <2>4 DEF Alone
  <1>15. Alone'
    BY <1>1, <1>14 DEF Alone
  <1> QED
    BY <1>5, <1>7, <1>12, <1>13, <1>15 DEF MigInv

\* A server that leaves the upgrade without having changed a store.
LEMMA AwayKeeps ==
  ASSUME MigInv, NEW p \in Openers, NEW where \in {"down", "reconcile", "open"}, Goes(p, where), Still,
         UNCHANGED <<snapshots, spared, together>>, p \in Opening, holder # p,
         \A t \in Triggers : ~Behind(p, t) /\ ~Between(p, t), ~together => AloneRight(p)'
  PROVE  MigInv'
  <1>1. /\ IsStore(disk)' /\ IsStore(work)' /\ Ahead(disk, work)' /\ Full(disk)' /\ Full(work)'
        /\ holder' \in Openers \cup {NoOpener} /\ (holder' = NoOpener => work' = disk')
        /\ \A q \in Openers : View(q)' = View(q)
        /\ KeptDisk(disk) => KeptDisk(disk)'
        /\ Covered(disk) => Covered(disk)'
    BY StillStores
  <1>2. holder' = holder /\ disk' = disk /\ stage'[p] = where
    BY DEF Still, Goes
  <1>3. MigShape'
    <2>1. snapshots' \in Seq([version : 0..29, rev : [Rows -> Nat]])
      BY DEF MigInv, MigShape
    <2> QED
      BY <1>1, <1>2, <2>1, ShapeKept
  <1>4. ASSUME NEW q \in Openers PROVE Upgrading(q)'
    <2>1. CASE q # p
      BY <1>1, <2>1, OthersUpgrading
    <2>2. CASE q = p
      BY <1>2, <2>2, AwayUpgrading
    <2> QED
      BY <2>1, <2>2
  <1>5. \A t \in Triggers : Coming(t)'
    BY <1>2, ComingAway
  <1>6. ASSUME ~together PROVE Alone'
    <2>1. /\ \A q \in Openers : q # p => /\ stage[q] \in {"down", "open"}
                                         /\ stage[q] = "open" => disk.version = 29 /\ disk.flag \in {"0", "1"}
          /\ KeptDisk(disk) /\ Opening = {p}
      BY <1>6, AloneIs
    <2>2. \A q \in Openers : q # p => AloneRight(q)'
      BY <1>2, <1>6, <2>1, OthersAlone
    <2>3. \A q \in Opening' : q = p
      BY <2>1, OpeningNow DEF Opening
    <2> QED
      BY <1>1, <1>6, <2>1, <2>2, <2>3 DEF Alone
  <1>7. Alone'
    BY <1>6 DEF Alone
  <1> QED
    BY <1>1, <1>3, <1>4, <1>5, <1>7 DEF MigInv

LEMMA AddFailsKeeps ==
  ASSUME MigInv, NEW p \in Openers, Add(p), stage'[p] = "down"
  PROVE  MigInv'
  <1>1. stage[p] = "migrate" /\ Current(p).op = "add" /\ UNCHANGED <<sync, snapshots, spared, together, opens>>
    BY DEF Add
  <1>2. at[p] = <<28, 2>> /\ holder # p
    BY <1>1, AtVersion28
  <1>3. ~Advance(p)
    <2>1. ASSUME Advance(p) PROVE FALSE
      <3>1. stage' = stage \/ stage' = [stage EXCEPT ![p] = "commit"]
        BY <2>1 DEF Advance, Goto
      <3>2. stage \in [Openers -> OpenStages]
        BY DEF MigInv, MigShape
      <3> QED
        BY <1>1, <3>1, <3>2
    <2> QED
      BY <2>1
  <1>4. Goto(p, "down") /\ Forget(p) /\ Still
    BY <1>3 DEF Add, Still
  <1>5. Goes(p, "down")
    BY <1>4, Forgetting DEF OpenStages
  <1>6. p \in Opening
    BY <1>1 DEF Opening
  <1>7. ASSUME NEW t \in Triggers PROVE ~Behind(p, t) /\ ~Between(p, t)
    <2>1. LastDrop(t) \in {10, 14, 26} /\ at[p][1] = 28
      BY <1>2, Drops
    <2> QED
      BY <2>1 DEF Behind, Between
  <1>8. stage'[p] = "down"
    OBVIOUS
  <1>9. AloneRight(p)'
    BY <1>8 DEF AloneRight
  <1> QED
    BY <1>1, <1>2, <1>4, <1>5, <1>6, <1>7, <1>9, AwayKeeps

LEMMA ReadFlagKeeps ==
  ASSUME MigInv, NEW p \in Openers, ReadFlag(p)
  PROVE  MigInv'
  <1>1. stage[p] = "flag" /\ Still /\ UNCHANGED <<at, snapshots, spared, together>>
    BY DEF ReadFlag, Still
  <1>2. holder # p
    BY <1>1 DEF MigInv, MigShape
  <1>3. p \in Opening /\ \A t \in Triggers : ~Behind(p, t) /\ ~Between(p, t)
    BY <1>1 DEF Opening, Behind, Between, Migrating
  <1>4. IsPlace(at[p]) /\ disk' = disk
    BY <1>1 DEF MigInv, MigShape, Still
  <1>5. ~together => disk.version = 29
    BY <1>1, <1>3, AloneIs DEF AloneRight
  <1>6. CASE disk.flag = Desired
    <2>1. Goto(p, "open") /\ found' = found /\ "open" \in OpenStages
      BY <1>6 DEF ReadFlag, OpenStages
    <2>2. Goes(p, "open")
      BY <1>1, <1>4, <2>1, Going
    <2>3. disk.flag \in {"0", "1"} /\ stage'[p] = "open"
      BY <1>6, <2>2 DEF Desired, Goes
    <2>4. ~together => AloneRight(p)'
      BY <1>4, <1>5, <2>3 DEF AloneRight
    <2> QED
      BY <1>1, <1>2, <1>3, <2>2, <2>4, AwayKeeps
  <1>7. CASE disk.flag # Desired
    <2>1. Goto(p, "reconcile") /\ found' = [found EXCEPT ![p] = disk.flag] /\ "reconcile" \in OpenStages
      BY <1>7 DEF ReadFlag, OpenStages
    <2>2. Goes(p, "reconcile")
      BY <1>1, <1>4, <2>1, Going
    <2>3. found'[p] = disk.flag
      BY <2>1 DEF MigInv, MigShape
    <2>4. stage'[p] = "reconcile"
      BY <2>2 DEF Goes
    <2>5. ~together => AloneRight(p)'
      BY <1>4, <1>5, <2>3, <2>4 DEF AloneRight
    <2> QED
      BY <1>1, <1>2, <1>3, <2>2, <2>5, AwayKeeps
  <1> QED
    BY <1>6, <1>7

LEMMA MigratedGrows ==
  ASSUME MigInv, NEW p \in Openers, Migrated(p)
  PROVE  disk' = View(p) /\ work' = View(p) /\ holder' = NoOpener /\ Grows(disk, disk') /\ disk'.triggers = disk.triggers
  <1>1. disk' = View(p) /\ work' = View(p) /\ holder' = NoOpener
    BY DEF Migrated, Finish, MayWrite
  <1>2. Ahead(disk, View(p))
    BY PlaceOf
  <1> QED
    BY <1>1, <1>2 DEF Ahead, Grows
LEMMA MigratedKeeps ==
  ASSUME MigInv, NEW p \in Openers, Migrated(p)
  PROVE  MigInv'
  <1>1. stage[p] = "commit" /\ holder \in {p, NoOpener} /\ UNCHANGED <<snapshots, spared, together>>
    BY DEF Migrated, MayWrite
  <1>2. Goes(p, "flag")
    <2>1. Goto(p, "flag") /\ Forget(p) /\ "flag" \in OpenStages
      BY DEF Migrated, OpenStages
    <2> QED
      BY <2>1, Forgetting
  <1>3. disk' = View(p) /\ work' = View(p) /\ holder' = NoOpener /\ Grows(disk, disk') /\ disk'.triggers = disk.triggers
    BY MigratedGrows
  <1>4. PICK s : s = View(p)
    OBVIOUS
  <1>5. IsStore(s) /\ Full(s)
    BY <1>4, PlaceOf
  <1>6. IsStore(disk)' /\ IsStore(work)' /\ Full(disk)' /\ Full(work)' /\ Ahead(disk, work)'
    BY <1>3, <1>4, <1>5 DEF IsStore, Full, Ahead, Refiled
  <1>7. MigShape'
    <2>1. snapshots' \in Seq([version : 0..29, rev : [Rows -> Nat]])
      BY <1>1 DEF MigInv, MigShape
    <2> QED
      BY <1>2, <1>3, <1>6, <2>1, NoOpenerOut, ShapeKept
  <1>8. Covered(disk) => Covered(disk)'
    <2>1. IsStore(disk)
      BY DEF MigInv, MigShape
    <2> QED
      BY <1>1, <1>3, <2>1, StaysCovered
  <1>9. stage'[p] = "flag"
    BY <1>2 DEF Goes
  <1>10. ASSUME NEW q \in Openers PROVE Upgrading(q)'
    <2>1. CASE q # p
      <3>1. View(q) = disk /\ View(q)' = disk'
        BY <1>1, <1>3, <2>1, NoOpenerOut DEF View
      <3>2. View(q).objects \subseteq View(q)'.objects
        BY <1>3, <3>1 DEF Grows
      <3> QED
        BY <1>1, <1>2, <1>8, <2>1, <3>2, OthersUpgrading
    <2>2. CASE q = p
      BY <1>9, <2>2, AwayUpgrading
    <2> QED
      BY <2>1, <2>2
  <1>11. p \in Opening /\ \A t \in Triggers : ~Behind(p, t) /\ ~Between(p, t)
    BY <1>1 DEF Opening, Behind, Between, Migrating
  <1>12. \A t \in Triggers : Coming(t)'
    BY <1>2, <1>3, <1>11, ComingAway
  <1>13. ASSUME ~together PROVE Alone'
    <2>1. /\ \A q \in Openers : q # p => /\ stage[q] \in {"down", "open"}
                                         /\ stage[q] = "open" => disk.version = 29 /\ disk.flag \in {"0", "1"}
          /\ KeptDisk(disk) /\ AloneRight(p) /\ Opening = {p}
      BY <1>11, <1>13, AloneIs
    <2>2. s.version = 29 /\ Kept(s, TRUE, FALSE)
      BY <1>1, <1>4, <2>1 DEF AloneRight
    <2>3. disk'.version = 29 /\ disk'.flag = disk.flag
      BY <1>3, <1>4, <2>2 DEF Grows
    <2>4. \A q \in Openers : q # p => AloneRight(q)'
      BY <1>2, <1>13, <2>1, <2>3, OthersAlone
    <2>5. AloneRight(p)'
      BY <1>9, <2>3 DEF AloneRight
    <2>6. KeptDisk(disk)'
      <3>1. Kept(s, s.version >= 3, s.version < 29)
        BY <2>2 DEF Kept
      <3> QED
        BY <1>3, <1>4, <3>1 DEF KeptDisk, Kept, LoggedAll, LoggedRow, Present, IsMemory
    <2>7. \A q \in Opening' : q = p
      BY <1>2, <2>1, OpeningNow DEF Opening
    <2> QED
      BY <2>4, <2>5, <2>6, <2>7 DEF Alone
  <1>14. Alone'
    BY <1>1, <1>13 DEF Alone
  <1> QED
    BY <1>6, <1>7, <1>10, <1>12, <1>14 DEF MigInv

LEMMA StopKeeps ==
  ASSUME MigInv, NEW p \in Openers, Stop(p)
  PROVE  MigInv'
  <1>1. stage[p] # "down" /\ (p \in Opening => ~together) /\ disk' = disk /\ UNCHANGED <<snapshots, spared, together>>
        /\ holder' = (IF holder = p THEN NoOpener ELSE holder) /\ work' = (IF holder = p THEN disk ELSE work)
    BY DEF Stop
  <1>2. Goes(p, "down")
    <2>1. Goto(p, "down") /\ Forget(p) /\ "down" \in OpenStages
      BY DEF Stop, OpenStages
    <2> QED
      BY <2>1, Forgetting
  <1>3. MigShape /\ Ahead(disk, work) /\ Full(disk) /\ Full(work) /\ Ahead(disk, disk)
    BY GrowsSelf DEF MigInv
  <1>4. IsStore(disk)' /\ IsStore(work)' /\ Full(disk)' /\ Full(work)' /\ Ahead(disk, work)'
    BY <1>1, <1>3 DEF MigShape, IsStore, Full, Ahead, Refiled
  <1>5. MigShape'
    <2>1. snapshots' \in Seq([version : 0..29, rev : [Rows -> Nat]]) /\ holder' \in Openers \cup {NoOpener}
          /\ (holder' = NoOpener => work' = disk')
      BY <1>1, <1>3 DEF MigShape
    <2>2. \A q \in Openers : holder' = q => holder = q /\ q # p
      BY <1>1, NoOpenerOut
    <2> QED
      BY <1>2, <1>4, <2>1, <2>2, ShapeKept
  <1>6. stage'[p] = "down"
    BY <1>2 DEF Goes
  <1>7. ASSUME NEW q \in Openers PROVE Upgrading(q)'
    <2>1. CASE q # p
      <3>1. View(q)' = View(q)
        BY <1>1, <2>1, NoOpenerOut DEF View
      <3>2. Covered(disk) => Covered(disk)'
        BY <1>1 DEF Covered, IsMemory
      <3> QED
        BY <1>1, <1>2, <2>1, <3>1, <3>2, OthersUpgrading
    <2>2. CASE q = p
      BY <1>6, <2>2, AwayUpgrading
    <2> QED
      BY <2>1, <2>2
  <1>8. ASSUME NEW t \in Triggers PROVE Coming(t)'
    <2>1. ASSUME Behind(p, t) \/ Between(p, t) PROVE Coming(t)'
      <3>1. Migrating(p) /\ p \in Opening
        BY <2>1 DEF Behind, Between, Migrating, Opening
      <3>2. AloneRight(p) /\ Opening = {p}
        BY <1>1, <3>1, AloneIs
      <3>3. Opening' = {}
        BY <1>2, <3>2, OpeningNow DEF Opening
      <3>4. PICK w \in 0..29, v \in 1..29 : w = disk.version /\ v = at[p][1]
        BY PlaceOf DEF MigInv, MigShape, IsStore
      <3>5. w < v
        <4>1. CASE stage[p] = "snapshot"
          <5>1. at[p] = <<w + 1, 1>>
            BY <3>2, <3>4, <4>1 DEF AloneRight
          <5> QED
            BY <3>4, <5>1
        <4>2. CASE stage[p] = "migrate"
          BY <3>2, <3>4, <4>2 DEF AloneRight
        <4> QED
          BY <3>1, <4>1, <4>2 DEF Migrating
      <3>6. PICK d \in {10, 14, 26} : d = LastDrop(t)
        BY Drops
      <3>7. v <= d
        BY <2>1, <3>4, <3>6 DEF Behind, Between
      <3>8. disk.version < LastDrop(t)
        BY <3>4, <3>5, <3>6, <3>7
      <3> QED
        BY <1>1, <3>3, <3>8 DEF Coming
    <2>2. ASSUME Opening = {}, disk.version < LastDrop(t) PROVE Coming(t)'
      <3>1. Opening' = {}
        BY <1>2, <2>2, OpeningNow DEF Opening
      <3> QED
        BY <1>1, <2>2, <3>1 DEF Coming
    <2> QED
      BY <1>1, <1>2, <2>1, <2>2, ComingKept
  <1>9. ASSUME ~together PROVE Alone'
    <2>1. Alone /\ KeptDisk(disk) /\ \A q \in Openers : AloneRight(q)
      BY <1>9 DEF MigInv, Alone
    <2>2. ASSUME NEW q \in Openers, q # p PROVE AloneRight(q)'
      <3>1. stage'[q] = stage[q] /\ at'[q] = at[q] /\ found'[q] = found[q]
        BY <1>2, <2>2 DEF Goes, Others
      <3>2. View(q)' = View(q)
        BY <1>1, <2>2, NoOpenerOut DEF View
      <3> QED
        BY <1>1, <2>1, <3>1, <3>2 DEF AloneRight, KeptAt, Kept, LoggedAll, LoggedRow, Present, IsMemory
    <2>3. AloneRight(p)'
      BY <1>6 DEF AloneRight
    <2>4. KeptDisk(disk)'
      BY <1>1, <2>1 DEF KeptDisk, Kept, LoggedAll, LoggedRow, Present, IsMemory
    <2>5. \A q, r \in Opening' : q = r
      BY <1>2, <1>9, OpeningNow DEF MigInv, Alone, Opening
    <2> QED
      BY <2>2, <2>3, <2>4, <2>5 DEF Alone
  <1>10. Alone'
    BY <1>1, <1>9 DEF Alone
  <1> QED
    BY <1>4, <1>5, <1>7, <1>8, <1>10 DEF MigInv

\* A step that changes nothing that the invariant is about.
LEMMA SameKeeps ==
  ASSUME MigInv, UNCHANGED <<disk, holder, work, stage, at, found, snapshots, spared, together>>
  PROVE  MigInv'
  <1>1. Still /\ stage' = stage /\ at' = at /\ found' = found /\ snapshots' = snapshots /\ spared' = spared
        /\ together' = together /\ disk' = disk /\ holder' = holder
    BY DEF Still
  <1>2. /\ IsStore(disk)' /\ IsStore(work)' /\ Ahead(disk, work)' /\ Full(disk)' /\ Full(work)'
        /\ holder' \in Openers \cup {NoOpener} /\ (holder' = NoOpener => work' = disk')
        /\ \A q \in Openers : View(q)' = View(q)
        /\ KeptDisk(disk) => KeptDisk(disk)'
        /\ Covered(disk) => Covered(disk)'
    BY <1>1, StillStores
  <1>3. MigShape'
    BY <1>1, <1>2 DEF MigInv, MigShape
  <1>4. ASSUME NEW q \in Openers PROVE Upgrading(q)'
    BY <1>1, <1>2 DEF MigInv, Upgrading, Migrating, Has
  <1>5. ASSUME NEW t \in Triggers PROVE Coming(t)'
    BY <1>1 DEF MigInv, Coming, Behind, Between, Migrating, Opening
  <1>6. Alone'
    <2>1. ASSUME ~together, NEW q \in Openers PROVE AloneRight(q)'
      <3>1. AloneRight(q) /\ View(q)' = View(q)
        BY <1>2, <2>1 DEF MigInv, Alone
      <3> QED
        BY <1>1, <3>1 DEF AloneRight, KeptAt, Kept, LoggedAll, LoggedRow, Present, IsMemory
    <2>2. Opening' = Opening
      BY <1>1 DEF Opening
    <2> QED
      BY <1>1, <1>2, <2>1, <2>2 DEF MigInv, Alone
  <1> QED
    BY <1>2, <1>3, <1>4, <1>5, <1>6 DEF MigInv

\* The store n with the rows of s, its tables, its triggers and its version.
SameStore(s, n) ==
    /\ IsStore(n) /\ n.version = s.version /\ n.objects = s.objects /\ n.triggers = s.triggers
    /\ n.rev = s.rev /\ n.refiled = s.refiled
LEMMA ReconciledIs ==
  ASSUME NEW s, IsStore(s), NEW stored
  PROVE  LET n == Reconciled(s, stored) IN
         /\ SameStore(s, n) /\ n.flag = Desired
         /\ sync => s.outbox \subseteq n.outbox
         /\ sync /\ stored = "0" =>
              \A r \in Present(s) : KindOf[r] # "relation" => [row |-> r, rev |-> s.rev[r], columns |-> Latest] \in n.outbox
  <1>1. PICK R : R = {r \in Present(s) : KindOf[r] # "relation"}
    OBVIOUS
  <1>2. PICK log : log = IF ~sync THEN {}
                         ELSE IF stored = "0" THEN s.outbox \cup Everything(s, R, Latest) ELSE s.outbox
    OBVIOUS
  <1>3. PICK n : n = [s EXCEPT !.outbox = log, !.flag = Desired]
    OBVIOUS
  <1>4. Reconciled(s, stored) = n
    BY <1>1, <1>2, <1>3 DEF Reconciled
  <1>5. n = [version |-> s.version, objects |-> s.objects, triggers |-> s.triggers, flag |-> Desired,
             rev |-> s.rev, refiled |-> s.refiled, outbox |-> log]
    BY <1>3 DEF IsStore
  <1>6. SameStore(s, n) /\ n.flag = Desired /\ n.outbox = log
    BY <1>5 DEF IsStore, SameStore
  <1>7. sync => s.outbox \subseteq log
    BY <1>2
  <1>8. \A r \in R : [row |-> r, rev |-> s.rev[r], columns |-> Latest] \in Everything(s, R, Latest)
    BY DEF Everything
  <1>9. sync /\ stored = "0" => \A r \in R : [row |-> r, rev |-> s.rev[r], columns |-> Latest] \in log
    BY <1>2, <1>8
  <1> QED
    BY <1>1, <1>4, <1>6, <1>7, <1>9

LEMMA ReconcileKeeps ==
  ASSUME MigInv, NEW p \in Openers, Reconcile(p)
  PROVE  MigInv'
  <1>1. stage[p] = "reconcile" /\ holder = NoOpener /\ p # NoOpener /\ UNCHANGED <<sync, snapshots, spared, together>>
    BY NoOpenerOut DEF Reconcile
  <1>2. Goes(p, "open")
    <2>1. Goto(p, "open") /\ Forget(p) /\ "open" \in OpenStages
      BY DEF Reconcile, OpenStages
    <2> QED
      BY <2>1, Forgetting
  <1>3. PICK n : n = Reconciled(disk, found[p])
    OBVIOUS
  <1>4. disk' = n /\ work' = n /\ holder' = NoOpener
    BY <1>1, <1>3 DEF Reconcile, Put
  <1>5. MigShape /\ IsStore(disk) /\ Full(disk)
    BY DEF MigInv, MigShape
  <1>6. /\ SameStore(disk, n) /\ n.flag = Desired
        /\ sync => disk.outbox \subseteq n.outbox
        /\ sync /\ found[p] = "0" =>
             \A r \in Present(disk) : KindOf[r] # "relation" => [row |-> r, rev |-> disk.rev[r], columns |-> Latest] \in n.outbox
    BY <1>3, <1>5, ReconciledIs
  <1>7. IsStore(n) /\ n.version = disk.version /\ n.objects = disk.objects /\ n.triggers = disk.triggers
        /\ n.rev = disk.rev /\ n.refiled = disk.refiled
    BY <1>6 DEF SameStore
  <1>8. IsStore(disk)' /\ IsStore(work)' /\ Full(disk)' /\ Full(work)' /\ Ahead(disk, work)'
    BY <1>4, <1>5, <1>7 DEF IsStore, Full, Ahead, Refiled
  <1>9. MigShape'
    <2>1. snapshots' \in Seq([version : 0..29, rev : [Rows -> Nat]]) /\ holder' \in Openers \cup {NoOpener}
          /\ (holder' = NoOpener => work' = disk')
      BY <1>1, <1>4, <1>5 DEF MigShape
    <2>2. \A q \in Openers : holder' = q => holder = q /\ q # p
      BY <1>4, NoOpenerOut
    <2> QED
      BY <1>2, <1>8, <2>1, <2>2, ShapeKept
  <1>10. stage'[p] = "open"
    BY <1>2 DEF Goes
  <1>11. ASSUME NEW q \in Openers PROVE Upgrading(q)'
    <2>1. CASE q # p
      <3>1. View(q)' = n /\ View(q) = disk
        BY <1>1, <1>4, NoOpenerOut DEF View
      <3>2. View(q).objects \subseteq View(q)'.objects
        BY <1>7, <3>1
      <3>3. Covered(disk) => Covered(disk)'
        BY <1>1, <1>4, <1>7 DEF Covered, IsMemory
      <3> QED
        BY <1>1, <1>2, <2>1, <3>2, <3>3, OthersUpgrading
    <2>2. CASE q = p
      BY <1>10, <2>2, AwayUpgrading
    <2> QED
      BY <2>1, <2>2
  <1>12. p \in Opening /\ \A t \in Triggers : ~Behind(p, t) /\ ~Between(p, t)
    BY <1>1 DEF Opening, Behind, Between, Migrating
  <1>13. \A t \in Triggers : Coming(t)'
    BY <1>2, <1>4, <1>7, <1>12, ComingAway
  <1>14. ASSUME ~together PROVE Alone'
    <2>1. /\ \A q \in Openers : q # p => /\ stage[q] \in {"down", "open"}
                                         /\ stage[q] = "open" => disk.version = 29 /\ disk.flag \in {"0", "1"}
          /\ KeptDisk(disk) /\ AloneRight(p) /\ Opening = {p}
      BY <1>12, <1>14, AloneIs
    <2>2. disk.version = 29 /\ found[p] = disk.flag
      BY <1>1, <2>1 DEF AloneRight
    <2>3. disk'.version = 29 /\ disk'.flag \in {"0", "1"} /\ (disk'.flag = "1" => sync)
      BY <1>4, <1>6, <1>7, <2>2 DEF Desired
    <2>4. \A q \in Openers : q # p => AloneRight(q)'
      BY <1>2, <1>14, <2>1, <2>3, OthersAlone
    <2>5. AloneRight(p)'
      BY <1>10, <2>3 DEF AloneRight
    <2>6. ASSUME n.flag = "1" PROVE LoggedAll(n)
      <3>1. sync /\ Present(n) = Present(disk)
        BY <1>4, <1>7, <2>3, <2>6 DEF Present
      <3>2. CASE found[p] = "0"
        <4>1. ASSUME NEW r \in Present(n), KindOf[r] # "relation" PROVE LoggedRow(n, r)
          <5>1. [row |-> r, rev |-> n.rev[r], columns |-> Latest] \in n.outbox
            BY <1>6, <1>7, <3>1, <3>2, <4>1
          <5> QED
            BY <5>1 DEF LoggedRow
        <4> QED
          BY <4>1 DEF LoggedAll
      <3>3. CASE found[p] # "0"
        <4>1. LoggedAll(disk)
          BY <2>1, <2>2, <3>3 DEF KeptDisk, Kept
        <4> QED
          BY <1>6, <1>7, <3>1, <4>1 DEF LoggedAll, LoggedRow
      <3> QED
        BY <3>2, <3>3
    <2>7. KeptDisk(n)
      <3>1. n.version = 29 /\ n.flag \in {"0", "1"}
        BY <1>4, <2>3
      <3>2. ~(n.version < 29)
        BY <3>1
      <3> QED
        BY <2>6, <3>1, <3>2 DEF KeptDisk, Kept
    <2>8. KeptDisk(disk)'
      BY <1>4, <2>7 DEF KeptDisk, Kept, LoggedAll, LoggedRow, Present, IsMemory
    <2>9. \A q \in Opening' : q = p
      BY <1>2, <2>1, OpeningNow DEF Opening
    <2> QED
      BY <2>4, <2>5, <2>8, <2>9 DEF Alone
  <1>15. Alone'
    BY <1>1, <1>14 DEF Alone
  <1> QED
    BY <1>8, <1>9, <1>11, <1>13, <1>15 DEF MigInv

\* What a write leaves of a store, and what it logs.
Written(s, r, v, more) == [s EXCEPT !.rev[r] = v, !.refiled = IF v = 1 THEN @ \cup {r} ELSE @, !.outbox = @ \cup more]
Wrote(s, new, r, v, more) ==
    /\ IsStore(new) /\ SameRest(s, new) /\ new.outbox = s.outbox \cup more
    /\ new.rev[r] = v /\ v \in Nat \ {0}
    /\ \A q \in Rows : q # r => new.rev[q] = s.rev[q]
LEMMA WriteIs ==
  ASSUME NEW s, IsStore(s), NEW r \in Rows, NEW v, v = s.rev[r] + 1, NEW more, NEW new, new = Written(s, r, v, more)
  PROVE  Wrote(s, new, r, v, more)
  <1>1. PICK rev : rev = [s.rev EXCEPT ![r] = v]
    OBVIOUS
  <1>2. PICK refiled : refiled = IF v = 1 THEN s.refiled \cup {r} ELSE s.refiled
    OBVIOUS
  <1>0. PICK out : out = s.outbox \cup more
    OBVIOUS
  <1>3. new = [version |-> s.version, objects |-> s.objects, triggers |-> s.triggers, flag |-> s.flag,
               rev |-> rev, refiled |-> refiled, outbox |-> out]
    <2>1. PICK a : a = [s EXCEPT !.rev[r] = v]
      OBVIOUS
    <2>2. PICK b : b = [a EXCEPT !.refiled = IF v = 1 THEN @ \cup {r} ELSE @]
      OBVIOUS
    <2>3. new = [b EXCEPT !.outbox = @ \cup more]
      BY <2>1, <2>2, Zenon DEF Written
    <2>4. a = [version |-> s.version, objects |-> s.objects, triggers |-> s.triggers, flag |-> s.flag,
               rev |-> rev, refiled |-> s.refiled, outbox |-> s.outbox]
      BY <1>1, <2>1 DEF IsStore
    <2>5. b = [version |-> s.version, objects |-> s.objects, triggers |-> s.triggers, flag |-> s.flag,
               rev |-> rev, refiled |-> refiled, outbox |-> s.outbox]
      BY <1>2, <2>2, <2>4
    <2> QED
      BY <1>0, <2>3, <2>5
  <1>4. v \in Nat \ {0} /\ rev \in [Rows -> Nat] /\ rev[r] = v /\ \A q \in Rows : q # r => rev[q] = s.rev[q]
    BY <1>1 DEF IsStore
  <1>5. /\ new.version = s.version /\ new.objects = s.objects /\ new.triggers = s.triggers /\ new.flag = s.flag
        /\ new.rev = rev /\ new.refiled = refiled /\ new.outbox = out
    BY <1>3
  <1>6. IsStore(new)
    BY <1>3, <1>4, <1>5 DEF IsStore
  <1>7. SameRest(s, new)
    BY <1>5 DEF SameRest
  <1> QED
    BY <1>0, <1>4, <1>5, <1>6, <1>7 DEF Wrote

\* The triggers of a store that nobody is opening are those of the latest release.
LEMMA FinalTriggers ==
  ASSUME MigInv, Opening = {}, disk.version = 29, NEW t \in Triggers
  PROVE  Final(t, disk.triggers[t])
  <1>1. \A q \in Openers : ~Behind(q, t) /\ ~Between(q, t)
    BY DEF Opening, Behind, Between, Migrating
  <1>2. ~(29 < LastDrop(t))
    <2>1. LastDrop(t) \in {10, 14, 26}
      BY Drops
    <2> QED
      BY <2>1
  <1>3. Coming(t) /\ ~(disk.version < LastDrop(t))
    BY <1>2, Zenon DEF MigInv
  <1> QED
    BY <1>1, <1>3 DEF Coming

\* What they log of a write while the flag is set.
Records(log, r, v) == \E e \in log : e.row = r /\ e.rev = v /\ (IsMemory(r) /\ e.rev > 1 => e.columns = Latest)
LEMMA WriteLogged ==
  ASSUME NEW s, s.flag = "1", \A t \in Triggers : Final(t, s.triggers[t]), NEW r \in Rows, NEW v \in Nat \ {0},
         NEW event \in {"insert", "update"}
  PROVE  Records(Logged(s, r, v, event, TRUE), r, v)
  <1>1. PICK t : t = TriggerOf(r, event)
    OBVIOUS
  <1>2. t \in Triggers /\ (IsMemory(r) => t \in {"memories_ai", "memories_au"})
    <2>1. KindOf[r] \in Kinds
      BY KindAssumption
    <2>2. CASE IsMemory(r)
      BY <1>1, <2>2 DEF TriggerOf, Triggers, IsMemory
    <2>3. CASE ~IsMemory(r)
      <3>1. KindOf[r] \in {"entity", "link", "relation"}
        BY <2>1, <2>3 DEF Kinds, IsMemory
      <3> QED
        BY <1>1, <2>3, <3>1 DEF TriggerOf, Triggers
    <2> QED
      BY <2>2, <2>3
  <1>3. PICK w : w = s.triggers[t]
    OBVIOUS
  <1>4. Final(t, w)
    BY <1>2, <1>3
  <1>5. w.columns # 0 /\ (IsMemory(r) => w.columns = Latest)
    <2>1. w.columns > 0
      BY <1>4 DEF Final
    <2>2. w.columns # 0
      BY <2>1
    <2>3. ASSUME IsMemory(r) PROVE w.columns = Latest
      BY <1>2, <1>4, <2>3 DEF Final
    <2> QED
      BY <2>2, <2>3
  <1>6. Logged(s, r, v, event, TRUE) = {[row |-> r, rev |-> v, columns |-> w.columns]}
    BY <1>1, <1>3, <1>5 DEF Logged
  <1>7. PICK e : e = [row |-> r, rev |-> v, columns |-> w.columns]
    OBVIOUS
  <1>8. e \in Logged(s, r, v, event, TRUE) /\ e.row = r /\ e.rev = v /\ e.columns = w.columns
    BY <1>6, <1>7
  <1> QED
    BY <1>5, <1>8 DEF Records

LEMMA WriteKeeps ==
  ASSUME MigInv, NEW p \in Openers, NEW r \in Rows, Write(p, r)
  PROVE  MigInv'
  <1>1. stage[p] = "open" /\ Opening = {} /\ holder = NoOpener /\ p # NoOpener
        /\ stage' = stage /\ at' = at /\ found' = found /\ snapshots' = snapshots /\ spared' = spared /\ together' = together
    BY NoOpenerOut DEF Write
  <1>2. PICK v : v = disk.rev[r] + 1
    OBVIOUS
  <1>3. PICK event : event = (IF disk.rev[r] = 0 THEN "insert" ELSE "update")
    OBVIOUS
  <1>4. PICK more : more = Logged(disk, r, v, event, TRUE)
    OBVIOUS
  <1>5. PICK n : n = Written(disk, r, v, more)
    OBVIOUS
  <1>6. Put(p, n)
    BY <1>2, <1>3, <1>4, <1>5, Zenon DEF Write, Written
  <1>7. disk' = n /\ work' = n /\ holder' = NoOpener
    BY <1>1, <1>6 DEF Put
  <1>8. MigShape /\ IsStore(disk) /\ Full(disk)
    BY DEF MigInv, MigShape
  <1>9. /\ IsStore(n) /\ SameRest(disk, n) /\ n.outbox = disk.outbox \cup more
        /\ n.rev[r] = v /\ v \in Nat \ {0}
        /\ \A q \in Rows : q # r => n.rev[q] = disk.rev[q]
    <2>1. Wrote(disk, n, r, v, more)
      BY <1>2, <1>5, <1>8, WriteIs
    <2> QED
      BY <2>1 DEF Wrote
  <1>10. n.version = disk.version /\ n.objects = disk.objects /\ n.triggers = disk.triggers /\ n.flag = disk.flag
    BY <1>9 DEF SameRest
  <1>11. IsStore(disk)' /\ IsStore(work)' /\ Full(disk)' /\ Full(work)' /\ Ahead(disk, work)'
    BY <1>7, <1>8, <1>9, <1>10 DEF IsStore, Full, Ahead, Refiled
  <1>12. MigShape'
    BY <1>1, <1>7, <1>8, <1>11, NoOpenerOut DEF MigShape
  <1>13. Opening' = {}
    BY <1>1 DEF Opening
  <1>14. ASSUME NEW q \in Openers PROVE Upgrading(q)'
    <2>1. stage'[q] \in {"down", "open"}
      BY <1>13 DEF Opening
    <2> QED
      BY <2>1, AwayUpgrading
  <1>15. ASSUME NEW t \in Triggers PROVE Coming(t)'
    <2>1. \A q \in Openers : ~Behind(q, t) /\ ~Between(q, t)
      BY <1>1 DEF Opening, Behind, Between, Migrating
    <2>2. Coming(t)
      BY DEF MigInv
    <2>3. CASE Final(t, disk.triggers[t])
      BY <1>7, <1>10, <2>3 DEF Coming
    <2>4. CASE disk.version < LastDrop(t)
      BY <1>7, <1>10, <1>13, <2>4 DEF Coming
    <2> QED
      BY <2>1, <2>2, <2>3, <2>4 DEF Coming
  <1>16. ASSUME ~together PROVE Alone'
    <2>1. KeptDisk(disk) /\ \A q \in Openers : AloneRight(q)
      BY <1>16 DEF MigInv, Alone
    <2>2. disk.version = 29 /\ disk.flag \in {"0", "1"}
      BY <1>1, <2>1 DEF AloneRight
    <2>3. ASSUME NEW q \in Openers PROVE AloneRight(q)'
      <3>1. stage'[q] \in {"down", "open"}
        BY <1>13 DEF Opening
      <3>2. disk'.version = 29 /\ disk'.flag \in {"0", "1"}
        BY <1>7, <1>10, <2>2
      <3> QED
        BY <3>1, <3>2 DEF AloneRight
    <2>4. ASSUME n.flag = "1", NEW q \in Present(n), KindOf[q] # "relation" PROVE LoggedRow(n, q)
      <3>0. q \in Rows /\ n.rev[q] > 0 /\ disk.flag = "1"
        BY <1>10, <2>4 DEF Present
      <3>1. CASE q = r
        <4>1. event \in {"insert", "update"}
          BY <1>3
        <4>2. \A t \in Triggers : Final(t, disk.triggers[t])
          BY <1>1, <2>2, FinalTriggers
        <4>3. Records(more, r, v)
          BY <1>4, <1>9, <3>0, <4>1, <4>2, WriteLogged
        <4> QED
          BY <1>9, <3>1, <4>3 DEF LoggedRow, Records
      <3>2. CASE q # r
        <4>1. n.rev[q] = disk.rev[q] /\ q \in Present(disk)
          BY <1>9, <3>0, <3>2 DEF Present
        <4>2. LoggedRow(disk, q)
          BY <2>1, <2>4, <3>0, <4>1 DEF KeptDisk, Kept, LoggedAll
        <4> QED
          BY <1>9, <4>1, <4>2 DEF LoggedRow
      <3> QED
        BY <3>1, <3>2
    <2>5. KeptDisk(n)
      <3>1. n.version = 29 /\ n.flag \in {"0", "1"}
        BY <1>10, <2>2
      <3>2. ~(n.version < 29)
        BY <3>1
      <3>3. n.flag = "1" => LoggedAll(n)
        BY <2>4 DEF LoggedAll
      <3> QED
        BY <3>1, <3>2, <3>3 DEF KeptDisk, Kept
    <2>6. KeptDisk(disk)'
      BY <1>7, <2>5 DEF KeptDisk, Kept, LoggedAll, LoggedRow, Present, IsMemory
    <2> QED
      BY <1>13, <2>3, <2>6 DEF Alone
  <1>17. Alone'
    BY <1>1, <1>16 DEF Alone
  <1> QED
    BY <1>11, <1>12, <1>14, <1>15, <1>17 DEF MigInv

-----------------------------------------------------------------------------
(* The invariant holds, and what follows from it.                          *)
LEMMA OpenerKeeps ==
  ASSUME MigInv, NEW p \in Openers, OpenerStep(p)
  PROVE  MigInv'
  <1>1. CASE Open(p)
    BY <1>1, OpenKeeps
  <1>2. CASE Snapshot(p)
    BY <1>2, SnapshotKeeps
  <1>3. CASE Execute(p)
    BY <1>3, ExecuteRuns, RunsKeeps
  <1>4. CASE Probe(p)
    BY <1>4, ProbeRuns, RunsKeeps
  <1>5. CASE Add(p)
    <2>1. CASE stage'[p] = "down"
      BY <1>5, <2>1, AddFailsKeeps
    <2>2. CASE stage'[p] # "down"
      BY <1>5, <2>2, AddRuns, RunsKeeps
    <2> QED
      BY <2>1, <2>2
  <1>6. CASE Migrated(p)
    BY <1>6, MigratedKeeps
  <1>7. CASE ReadFlag(p)
    BY <1>7, ReadFlagKeeps
  <1>8. CASE Reconcile(p)
    BY <1>8, ReconcileKeeps
  <1>9. CASE \E r \in Rows : Write(p, r)
    BY <1>9, WriteKeeps
  <1>10. CASE Stop(p)
    BY <1>10, StopKeeps
  <1> QED
    BY <1>1, <1>2, <1>3, <1>4, <1>5, <1>6, <1>7, <1>8, <1>9, <1>10 DEF OpenerStep

LEMMA MigStep ==
  ASSUME MigInv, [MigNext]_migVars
  PROVE  MigInv'
  <1>1. CASE Configure
    BY <1>1, SameKeeps DEF Configure
  <1>2. CASE \E p \in Openers : OpenerStep(p)
    BY <1>2, OpenerKeeps
  <1>3. CASE UNCHANGED migVars
    BY <1>3, SameKeeps DEF migVars
  <1> QED
    BY <1>1, <1>2, <1>3 DEF MigNext

LEMMA InvUpgraded ==
  ASSUME MigInv
  PROVE  Upgraded
  <1>1. SchemaVersion = 29
    BY Latest29
  <1>2. ASSUME Quiet, disk.version = SchemaVersion PROVE UpgradeComplete
    <2>1. Opening = {} /\ disk.version = 29
      BY <1>1, <1>2 DEF Quiet
    <2>2. disk.objects = ObjectsAt(SchemaVersion)
      <3>1. ObjectsAt(disk.version) \subseteq disk.objects /\ disk.objects \subseteq ObjectsAt(29)
        BY DEF MigInv, Full
      <3>2. ObjectsAt(disk.version) = ObjectsAt(29)
        BY <2>1
      <3> QED
        BY <1>1, <3>1, <3>2
    <2>3. \A t \in Triggers : Final(t, disk.triggers[t])
      BY <2>1, FinalTriggers
    <2>4. "memories_ai" \in Triggers /\ "memories_au" \in Triggers
      BY DEF Triggers
    <2>5. disk.triggers["memories_ai"] = [columns |-> Latest, gated |-> TRUE, scoped |-> FALSE]
      BY <2>3, <2>4 DEF Final
    <2>6. disk.triggers["memories_au"] = [columns |-> Latest, gated |-> TRUE, scoped |-> TRUE]
      BY <2>3, <2>4 DEF Final
    <2>7. \A t \in Triggers : disk.triggers[t].columns > 0
      BY <2>3 DEF Final
    <2> QED
      BY <2>2, <2>5, <2>6, <2>7 DEF UpgradeComplete
  <1>3. UpgradeComplete
    BY <1>2 DEF UpgradeComplete
  <1>4. ASSUME ~together, disk.version = SchemaVersion, disk.flag = "1" PROVE LoggedAll(disk)
    BY <1>4 DEF MigInv, Alone, KeptDisk, Kept
  <1>5. NothingUnlogged
    <2>1. ASSUME ~together, disk.version = SchemaVersion, disk.flag = "1", NEW r \in Present(disk), KindOf[r] # "relation"
          PROVE  \E e \in disk.outbox : /\ e.row = r /\ e.rev = disk.rev[r]
                                        /\ IsMemory(r) /\ e.rev > 1 => e.columns = Latest
      BY <1>4, <2>1 DEF LoggedAll, LoggedRow
    <2> QED
      BY <2>1 DEF NothingUnlogged
  <1> QED
    BY <1>3, <1>5 DEF Upgraded

\* The step of SnapshotFirst.
Backed ==
    /\ disk.version # disk'.version
    /\ \E r \in Rows : IsMemory(r) /\ disk.rev[r] > 0
    => \/ spared
       \/ \E i \in 1..Len(snapshots) :
             \A r \in Rows : IsMemory(r) /\ r \notin disk'.refiled => snapshots[i].rev[r] = disk.rev[r]
LEMMA CoveredIsBacked ==
  ASSUME spared \/ Covered(disk), disk.refiled \subseteq disk'.refiled
  PROVE  Backed
  <1>1. CASE spared
    BY <1>1 DEF Backed
  <1>2. ASSUME Covered(disk), \E r \in Rows : IsMemory(r) /\ disk.rev[r] > 0
        PROVE  \E i \in 1..Len(snapshots) :
                 \A r \in Rows : IsMemory(r) /\ r \notin disk'.refiled => snapshots[i].rev[r] = disk.rev[r]
    <2>1. PICK i \in 1..Len(snapshots) : \A r \in Rows : IsMemory(r) /\ r \notin disk.refiled => snapshots[i].rev[r] = disk.rev[r]
      BY <1>2 DEF Covered
    <2>2. \A r \in Rows : IsMemory(r) /\ r \notin disk'.refiled => snapshots[i].rev[r] = disk.rev[r]
      BY <2>1
    <2> QED
      BY <2>2
  <1> QED
    BY <1>1, <1>2 DEF Backed
LEMMA SameIsBacked ==
  ASSUME disk'.version = disk.version
  PROVE  Backed
  BY DEF Backed
LEMMA RunsBacked ==
  ASSUME MigInv, NEW p, NEW n, Runs(p, n)
  PROVE  Backed
  <1>1. p \in Openers /\ stage[p] = "migrate" /\ Grows(disk, disk')
    BY RunsView
  <1>2. spared \/ Covered(disk)
    BY <1>1 DEF MigInv, Upgrading
  <1>3. disk.refiled \subseteq disk'.refiled
    BY <1>1 DEF Grows, Refiled
  <1> QED
    BY <1>2, <1>3, CoveredIsBacked
LEMMA MigBacked ==
  ASSUME MigInv, [MigNext]_migVars
  PROVE  Backed
  <1>1. CASE disk' = disk
    BY <1>1, SameIsBacked
  <1>2. ASSUME NEW p \in Openers, OpenerStep(p) PROVE Backed
    <2>1. CASE Open(p) \/ Snapshot(p) \/ ReadFlag(p) \/ Stop(p)
      BY <1>1, <2>1 DEF Open, Snapshot, ReadFlag, Stop
    <2>2. CASE Execute(p) \/ Probe(p)
      BY <2>2, ExecuteRuns, ProbeRuns, RunsBacked
    <2>3. CASE Add(p)
      <3>1. CASE stage'[p] = "down"
        <4>1. ~Advance(p)
          <5>1. stage \in [Openers -> OpenStages] /\ stage[p] = "migrate"
            BY <2>3 DEF MigInv, MigShape, Add
          <5> QED
            BY <3>1, <5>1 DEF Advance, Goto
        <4> QED
          BY <1>1, <2>3, <4>1 DEF Add
      <3>2. CASE stage'[p] # "down"
        BY <2>3, <3>2, AddRuns, RunsBacked
      <3> QED
        BY <3>1, <3>2
    <2>4. CASE Migrated(p)
      <3>1. Grows(disk, disk')
        BY <2>4, MigratedGrows
      <3>2. spared \/ Covered(disk)
        BY <2>4 DEF MigInv, Upgrading, Migrated
      <3>3. disk.refiled \subseteq disk'.refiled
        BY <3>1 DEF Grows, Refiled
      <3> QED
        BY <3>2, <3>3, CoveredIsBacked
    <2>5. CASE Reconcile(p)
      <3>1. disk' = Reconciled(disk, found[p]) /\ IsStore(disk)
        BY <2>5, NoOpenerOut DEF Reconcile, Put, MigInv, MigShape
      <3>2. disk'.version = disk.version
        BY <3>1, ReconciledIs DEF SameStore
      <3> QED
        BY <3>2, SameIsBacked
    <2>6. CASE \E r \in Rows : Write(p, r)
      <3>1. PICK r \in Rows : Write(p, r)
        BY <2>6
      <3>2. PICK v, more : disk' = Written(disk, r, v, more) /\ v = disk.rev[r] + 1
        <4>1. PICK v : v = disk.rev[r] + 1
          OBVIOUS
        <4>2. PICK event : event = (IF disk.rev[r] = 0 THEN "insert" ELSE "update")
          OBVIOUS
        <4>3. PICK more : more = Logged(disk, r, v, event, TRUE)
          OBVIOUS
        <4>4. PICK n : n = Written(disk, r, v, more)
          OBVIOUS
        <4>5. Put(p, n) /\ holder = NoOpener
          BY <3>1, <4>1, <4>2, <4>3, <4>4, Zenon DEF Write, Written
        <4>6. disk' = n
          BY <4>5, NoOpenerOut DEF Put
        <4> QED
          BY <4>1, <4>4, <4>6
      <3>3. IsStore(disk)
        BY DEF MigInv, MigShape
      <3>4. Wrote(disk, disk', r, v, more)
        BY <3>2, <3>3, WriteIs
      <3> QED
        BY <3>4, SameIsBacked DEF Wrote, SameRest
    <2> QED
      BY <1>2, <2>1, <2>2, <2>3, <2>4, <2>5, <2>6 DEF OpenerStep
  <1>3. CASE Configure
    BY <1>1, <1>3 DEF Configure
  <1>4. CASE UNCHANGED migVars
    BY <1>1, <1>4 DEF migVars
  <1> QED
    BY <1>2, <1>3, <1>4 DEF MigNext

-----------------------------------------------------------------------------
(* The theorems, for any servers, rows, releases, bounds and retention of  *)
(* backups.                                                                *)

\* What holds while servers open the store, whatever they do and wherever they stop:
\* each has behind it what precedes its statement, and before it the triggers to come.
THEOREM MigrationsKept == MigSpec => []MigInv
  <1>1. MigInit => MigInv
    BY InitKeeps
  <1>2. MigInv /\ [MigNext]_migVars => MigInv'
    BY MigStep
  <1> QED
    BY <1>1, <1>2, PTL DEF MigSpec

\* No upgrade leaves a hole: a store of the latest version that nobody is opening has
\* every table, column and trigger, and a store that servers upgraded one at a time has
\* logged every row that sync is to send.
THEOREM UpgradedHolds == MigSpec => []Upgraded
  <1>1. MigInv => Upgraded
    BY InvUpgraded
  <1> QED
    BY <1>1, MigrationsKept, PTL

\* The version of a store with memories is changed only when a backup holds them as they
\* are, or a backup has failed.
THEOREM SnapshotFirstHolds == MigSpec => SnapshotFirst
  <1>1. MigInv /\ [MigNext]_migVars => Backed
    BY MigBacked
  <1>2. MigSpec => [][Backed]_migVars
    BY <1>1, MigrationsKept, PTL DEF MigSpec
  <1> QED
    BY <1>2 DEF SnapshotFirst, Backed
=============================================================================
