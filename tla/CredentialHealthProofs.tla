----------------------- MODULE CredentialHealthProofs -----------------------
(***************************************************************************)
(* That a version of a health record determines its content, that only the *)
(* snapshot of an edit takes a mirror back within an epoch, and that a     *)
(* recovery clears the failures its probe has tested and no later one.     *)
(*                                                                         *)
(* The argument is about the copies of the record: stored, returned,       *)
(* published or read.  A script leaves the record as it is or takes it to  *)
(* a version, or to an epoch, that no copy has (Fresh); every other step   *)
(* only passes copies on or drops them.  So two copies that agree on their *)
(* epoch and version are one record (Coherent), and a mirror, which only   *)
(* ever takes a copy over, has the content of one until a local fallback   *)
(* marks it (Follows).  The snapshot of an edit was such a mirror, and     *)
(* stays one (Held).                                                       *)
(*                                                                         *)
(* A recovery is compared with the failure generation its probe has read.  *)
(* While one identity is served, no mirror falls back locally and the      *)
(* record is not lost, generations only grow along the versions, so the    *)
(* generation a probe holds is that of a record it has seen (Generations), *)
(* and a record that still has it has had no failure since.                *)
(***************************************************************************)
EXTENDS CredentialHealth, TLAPS

-----------------------------------------------------------------------------
(* Shapes.  What the health h of a record is does not matter here. *)

IsRecord(r) ==
    /\ r = [ep |-> r.ep, ver |-> r.ver, idg |-> r.idg, h |-> r.h, asv |-> r.asv, gen |-> r.gen]
    /\ r.ep \in Nat /\ r.ver \in Nat

IsEntry(e) ==
    /\ e = [idg |-> e.idg, ver |-> e.ver, ep |-> e.ep, sv |-> e.sv, h |-> e.h, local |-> e.local]
    /\ e.ep \in Nat /\ e.sv \in Nat /\ e.local \in BOOLEAN

IsCall(k) ==
    k = [id |-> k.id, pc |-> k.pc, on |-> k.on, op |-> k.op, idg |-> k.idg, ref |-> k.ref,
         reply |-> k.reply]

SeqSet(s) == {s[n] : n \in 1..Len(s)}
IsSeq(s) == \E S : s \in Seq(S)

\* Nothing is published yet.
LEMMA EmptySeq == IsSeq(<<>>) /\ SeqSet(<<>>) = {}
<1>1. <<>> \in Seq({}) /\ 1..Len(<<>>) = {}
  OBVIOUS
<1> QED BY <1>1, Zenon DEF IsSeq, SeqSet

\* Publishing adds one element at the end.
LEMMA AppendSeq ==
  ASSUME NEW s, IsSeq(s), NEW x
  PROVE  IsSeq(Append(s, x)) /\ SeqSet(Append(s, x)) \subseteq SeqSet(s) \cup {x}
<1> DEFINE t == Append(s, x)
<1> PICK S : s \in Seq(S)
  BY DEF IsSeq
<1>1. s \in Seq(S \cup {x}) /\ x \in S \cup {x} /\ Len(s) \in Nat
  OBVIOUS
<1>2. t \in Seq(S \cup {x}) /\ Len(t) = Len(s) + 1
  BY <1>1
<1>3. \A n \in 1..Len(t) : IF n <= Len(s) THEN n \in 1..Len(s) /\ t[n] = s[n] ELSE t[n] = x
  BY <1>1
<1> HIDE DEF t
<1>4. IsSeq(t)
  BY <1>2, Zenon DEF IsSeq
<1>5. SeqSet(t) \subseteq SeqSet(s) \cup {x}
  BY <1>3, Zenon DEF SeqSet
<1> QED BY <1>4, <1>5 DEF t

\* Delivering takes the first element away and leaves the others.
LEMMA TailSeq ==
  ASSUME NEW s, IsSeq(s), s # <<>>
  PROVE  IsSeq(Tail(s)) /\ SeqSet(Tail(s)) \subseteq SeqSet(s) /\ Head(s) \in SeqSet(s)
<1> DEFINE t == Tail(s)
<1> PICK S : s \in Seq(S)
  BY DEF IsSeq
<1>1. Len(s) \in Nat /\ t \in Seq(S) /\ Len(t) = Len(s) - 1
  OBVIOUS
<1>2. \A n \in 1..Len(t) : n + 1 \in 1..Len(s) /\ t[n] = s[n + 1]
  BY <1>1
<1>3. 1 \in 1..Len(s) /\ Head(s) = s[1]
  BY <1>1
<1> HIDE DEF t
<1>4. IsSeq(t)
  BY <1>1, Zenon DEF IsSeq
<1>5. SeqSet(t) \subseteq SeqSet(s)
  BY <1>2, Zenon DEF SeqSet
<1>6. Head(s) \in SeqSet(s)
  BY <1>3, Zenon DEF SeqSet
<1> QED BY <1>4, <1>5, <1>6 DEF t

-----------------------------------------------------------------------------
(* The invariant. *)

\* The copies C of the record r, when n epochs have been drawn: none is ahead
\* of the record, and an epoch and a version determine the copy.
Coherent(C, r, n) ==
    /\ \A a \in C : /\ IsRecord(a)
                    /\ a.ep <= n
                    /\ a.ep # 0 => a.ver >= 1
                    /\ a.ep # 0 /\ a.ep = r.ep => a.ver <= r.ver
    /\ \A a, b \in C : a.ep # 0 /\ a.ep = b.ep /\ a.ver = b.ver => a = b

\* A copy a says what the entry e says.
Agrees(e, a) == a.ep = e.ep /\ a.ver = e.sv => a.h = e.h /\ a.idg = e.idg

\* The mirror e of the record r.
Follows(e, C, r, n) ==
    /\ IsEntry(e)
    /\ e.ep <= n
    /\ r.ep # 0 /\ e.ep = r.ep => e.sv >= 1 /\ e.sv <= r.ver
    /\ e.ep # 0 /\ ~e.local => \A a \in C : Agrees(e, a)

\* What a script leaves of the record r: the record, or one nobody has seen.
Fresh(r, s, n) ==
    \/ s = r
    \/ /\ IsRecord(s)
       /\ s.ver >= 1
       /\ \/ r.ep # 0 /\ s.ep = r.ep /\ s.ver = r.ver + 1
          \/ r.ep = 0 /\ s.ep = n + 1

Loadable(e, idg, ver) == e.idg \in 1..idg /\ e.ver \in 1..ver

Shapes ==
    /\ row \in [idg : 1..MaxIdentity, ver : 1..MaxSecret]
    /\ epochs \in Nat
    /\ flight \subseteq Calls
    /\ faults \in 0..MaxFaults
    /\ edits \in 0..MaxEdits
    /\ mirror = [i \in Instances |-> mirror[i]]
    /\ events = [i \in Instances |-> events[i]]
    /\ reading = [i \in Instances |-> reading[i]]
    /\ edit = [i \in Instances |-> edit[i]]
    /\ call = [c \in Calls |-> call[c]]
    /\ \A i \in Instances : IsSeq(events[i])

\* The snapshot that an edit d has taken is a mirror it may put back.
Held(d, C, r, n, idg, ver) ==
    d # NoEdit => Follows(d.entry, C, r, n) /\ Loadable(d.entry, idg, ver)

\* A call that is under way, or whose script is, still has all its fields.
Whole(k, inflight) == k.pc \in {"ref", "sent", "run"} \/ inflight => IsCall(k)

IInv ==
    /\ Shapes
    /\ \A c \in Calls : Whole(call[c], c \in flight)
    /\ Coherent(Copies, record, epochs)
    /\ \A i \in Instances : Follows(mirror[i], Copies, record, epochs)
    /\ \A i \in Instances : Loadable(mirror[i], row.idg, row.ver)
    /\ \A i \in Instances : Held(edit[i], Copies, record, epochs, row.idg, row.ver)

-----------------------------------------------------------------------------
(* Records and entries. *)

\* There is no record, and its shape is that of one.
LEMMA NoRecordIs == IsRecord(NoRecord) /\ NoRecord.ep = 0 /\ NoRecord.ver = 0
  BY DEF NoRecord, IsRecord

\* Opening keeps the epoch and the version of a record, or draws the epoch.
LEMMA OpenedIs ==
  ASSUME NEW r, IsRecord(r), NEW k, NEW n \in Nat
  PROVE  LET o == Opened(r, k, n + 1)
         IN  /\ IsRecord(o)
             /\ r.ep # 0 => o.ep = r.ep /\ o.ver = r.ver
             /\ r.ep = 0 => o.ep = n + 1 /\ o.ver = 0 /\ o # r
<1> DEFINE o == Opened(r, k, n + 1)
           new(e, v) == [ep |-> e, ver |-> v, idg |-> k.idg, h |-> Healthy, asv |-> 0,
                         gen |-> Nobody]
<1>0. \A e, v \in Nat : IsRecord(new(e, v)) /\ new(e, v).ep = e /\ new(e, v).ver = v
  BY DEF IsRecord
<1>1. CASE r.ep = 0
  <2>1. o = [NoRecord EXCEPT !.ep = n + 1, !.idg = k.idg]
    BY <1>1, Zenon DEF Opened
  <2>2. o = new(n + 1, 0)
    BY <2>1, Zenon DEF NoRecord
  <2>3. n + 1 \in Nat /\ 0 \in Nat /\ n + 1 # 0
    OBVIOUS
  <2> HIDE DEF o, new
  <2>4. IsRecord(o) /\ o.ep = n + 1 /\ o.ver = 0
    BY <1>0, <2>2, <2>3, Zenon
  <2>5. o # r
    BY <1>1, <2>3, <2>4, Zenon
  <2> QED BY <1>1, <2>4, <2>5, Zenon DEF o
<1>2. CASE r.ep # 0 /\ r.idg # k.idg
  <2>1. o = [NoRecord EXCEPT !.ep = r.ep, !.ver = r.ver, !.idg = k.idg]
    BY <1>2, Zenon DEF Opened
  <2>2. o = new(r.ep, r.ver)
    BY <2>1, Zenon DEF NoRecord
  <2>3. r.ep \in Nat /\ r.ver \in Nat
    BY Zenon DEF IsRecord
  <2> HIDE DEF o, new
  <2>4. IsRecord(o) /\ o.ep = r.ep /\ o.ver = r.ver
    BY <1>0, <2>2, <2>3, Zenon
  <2> QED BY <1>2, <2>4, Zenon DEF o
<1>3. CASE r.ep # 0 /\ r.idg = k.idg
  <2>1. o = r
    BY <1>3, Zenon DEF Opened
  <2> QED BY <1>3, <2>1, Zenon
<1> QED BY <1>1, <1>2, <1>3

\* The script moves the version whenever it leaves another record.
LEMMA ScriptIsFresh ==
  ASSUME NEW r, IsRecord(r), NEW k, NEW n \in Nat
  PROVE  Fresh(r, Scripted(r, k, n + 1), n) /\ IsRecord(Scripted(r, k, n + 1))
<1> DEFINE o == Opened(r, k, n + 1)
           h == IF Accepts(o, k) THEN Applied(o.h, k) ELSE o.h
           asv == IF k.op.op = "auth" /\ Accepts(o, k) THEN k.ref.ver ELSE o.asv
           gen == IF o # r \/ h.fg # o.h.fg THEN k.id ELSE o.gen
           s == [ep |-> o.ep, ver |-> o.ver + IF Moves(r, o, h, k) THEN 1 ELSE 0, idg |-> o.idg,
                 h |-> h, asv |-> asv, gen |-> gen]
<1>1. /\ IsRecord(o)
      /\ r.ep # 0 => o.ep = r.ep /\ o.ver = r.ver
      /\ r.ep = 0 => o.ep = n + 1 /\ o.ver = 0 /\ o # r
  BY OpenedIs, Zenon
<1> HIDE DEF o
<1>2. Scripted(r, k, n + 1) = s
  <2>1. Scripted(r, k, n + 1) =
          [o EXCEPT !.h = h, !.ver = @ + IF Moves(r, o, h, k) THEN 1 ELSE 0,
                    !.asv = asv, !.gen = gen]
    BY Zenon DEF Scripted, o
  <2> HIDE DEF h, asv, gen
  <2> QED BY <2>1, <1>1, Zenon DEF IsRecord
<1>3. IsRecord(s)
  <2> HIDE DEF h, asv, gen
  <2> QED BY <1>1 DEF IsRecord
<1>4. CASE Moves(r, o, h, k)
  <2>0. o.ver \in Nat
    BY <1>1, Zenon DEF IsRecord
  <2>1. s.ep = o.ep /\ s.ver = o.ver + 1
    <3> HIDE DEF h, asv, gen
    <3> QED BY <1>4
  <2> HIDE DEF s
  <2> QED BY <1>1, <1>2, <1>3, <2>0, <2>1 DEF Fresh
<1>5. CASE ~Moves(r, o, h, k)
  <2>1. o = r /\ h = o.h /\ ~(k.op.op = "auth" /\ Accepts(o, k))
    BY <1>5, Zenon DEF Moves
  <2>2. asv = o.asv /\ gen = o.gen
    BY <2>1, Zenon
  <2> HIDE DEF h, asv, gen
  <2>3. s = r
    BY <1>5, <2>1, <2>2 DEF IsRecord
  <2> HIDE DEF s
  <2> QED BY <1>2, <1>3, <2>3, Zenon DEF Fresh
<1> QED BY <1>4, <1>5

\* A copy of the record is at most as new; a fresh record is newer.
LEMMA FreshIsNewer ==
  ASSUME NEW r, IsRecord(r), NEW s, IsRecord(s), NEW n \in Nat, r.ep <= n,
         Fresh(r, s, n), s # r, NEW ep \in Nat, ep <= n, ep # 0, NEW v \in Nat,
         ep = r.ep => v <= r.ver
  PROVE  /\ s.ep # 0 /\ s.ver >= 1
         /\ s.ep <= Later(n, s.ep)
         /\ ep <= Later(n, s.ep)
         /\ ep = s.ep => v < s.ver
  BY DEF Fresh, IsRecord, Later

\* The same of the record itself.
LEMMA FreshIsNew ==
  ASSUME NEW r, IsRecord(r), NEW s, IsRecord(s), NEW n \in Nat, r.ep <= n,
         Fresh(r, s, n), s # r
  PROVE  s.ep # 0 /\ s.ver >= 1 /\ s.ep <= Later(n, s.ep) /\ Later(n, s.ep) \in Nat
         /\ 0 <= Later(n, s.ep)
  BY DEF Fresh, IsRecord, Later

\* Epochs are drawn in order.
LEMMA LaterSame ==
  ASSUME NEW n \in Nat, NEW e \in Nat, e <= n
  PROVE  Later(n, e) = n
  BY DEF Later

\* Fewer copies are coherent if all are.
LEMMA FewerCoherent ==
  ASSUME NEW C, NEW D, D \subseteq C, NEW r, NEW n, Coherent(C, r, n)
  PROVE  Coherent(D, r, n)
  BY Zenon DEF Coherent

\* A mirror follows fewer copies if it follows all.
LEMMA FewerFollows ==
  ASSUME NEW C, NEW D, D \subseteq C, NEW r, NEW n, NEW e, Follows(e, C, r, n)
  PROVE  Follows(e, D, r, n)
  BY Zenon DEF Follows

\* A fresh record is coherent with the copies of the record it replaces.
LEMMA FreshCoherent ==
  ASSUME NEW C, NEW r \in C, NEW s, IsRecord(s), NEW n \in Nat, Coherent(C, r, n),
         Fresh(r, s, n)
  PROVE  Coherent(C \cup {s}, s, Later(n, s.ep))
<1>0. IsRecord(r) /\ r.ep <= n /\ r.ep \in Nat
  BY Zenon DEF Coherent, IsRecord
<1>1. CASE s = r
  <2>1. Later(n, s.ep) = n /\ C \cup {s} = C
    BY <1>0, <1>1, LaterSame, Zenon
  <2> QED BY <1>1, <2>1, Zenon
<1>2. CASE s # r
  <2> DEFINE m == Later(n, s.ep)
  <2>1. s.ep # 0 /\ s.ver >= 1 /\ s.ep <= m
    BY <1>0, <1>2, FreshIsNew, Zenon
  <2>2. \A a \in C : /\ IsRecord(a) /\ a.ep \in Nat /\ a.ver \in Nat /\ a.ep <= n
                     /\ a.ep # 0 => a.ver >= 1
                     /\ a.ep # 0 /\ a.ep = r.ep => a.ver <= r.ver
    BY Zenon DEF Coherent, IsRecord
  <2>3. \A a \in C : a.ep # 0 => a.ep <= m /\ (a.ep = s.ep => a.ver < s.ver)
    <3> SUFFICES ASSUME NEW a \in C, a.ep # 0
                 PROVE  a.ep <= m /\ (a.ep = s.ep => a.ver < s.ver)
      OBVIOUS
    <3>1. a.ep \in Nat /\ a.ver \in Nat /\ a.ep <= n /\ (a.ep = r.ep => a.ver <= r.ver)
      BY <2>2, Zenon
    <3> QED BY <1>0, <1>2, <3>1, FreshIsNewer, Zenon
  <2>4. \A a \in C : a.ep = 0 => a.ep <= m
    BY <1>0, <1>2, FreshIsNew, Zenon
  <2>5. \A a \in C : a.ep # 0 /\ a.ep = s.ep => a.ver <= s.ver /\ a.ver # s.ver
    <3> SUFFICES ASSUME NEW a \in C, a.ep # 0, a.ep = s.ep
                 PROVE  a.ver <= s.ver /\ a.ver # s.ver
      OBVIOUS
    <3>1. a.ver < s.ver /\ a.ver \in Nat /\ s.ver \in Nat
      BY <2>2, <2>3, Zenon DEF IsRecord
    <3> QED BY <3>1
  <2>6. s.ver <= s.ver
    <3>1. s.ver \in Nat
      BY Zenon DEF IsRecord
    <3> QED BY <3>1
  <2>7. \A a, b \in C : a.ep # 0 /\ a.ep = b.ep /\ a.ver = b.ver => a = b
    BY Zenon DEF Coherent
  <2> HIDE DEF m
  <2>8. \A a \in C \cup {s} : /\ IsRecord(a) /\ a.ep <= m
                              /\ a.ep # 0 => a.ver >= 1
                              /\ a.ep # 0 /\ a.ep = s.ep => a.ver <= s.ver
    <3> TAKE a \in C \cup {s}
    <3>1. CASE a \in C
      BY <3>1, <2>2, <2>3, <2>4, <2>5, Zenon
    <3>2. CASE a = s
      BY <3>2, <2>1, <2>6, Zenon
    <3> QED BY <3>1, <3>2, Zenon
  <2>9. \A a, b \in C \cup {s} : a.ep # 0 /\ a.ep = b.ep /\ a.ver = b.ver => a = b
    BY <2>1, <2>5, <2>7, Zenon
  <2>10. Coherent(C \cup {s}, s, m)
    BY <2>8, <2>9, Zenon DEF Coherent
  <2> QED BY <2>10, Zenon DEF m
<1> QED BY <1>1, <1>2

\* A mirror that followed the record follows the fresh one.
LEMMA FreshFollows ==
  ASSUME NEW C, NEW r \in C, NEW s, IsRecord(s), NEW n \in Nat, Coherent(C, r, n),
         Fresh(r, s, n), NEW e, Follows(e, C, r, n)
  PROVE  Follows(e, C \cup {s}, s, Later(n, s.ep))
<1>0. IsRecord(r) /\ r.ep <= n /\ r.ep \in Nat
  BY Zenon DEF Coherent, IsRecord
<1>1. CASE s = r
  <2>1. Later(n, s.ep) = n /\ C \cup {s} = C
    BY <1>0, <1>1, LaterSame, Zenon
  <2> QED BY <1>1, <2>1, Zenon
<1>2. CASE s # r
  <2> DEFINE m == Later(n, s.ep)
  <2>1. s.ep # 0 /\ 0 <= m
    BY <1>0, <1>2, FreshIsNew, Zenon
  <2>2. /\ IsEntry(e) /\ e.ep \in Nat /\ e.sv \in Nat /\ e.ep <= n
        /\ r.ep # 0 /\ e.ep = r.ep => e.sv >= 1 /\ e.sv <= r.ver
        /\ e.ep # 0 /\ ~e.local => \A a \in C : Agrees(e, a)
    BY Zenon DEF Follows, IsEntry
  <2>3. CASE e.ep = 0
    BY <2>1, <2>2, <2>3, Zenon DEF Follows
  <2>4. CASE e.ep # 0
    <3>1. e.ep <= m /\ (e.ep = s.ep => e.sv < s.ver)
      BY <1>0, <1>2, <2>2, <2>4, FreshIsNewer, Zenon
    <3>2. e.ep = s.ep => e.ep = r.ep
      BY <1>0, <1>2, <2>2, <2>4 DEF Fresh
    <3>3. e.ep = s.ep => e.sv >= 1 /\ e.sv <= s.ver /\ s.ver # e.sv
      <4>1. s.ver \in Nat
        BY Zenon DEF IsRecord
      <4> QED BY <2>2, <2>4, <3>1, <3>2, <4>1
    <3>4. Agrees(e, s)
      BY <3>3, Zenon DEF Agrees
    <3> QED BY <2>2, <3>1, <3>3, <3>4, Zenon DEF Follows
  <2> QED BY <2>3, <2>4
<1> QED BY <1>1, <1>2

\* When Redis loses the record, its copies stay coherent.
LEMMA LostCoherent ==
  ASSUME NEW C, NEW r, NEW n \in Nat, Coherent(C, r, n)
  PROVE  Coherent(C \cup {NoRecord}, NoRecord, n)
<1>1. IsRecord(NoRecord) /\ NoRecord.ep = 0
  BY NoRecordIs, Zenon
<1>2. 0 <= n
  OBVIOUS
<1>3. \A a \in C : /\ IsRecord(a) /\ a.ep <= n
                   /\ a.ep # 0 => a.ver >= 1
  BY Zenon DEF Coherent
<1>4. \A a, b \in C : a.ep # 0 /\ a.ep = b.ep /\ a.ver = b.ver => a = b
  BY Zenon DEF Coherent
<1>5. \A a \in C \cup {NoRecord} : /\ IsRecord(a) /\ a.ep <= n
                                   /\ a.ep # 0 => a.ver >= 1
                                   /\ ~(a.ep # 0 /\ a.ep = NoRecord.ep)
  BY <1>1, <1>2, <1>3, Zenon
<1>6. \A a, b \in C \cup {NoRecord} : a.ep # 0 /\ a.ep = b.ep /\ a.ver = b.ver => a = b
  BY <1>1, <1>4, Zenon
<1> QED BY <1>5, <1>6, Zenon DEF Coherent

\* And its mirrors follow nothing until they hear of it.
LEMMA LostFollows ==
  ASSUME NEW C, NEW r, NEW n, NEW e, Follows(e, C, r, n)
  PROVE  Follows(e, C \cup {NoRecord}, NoRecord, n)
<1>1. NoRecord.ep = 0
  BY NoRecordIs, Zenon
<1>2. e.ep # 0 => Agrees(e, NoRecord)
  BY <1>1, Zenon DEF Agrees
<1> QED BY <1>1, <1>2, Zenon DEF Follows

\* A registry entry that was just loaded mirrors no record.
LEMMA EntryFollows ==
  ASSUME NEW C, NEW r, NEW n \in Nat, NEW idg, NEW ver
  PROVE  /\ Follows(Entry(idg, ver), C, r, n)
         /\ Entry(idg, ver).idg = idg /\ Entry(idg, ver).ver = ver /\ Entry(idg, ver).ep = 0
<1> DEFINE e == Entry(idg, ver)
<1>1. IsEntry(e) /\ e.ep = 0 /\ e.idg = idg /\ e.ver = ver
  BY DEF Entry, IsEntry
<1>2. 0 <= n
  OBVIOUS
<1> HIDE DEF e
<1>3. r.ep # 0 => e.ep # r.ep
  BY <1>1, Zenon
<1>4. Follows(e, C, r, n)
  BY <1>1, <1>2, <1>3, Zenon DEF Follows
<1> QED BY <1>1, <1>4, Zenon DEF e

\* What mirroring a copy does: nothing, or the entry is reset, or it takes the
\* copy over because it is not older.
LEMMA MirroredCases ==
  ASSUME NEW e, IsEntry(e), NEW a, IsRecord(a)
  PROVE  LET f == Mirrored(e, a)
         IN  \/ f = e
             \/ f = Entry(e.idg, e.ver)
             \/ /\ a.ep # 0 /\ a.idg = e.idg /\ (a.ep = e.ep => a.ver >= e.sv)
                /\ IsEntry(f) /\ f.ep = a.ep /\ f.sv = a.ver /\ f.h = a.h
                /\ f.idg = e.idg /\ f.ver = e.ver
<1> DEFINE f == Mirrored(e, a)
           g == [e EXCEPT !.ep = a.ep, !.sv = a.ver, !.h = a.h, !.local = FALSE]
<1>1. CASE a.ep = 0
  BY <1>1, Zenon DEF Mirrored
<1>2. CASE a.ep # 0 /\ (a.idg # e.idg \/ (a.ep = e.ep /\ a.ver < e.sv))
  BY <1>2, Zenon DEF Mirrored
<1>3. CASE a.ep # 0 /\ ~(a.idg # e.idg \/ (a.ep = e.ep /\ a.ver < e.sv))
  <2>1. f = g
    BY <1>3, Zenon DEF Mirrored
  <2>2. IsEntry(g) /\ g.ep = a.ep /\ g.sv = a.ver /\ g.h = a.h /\ g.idg = e.idg /\ g.ver = e.ver
    <3>0. g = [e EXCEPT !.ep = a.ep, !.sv = a.ver, !.h = a.h, !.local = FALSE]
      OBVIOUS
    <3> HIDE DEF g
    <3>1. g = [idg |-> e.idg, ver |-> e.ver, ep |-> a.ep, sv |-> a.ver, h |-> a.h,
               local |-> FALSE]
      BY <3>0, Zenon DEF IsEntry
    <3>2. a.ep \in Nat /\ a.ver \in Nat
      BY Zenon DEF IsRecord
    <3> QED BY <3>1, <3>2 DEF IsEntry
  <2>3. a.ver \in Nat /\ e.sv \in Nat
    BY Zenon DEF IsEntry, IsRecord
  <2>4. a.ep = e.ep => a.ver >= e.sv
    BY <1>3, <2>3
  <2> HIDE DEF g
  <2> QED BY <1>3, <2>1, <2>2, <2>4, Zenon
<1> QED BY <1>1, <1>2, <1>3, Zenon

\* A mirror of a copy follows the record.
LEMMA MirroredFollows ==
  ASSUME NEW C, NEW r, NEW n \in Nat, Coherent(C, r, n), NEW a \in C, NEW e,
         Follows(e, C, r, n)
  PROVE  /\ Follows(Mirrored(e, a), C, r, n)
         /\ Mirrored(e, a).idg = e.idg /\ Mirrored(e, a).ver = e.ver
<1> DEFINE f == Mirrored(e, a)
<1>1. /\ IsRecord(a) /\ a.ep <= n
      /\ a.ep # 0 => a.ver >= 1
      /\ a.ep # 0 /\ a.ep = r.ep => a.ver <= r.ver
      /\ \A b \in C : a.ep # 0 /\ b.ep = a.ep /\ b.ver = a.ver => b = a
  BY Zenon DEF Coherent
<1>2. IsEntry(e)
  BY Zenon DEF Follows
<1>3. \/ f = e
      \/ f = Entry(e.idg, e.ver)
      \/ /\ a.ep # 0 /\ a.idg = e.idg /\ (a.ep = e.ep => a.ver >= e.sv)
         /\ IsEntry(f) /\ f.ep = a.ep /\ f.sv = a.ver /\ f.h = a.h
         /\ f.idg = e.idg /\ f.ver = e.ver
  BY <1>1, <1>2, MirroredCases, Zenon
<1> HIDE DEF f
<1>4. CASE f = e
  BY <1>4, Zenon DEF f
<1>5. CASE f = Entry(e.idg, e.ver)
  <2>1. /\ Follows(Entry(e.idg, e.ver), C, r, n)
        /\ Entry(e.idg, e.ver).idg = e.idg /\ Entry(e.idg, e.ver).ver = e.ver
    BY EntryFollows
  <2>2. Follows(f, C, r, n) /\ f.idg = e.idg /\ f.ver = e.ver
    BY <1>5, <2>1, Zenon
  <2> QED BY <2>2, Zenon DEF f
<1>6. CASE /\ a.ep # 0 /\ a.idg = e.idg
           /\ IsEntry(f) /\ f.ep = a.ep /\ f.sv = a.ver /\ f.h = a.h
           /\ f.idg = e.idg /\ f.ver = e.ver
  <2>1. \A b \in C : Agrees(f, b)
    BY <1>1, <1>6, Zenon DEF Agrees
  <2>2. Follows(f, C, r, n)
    BY <1>1, <1>6, <2>1, Zenon DEF Follows
  <2> QED BY <1>6, <2>2, Zenon DEF f
<1> QED BY <1>3, <1>4, <1>5, <1>6, Zenon

\* A local fallback marks the mirror, so it no longer claims to be a copy.
LEMMA FellBackFollows ==
  ASSUME NEW C, NEW r, NEW n, NEW e, Follows(e, C, r, n), NEW k
  PROVE  LET f == FellBack(e, k)
         IN  Follows(f, C, r, n) /\ f.idg = e.idg /\ f.ver = e.ver /\ f.ep = e.ep /\ f.sv = e.sv
<1> DEFINE h == Applied(e.h, k)
           g == [e EXCEPT !.h = h, !.local = TRUE]
<1>1. FellBack(e, k) = g \/ FellBack(e, k) = e
  BY Zenon DEF FellBack
<1>2. /\ IsEntry(g) /\ g.local = TRUE
      /\ g.idg = e.idg /\ g.ver = e.ver /\ g.ep = e.ep /\ g.sv = e.sv
  <2>1. IsEntry(e)
    BY Zenon DEF Follows
  <2> HIDE DEF h
  <2>0. g = [e EXCEPT !.h = h, !.local = TRUE]
    OBVIOUS
  <2> HIDE DEF g
  <2>2. g = [idg |-> e.idg, ver |-> e.ver, ep |-> e.ep, sv |-> e.sv, h |-> h, local |-> TRUE]
    BY <2>0, <2>1, Zenon DEF IsEntry
  <2>3. e.ep \in Nat /\ e.sv \in Nat
    BY <2>1, Zenon DEF IsEntry
  <2> QED BY <2>2, <2>3 DEF IsEntry
<1> HIDE DEF g
<1>3. Follows(g, C, r, n)
  BY <1>2, Zenon DEF Follows
<1> QED BY <1>1, <1>2, <1>3, Zenon

\* Loading the row again keeps the mirror of its identity and resets any other.
LEMMA LoadedFollows ==
  ASSUME NEW C, NEW r, NEW n \in Nat, NEW e, Follows(e, C, r, n)
  PROVE  LET f == Loaded(e)
         IN  /\ Follows(f, C, r, n)
             /\ f.idg = row.idg /\ f.ver = row.ver
             /\ f.ep # 0 => f.ep = e.ep /\ f.sv = e.sv
<1> DEFINE g == [e EXCEPT !.ver = row.ver]
<1>1. CASE e.idg = row.idg
  <2>1. Loaded(e) = g
    BY <1>1, Zenon DEF Loaded
  <2>2. /\ IsEntry(g) /\ g.local = e.local /\ g.h = e.h /\ g.ver = row.ver
        /\ g.idg = e.idg /\ g.ep = e.ep /\ g.sv = e.sv
    <3>1. IsEntry(e)
      BY Zenon DEF Follows
    <3>0. g = [e EXCEPT !.ver = row.ver]
      OBVIOUS
    <3> HIDE DEF g
    <3>2. g = [idg |-> e.idg, ver |-> row.ver, ep |-> e.ep, sv |-> e.sv, h |-> e.h,
               local |-> e.local]
      BY <3>0, <3>1, Zenon DEF IsEntry
    <3>3. e.ep \in Nat /\ e.sv \in Nat /\ e.local \in BOOLEAN
      BY <3>1, Zenon DEF IsEntry
    <3> QED BY <3>2, <3>3 DEF IsEntry
  <2> HIDE DEF g
  <2>3. Follows(g, C, r, n)
    BY <2>2, Zenon DEF Follows, Agrees
  <2> QED BY <1>1, <2>1, <2>2, <2>3, Zenon
<1>2. CASE e.idg # row.idg
  <2>1. Loaded(e) = Entry(row.idg, row.ver)
    BY <1>2, Zenon DEF Loaded
  <2> DEFINE f == Entry(row.idg, row.ver)
  <2>2. Follows(f, C, r, n) /\ f.idg = row.idg /\ f.ver = row.ver /\ f.ep = 0
    BY EntryFollows
  <2> HIDE DEF f
  <2>3. Loaded(e) = f
    BY <2>1, Zenon DEF f
  <2> QED BY <2>2, <2>3, Zenon
<1> QED BY <1>1, <1>2, Zenon

-----------------------------------------------------------------------------
(* The copies before and after a step. *)

\* Where the copies are.
LEMMA CopiesAre ==
  /\ record \in Copies
  /\ \A c \in Calls : call[c].pc = "run" => call[c].reply \in Copies
  /\ \A i \in Instances : SeqSet(events[i]) \subseteq Copies
  /\ \A i \in Instances : reading[i] # NoRead => reading[i][1] \in Copies
<1>1. record \in Copies
  BY Zenon DEF Copies
<1>2. \A c \in Calls : call[c].pc = "run" => call[c].reply \in Copies
  BY Zenon DEF Copies
<1>3. \A i \in Instances : SeqSet(events[i]) \subseteq Copies
  <2> DEFINE X(i) == {events[i][n] : n \in 1..Len(events[i])}
  <2>1. UNION {X(i) : i \in Instances} \subseteq Copies
    BY Zenon DEF Copies
  <2>2. \A i \in Instances : SeqSet(events[i]) = X(i)
    BY Zenon DEF SeqSet
  <2> HIDE DEF X
  <2> QED BY <2>1, <2>2, Zenon
<1>4. \A i \in Instances : reading[i] # NoRead => reading[i][1] \in Copies
  <2> DEFINE J == {j \in Instances : reading[j] # NoRead}
             Z == {reading[i][1] : i \in J}
             Y == UNION {{events[i][n] : n \in 1..Len(events[i])} : i \in Instances}
             W == {call[c].reply : c \in {d \in Calls : call[d].pc = "run"}}
  <2>0. Copies = {record} \cup W \cup Y \cup Z
    BY Zenon DEF Copies
  <2> HIDE DEF J, Y, W
  <2>1. Z \subseteq Copies
    <3> HIDE DEF Z
    <3> QED BY <2>0, Zenon
  <2>2. \A i \in J : reading[i][1] \in Z
    BY Zenon
  <2> HIDE DEF Z
  <2>3. \A i \in J : reading[i][1] \in Copies
    BY <2>1, <2>2, Zenon
  <2> QED BY <2>3, Zenon DEF J
<1> QED BY <1>1, <1>2, <1>3, <1>4

\* A set that has the copy in each of those places after a step has them all.
LEMMA CopiesWithin ==
  ASSUME NEW S, record' \in S,
         \A c \in Calls : call'[c].pc = "run" => call'[c].reply \in S,
         \A i \in Instances : SeqSet(events'[i]) \subseteq S,
         \A i \in Instances : reading'[i] # NoRead => reading'[i][1] \in S
  PROVE  Copies' \subseteq S
<1> SUFFICES ASSUME NEW a \in Copies' PROVE a \in S
  OBVIOUS
<1> DEFINE X(i) == {events'[i][n] : n \in 1..Len(events'[i])}
           Y == UNION {X(i) : i \in Instances}
           K == {d \in Calls : call'[d].pc = "run"}
           J == {j \in Instances : reading'[j] # NoRead}
           W == {call'[c].reply : c \in K}
           Z == {reading'[i][1] : i \in J}
<1>1. \A i \in Instances : SeqSet(events'[i]) = X(i)
  BY Zenon DEF SeqSet
<1>2. a = record' \/ a \in W \/ a \in Y \/ a \in Z
  <2>1. Copies' = {record'} \cup W \cup Y \cup Z
    BY Zenon DEF Copies
  <2> HIDE DEF W, Y, Z
  <2> QED BY <2>1, Zenon
<1> HIDE DEF X, J, K
<1>3. a \in Y => \E i \in Instances : a \in X(i)
  BY Zenon
<1>4. a \in W => \E c \in K : a = call'[c].reply
  BY Zenon
<1>5. a \in Z => \E i \in J : a = reading'[i][1]
  BY Zenon
<1> HIDE DEF Y, W, Z
<1>6. a \in Y => a \in S
  BY <1>1, <1>3, Zenon
<1>7. a \in W => a \in S
  BY <1>4, Zenon DEF K
<1>8. a \in Z => a \in S
  BY <1>5, Zenon DEF J
<1> QED BY <1>2, <1>6, <1>7, <1>8, Zenon

\* A step that keeps the record and only passes copies on keeps the invariant
\* when every mirror it leaves follows the record.
LEMMA PassingOn ==
  ASSUME IInv, record' = record, epochs' = epochs, Shapes',
         \A c \in Calls : Whole(call'[c], c \in flight'),
         \A c \in Calls : call'[c].pc = "run" => call'[c].reply \in Copies,
         \A i \in Instances : SeqSet(events'[i]) \subseteq Copies,
         \A i \in Instances : reading'[i] # NoRead => reading'[i][1] \in Copies,
         \A i \in Instances : Follows(mirror'[i], Copies, record, epochs),
         \A i \in Instances : Loadable(mirror'[i], row'.idg, row'.ver),
         \A i \in Instances : Held(edit'[i], Copies, record, epochs, row'.idg, row'.ver)
  PROVE  IInv'
<1>1. record' \in Copies
  BY CopiesAre, Zenon
<1>2. Copies' \subseteq Copies
  BY <1>1, CopiesWithin, Zenon
<1>3. Coherent(Copies, record, epochs)
  BY Zenon DEF IInv
<1>4. Coherent(Copies', record', epochs')
  <2>1. Coherent(Copies', record, epochs)
    BY <1>2, <1>3, FewerCoherent, Zenon
  <2> QED BY <2>1, Zenon
<1>5. \A i \in Instances : Follows(mirror'[i], Copies', record', epochs')
  <2>1. \A i \in Instances : Follows(mirror'[i], Copies', record, epochs)
    BY <1>2, FewerFollows, Zenon
  <2> QED BY <2>1, Zenon
<1>6. \A i \in Instances : Held(edit'[i], Copies', record', epochs', row'.idg, row'.ver)
  <2>1. \A i \in Instances : Held(edit'[i], Copies', record, epochs, row'.idg, row'.ver)
    BY <1>2, FewerFollows, Zenon DEF Held
  <2> QED BY <2>1, Zenon
<1> QED BY <1>4, <1>5, <1>6, Zenon DEF IInv

\* A call that is over, whether its script is still on its way or not.
LEMMA OverIs ==
  ASSUME NEW c \in Calls, Whole(call[c], c \in flight)
  PROVE  Over(c).pc = "done" /\ Whole(Over(c), c \in flight)
<1> DEFINE k == call[c]
           g == [k EXCEPT !.pc = "done", !.reply = NoRecord]
<1>1. CASE c \in flight
  <2>1. IsCall(k)
    BY <1>1, Zenon DEF Whole
  <2>2. g = [k EXCEPT !.pc = "done", !.reply = NoRecord] /\ Over(c) = g
    BY <1>1, Zenon DEF Over
  <2> HIDE DEF g, k
  <2>3. g = [id |-> k.id, pc |-> "done", on |-> k.on, op |-> k.op, idg |-> k.idg, ref |-> k.ref,
             reply |-> NoRecord]
    BY <2>1, <2>2, Zenon DEF IsCall
  <2>4. g.pc = "done" /\ IsCall(g)
    BY <2>3 DEF IsCall
  <2> QED BY <2>2, <2>4, Zenon DEF Whole
<1>2. CASE c \notin flight
  <2>1. Over(c) = [pc |-> "done", on |-> call[c].on]
    BY <1>2, Zenon DEF Over
  <2>2. Over(c).pc = "done"
    BY <2>1
  <2>3. Whole(Over(c), c \in flight)
    BY <1>2, <2>2 DEF Whole
  <2> QED BY <2>2, <2>3
<1> QED BY <1>1, <1>2

-----------------------------------------------------------------------------
(* Each step keeps the invariant. *)

\* Before the first health decision there is nothing to copy.
LEMMA InitInv == Init => IInv
<1> SUFFICES ASSUME Init PROVE IInv
  OBVIOUS
<1>1. row = [idg |-> 1, ver |-> 1] /\ MaxIdentity \in Nat \ {0} /\ MaxSecret \in Nat \ {0}
      /\ MaxFaults \in Nat /\ MaxEdits \in Nat
  BY BoundsAssumption, Zenon DEF Init
<1>2. row \in [idg : 1..MaxIdentity, ver : 1..MaxSecret] /\ 0 \in 0..MaxFaults /\ 0 \in 0..MaxEdits
  BY <1>1
<1>3. Shapes
  BY <1>2, EmptySeq DEF Init, Shapes
<1>4. \A c \in Calls : call[c].pc = "new" /\ c \notin flight
  BY DEF Init, NoCall
<1>5. \A c \in Calls : Whole(call[c], c \in flight)
  BY <1>4 DEF Whole
<1>6. \A a \in Copies : a = NoRecord
  <2> SUFFICES ASSUME NEW a \in Copies PROVE a = NoRecord
    OBVIOUS
  <2>1. \/ a = record
        \/ \E c \in Calls : call[c].pc = "run"
        \/ \E i \in Instances : a \in SeqSet(events[i])
        \/ \E i \in Instances : reading[i] # NoRead
    BY Zenon DEF Copies, SeqSet
  <2>2. \A i \in Instances : SeqSet(events[i]) = {} /\ reading[i] = NoRead
    BY EmptySeq, Zenon DEF Init
  <2>3. record = NoRecord
    BY Zenon DEF Init
  <2> QED BY <1>4, <2>1, <2>2, <2>3
<1>7. record = NoRecord /\ epochs = 0
  BY Zenon DEF Init
<1>8. Coherent(Copies, record, epochs)
  <2>1. Coherent({}, NoRecord, 0)
    BY Zenon DEF Coherent
  <2>2. Coherent({} \cup {NoRecord}, NoRecord, 0)
    BY <2>1, LostCoherent
  <2> QED BY <1>6, <1>7, <2>2, FewerCoherent
<1>9. \A i \in Instances : mirror[i] = Entry(1, 1)
  BY Zenon DEF Init
<1>10. \A i \in Instances : Follows(mirror[i], Copies, record, epochs)
  <2>1. Follows(Entry(1, 1), Copies, record, 0)
    BY EntryFollows
  <2> QED BY <1>7, <1>9, <2>1, Zenon
<1>11. \A i \in Instances : Loadable(mirror[i], row.idg, row.ver)
  <2>1. Loadable(Entry(1, 1), row.idg, row.ver)
    <3>1. row.idg = 1 /\ row.ver = 1 /\ 1 \in 1..1
      BY <1>1
    <3>2. Entry(1, 1).idg = 1 /\ Entry(1, 1).ver = 1
      BY DEF Entry
    <3> QED BY <3>1, <3>2, Zenon DEF Loadable
  <2> QED BY <1>9, <2>1, Zenon
<1>12. \A i \in Instances : Held(edit[i], Copies, record, epochs, row.idg, row.ver)
  BY Zenon DEF Init, Held
<1> QED BY <1>3, <1>5, <1>8, <1>10, <1>11, <1>12, Zenon DEF IInv

\* A step that changes one call, to one that holds no reply, or leaves them all.
LEMMA OneCall ==
  ASSUME IInv, NEW c \in Calls, NEW k, call' = [call EXCEPT ![c] = k], k.pc # "run",
         Whole(k, c \in flight'), \A d \in Calls : d \in flight' /\ d # c => d \in flight
  PROVE  /\ call' = [d \in Calls |-> call'[d]]
         /\ \A d \in Calls : Whole(call'[d], d \in flight')
         /\ \A d \in Calls : call'[d].pc = "run" => call'[d].reply \in Copies
<1>1. call = [d \in Calls |-> call[d]]
  BY Zenon DEF IInv, Shapes
<1>2. call' = [d \in Calls |-> call'[d]] /\ call'[c] = k /\ \A d \in Calls \ {c} : call'[d] = call[d]
  BY <1>1
<1>3. \A d \in Calls : Whole(call[d], d \in flight)
  BY Zenon DEF IInv
<1>4. ASSUME NEW d \in Calls PROVE Whole(call'[d], d \in flight')
  <2>1. CASE d = c
    BY <1>2, <2>1, Zenon
  <2>2. CASE d # c
    <3>1. call'[d] = call[d] /\ (d \in flight' => d \in flight) /\ Whole(call[d], d \in flight)
      BY <1>2, <1>3, <2>2, Zenon
    <3> QED BY <3>1, Zenon DEF Whole
  <2> QED BY <2>1, <2>2
<1>5. \A d \in Calls : call'[d].pc = "run" => call'[d].reply \in Copies
  BY <1>2, CopiesAre, Zenon
<1> QED BY <1>2, <1>4, <1>5, Zenon

\* Copies that a step leaves where they are.
LEMMA EventsStay ==
  ASSUME IInv, UNCHANGED events
  PROVE  /\ events' = [i \in Instances |-> events'[i]]
         /\ \A i \in Instances : IsSeq(events'[i]) /\ SeqSet(events'[i]) \subseteq Copies
  BY CopiesAre, Zenon DEF IInv, Shapes

\* The same of the records that reconciliations have read.
LEMMA ReadingStays ==
  ASSUME IInv, UNCHANGED reading
  PROVE  /\ reading' = [i \in Instances |-> reading'[i]]
         /\ \A i \in Instances : reading'[i] # NoRead => reading'[i][1] \in Copies
  BY CopiesAre, Zenon DEF IInv, Shapes

\* The same of the replies.
LEMMA CallsStay ==
  ASSUME IInv, UNCHANGED <<call, flight>>
  PROVE  /\ call' = [c \in Calls |-> call'[c]]
         /\ \A c \in Calls : Whole(call'[c], c \in flight')
         /\ \A c \in Calls : call'[c].pc = "run" => call'[c].reply \in Copies
  BY CopiesAre, Zenon DEF IInv, Shapes

\* Mirrors that a step leaves as they are.
LEMMA MirrorsStay ==
  ASSUME IInv, UNCHANGED mirror
  PROVE  /\ mirror' = [i \in Instances |-> mirror'[i]]
         /\ \A i \in Instances : Follows(mirror'[i], Copies, record, epochs)
         /\ \A i \in Instances : Loadable(mirror'[i], row.idg, row.ver)
  BY Zenon DEF IInv, Shapes

\* Edits that a step leaves as they are.
LEMMA EditsStay ==
  ASSUME IInv, UNCHANGED edit
  PROVE  /\ edit' = [i \in Instances |-> edit'[i]]
         /\ \A i \in Instances : Held(edit'[i], Copies, record, epochs, row.idg, row.ver)
  BY Zenon DEF IInv, Shapes

\* A step that changes one edit, to none or to one that holds a mirror.
LEMMA OneEdit ==
  ASSUME IInv, NEW i \in Instances, NEW d, edit' = [edit EXCEPT ![i] = d],
         Held(d, Copies, record, epochs, row.idg, row.ver)
  PROVE  /\ edit' = [j \in Instances |-> edit'[j]]
         /\ \A j \in Instances : Held(edit'[j], Copies, record, epochs, row.idg, row.ver)
<1>1. /\ edit = [j \in Instances |-> edit[j]]
      /\ \A j \in Instances : Held(edit[j], Copies, record, epochs, row.idg, row.ver)
  BY Zenon DEF IInv, Shapes
<1>2. /\ edit' = [j \in Instances |-> edit'[j]]
      /\ edit'[i] = d
      /\ \A j \in Instances \ {i} : edit'[j] = edit[j]
  BY <1>1, Zenon
<1> QED BY <1>1, <1>2, Zenon

\* A step that changes one mirror to another that follows the record.
LEMMA OneMirror ==
  ASSUME IInv, NEW i, NEW f, mirror' = [mirror EXCEPT ![i] = f],
         i \in Instances => /\ Follows(f, Copies, record, epochs)
                            /\ Loadable(f, row.idg, row.ver)
  PROVE  /\ mirror' = [j \in Instances |-> mirror'[j]]
         /\ \A j \in Instances : Follows(mirror'[j], Copies, record, epochs)
         /\ \A j \in Instances : Loadable(mirror'[j], row.idg, row.ver)
<1>1. mirror = [j \in Instances |-> mirror[j]]
  BY Zenon DEF IInv, Shapes
<1>2. /\ mirror' = [j \in Instances |-> mirror'[j]]
      /\ i \in Instances => mirror'[i] = f
      /\ \A j \in Instances \ {i} : mirror'[j] = mirror[j]
  BY <1>1
<1>3. \A j \in Instances : /\ Follows(mirror[j], Copies, record, epochs)
                           /\ Loadable(mirror[j], row.idg, row.ver)
  BY Zenon DEF IInv
<1>4. ASSUME NEW j \in Instances
      PROVE  Follows(mirror'[j], Copies, record, epochs) /\ Loadable(mirror'[j], row.idg, row.ver)
  <2>1. CASE j = i
    BY <1>2, <2>1, Zenon
  <2>2. CASE j # i
    BY <1>2, <1>3, <2>2, Zenon
  <2> QED BY <2>1, <2>2
<1> QED BY <1>2, <1>4, Zenon

\* An attempt takes its reference.
LEMMA CaptureStep ==
  ASSUME IInv, NEW c \in Calls, NEW i \in Instances, NEW op, Capture(c, i, op)
  PROVE  IInv'
<1> DEFINE past == IF op.op = "recover" THEN Recorded ELSE {}
           ref == [idg |-> mirror[i].idg, ver |-> mirror[i].ver, fg |-> mirror[i].h.fg,
                   mg |-> mirror[i].h.mg, cd |-> mirror[i].h.cd, past |-> past]
           k == [id |-> c, pc |-> "ref", on |-> i, op |-> op, idg |-> mirror[i].idg,
                 ref |-> ref, reply |-> NoRecord]
<1>1. /\ call' = [call EXCEPT ![c] = k]
      /\ UNCHANGED <<row, record, mirror, events, reading, flight, epochs, faults, edit, edits>>
  BY Zenon DEF Capture
<1> HIDE DEF ref
<1>2. k.pc # "run" /\ Whole(k, c \in flight')
  BY DEF Whole, IsCall
<1> HIDE DEF k
<1>3. /\ call' = [d \in Calls |-> call'[d]]
      /\ \A d \in Calls : Whole(call'[d], d \in flight')
      /\ \A d \in Calls : call'[d].pc = "run" => call'[d].reply \in Copies
  <2>1. \A d \in Calls : d \in flight' /\ d # c => d \in flight
    BY <1>1, Zenon
  <2> QED BY <1>1, <1>2, <2>1, OneCall, Zenon
<1>4. Shapes'
  BY <1>1, <1>3, Zenon DEF IInv, Shapes
<1> QED BY <1>1, <1>3, <1>4, EventsStay, ReadingStays, MirrorsStay, EditsStay, PassingOn, Zenon

\* A call checks the registry and sends its script, or is over.
LEMMA SendStep ==
  ASSUME IInv, NEW c \in Calls, Send(c)
  PROVE  IInv'
<1> DEFINE k == call[c]
           idg == SentIdentity(k)
           g == [k EXCEPT !.pc = "sent", !.idg = idg]
<1>1. /\ call[c].pc = "ref"
      /\ UNCHANGED <<row, record, mirror, events, reading, epochs, faults, edit, edits>>
  BY Zenon DEF Send
<1>2. Whole(k, c \in flight) /\ flight \subseteq Calls /\ call = [d \in Calls |-> call[d]]
  BY Zenon DEF IInv, Shapes
<1>3. /\ flight' \subseteq Calls
      /\ call' = [d \in Calls |-> call'[d]]
      /\ \A d \in Calls : Whole(call'[d], d \in flight')
      /\ \A d \in Calls : call'[d].pc = "run" => call'[d].reply \in Copies
  <2>1. CASE Current(call[c])
    <3>1. /\ call' = [call EXCEPT ![c].pc = "sent", ![c].idg = SentIdentity(call[c])]
          /\ flight' = flight \cup {c}
      BY <2>1, Zenon DEF Send
    <3>2. IsCall(k)
      BY <1>1, <1>2 DEF Whole
    <3>3. g = [k EXCEPT !.pc = "sent", !.idg = idg]
      OBVIOUS
    <3>4. call' = [call EXCEPT ![c] = g]
      <4> HIDE DEF idg
      <4>1. call' = [call EXCEPT ![c].pc = "sent", ![c].idg = idg]
        BY <3>1, Zenon DEF idg
      <4> QED BY <4>1, <1>2, Zenon
    <3> HIDE DEF g, k, idg
    <3>5. g = [id |-> k.id, pc |-> "sent", on |-> k.on, op |-> k.op, idg |-> idg, ref |-> k.ref,
               reply |-> k.reply]
      BY <3>2, <3>3, Zenon DEF IsCall
    <3>6. g.pc # "run" /\ IsCall(g)
      BY <3>5 DEF IsCall
    <3>7. Whole(g, c \in flight') /\ \A d \in Calls : d \in flight' /\ d # c => d \in flight
      BY <3>1, <3>6, Zenon DEF Whole
    <3> QED BY <1>2, <3>1, <3>4, <3>6, <3>7, OneCall, Zenon
  <2>2. CASE ~Current(call[c])
    <3>1. call' = [call EXCEPT ![c] = Over(c)] /\ flight' = flight
      BY <2>2, Zenon DEF Send
    <3>2. Over(c).pc = "done" /\ Whole(Over(c), c \in flight')
      BY <1>2, <3>1, OverIs, Zenon
    <3>3. Over(c).pc # "run"
      BY <3>2
    <3> QED BY <1>2, <3>1, <3>2, <3>3, OneCall, Zenon
  <2> QED BY <2>1, <2>2
<1>4. Shapes'
  BY <1>1, <1>3, Zenon DEF IInv, Shapes
<1> QED BY <1>1, <1>3, <1>4, EventsStay, ReadingStays, MirrorsStay, EditsStay, PassingOn, Zenon

\* A call ends while the step leaves the script where it is.
LEMMA EndsCall ==
  ASSUME IInv, NEW c \in Calls, call' = [call EXCEPT ![c] = Over(c)], flight' = flight
  PROVE  /\ call' = [d \in Calls |-> call'[d]]
         /\ \A d \in Calls : Whole(call'[d], d \in flight')
         /\ \A d \in Calls : call'[d].pc = "run" => call'[d].reply \in Copies
<1>1. Whole(call[c], c \in flight)
  BY Zenon DEF IInv
<1>2. Over(c).pc = "done" /\ Whole(Over(c), c \in flight')
  BY <1>1, OverIs, Zenon
<1>3. Over(c).pc # "run"
  BY <1>2
<1> QED BY <1>2, <1>3, OneCall, Zenon

\* The mirrors after one of them takes a copy over.
LEMMA OneMirrors ==
  ASSUME IInv, NEW i, NEW a \in Copies, mirror' = [mirror EXCEPT ![i] = Mirrored(mirror[i], a)]
  PROVE  /\ mirror' = [j \in Instances |-> mirror'[j]]
         /\ \A j \in Instances : Follows(mirror'[j], Copies, record, epochs)
         /\ \A j \in Instances : Loadable(mirror'[j], row.idg, row.ver)
<1>1. epochs \in Nat /\ Coherent(Copies, record, epochs)
  BY Zenon DEF IInv, Shapes
<1>2. ASSUME i \in Instances
      PROVE  /\ Follows(Mirrored(mirror[i], a), Copies, record, epochs)
             /\ Loadable(Mirrored(mirror[i], a), row.idg, row.ver)
  <2>1. Follows(mirror[i], Copies, record, epochs) /\ Loadable(mirror[i], row.idg, row.ver)
    BY <1>2, Zenon DEF IInv
  <2>2. /\ Follows(Mirrored(mirror[i], a), Copies, record, epochs)
        /\ Mirrored(mirror[i], a).idg = mirror[i].idg
        /\ Mirrored(mirror[i], a).ver = mirror[i].ver
    BY <1>1, <2>1, MirroredFollows
  <2> QED BY <2>1, <2>2, Zenon DEF Loadable
<1> QED BY <1>2, OneMirror, Zenon

\* The reply is mirrored.
LEMMA ReplyStep ==
  ASSUME IInv, NEW c \in Calls, Reply(c)
  PROVE  IInv'
<1>1. /\ call[c].pc = "run"
      /\ mirror' = [mirror EXCEPT ![call[c].on] = Mirrored(mirror[call[c].on], call[c].reply)]
      /\ call' = [call EXCEPT ![c] = Over(c)]
      /\ UNCHANGED <<row, record, events, reading, flight, epochs, faults, edit, edits>>
  BY Zenon DEF Reply
<1>2. call[c].reply \in Copies
  BY <1>1, CopiesAre, Zenon
<1>3. /\ mirror' = [j \in Instances |-> mirror'[j]]
      /\ \A j \in Instances : Follows(mirror'[j], Copies, record, epochs)
      /\ \A j \in Instances : Loadable(mirror'[j], row.idg, row.ver)
  BY <1>1, <1>2, OneMirrors, Zenon
<1>4. /\ call' = [d \in Calls |-> call'[d]]
      /\ \A d \in Calls : Whole(call'[d], d \in flight')
      /\ \A d \in Calls : call'[d].pc = "run" => call'[d].reply \in Copies
  BY <1>1, EndsCall, Zenon
<1>5. Shapes'
  BY <1>1, <1>3, <1>4, Zenon DEF IInv, Shapes
<1> QED BY <1>1, <1>3, <1>4, <1>5, EventsStay, ReadingStays, EditsStay, PassingOn, Zenon

\* One more fault is within the bound.
LEMMA OneFault ==
  ASSUME faults \in 0..MaxFaults, faults < MaxFaults, faults' = faults + 1
  PROVE  faults' \in 0..MaxFaults
  BY BoundsAssumption

\* The store is unavailable, and the decision is applied to the mirror alone.
LEMMA UnavailableStep ==
  ASSUME IInv, NEW c \in Calls, Unavailable(c)
  PROVE  IInv'
<1> DEFINE i == call[c].on
<1>1. /\ faults < MaxFaults /\ faults' = faults + 1
      /\ mirror' = [mirror EXCEPT ![i] = FellBack(mirror[i], call[c])]
      /\ call' = [call EXCEPT ![c] = Over(c)]
      /\ UNCHANGED <<row, record, events, reading, flight, epochs, edit, edits>>
  BY Zenon DEF Unavailable
<1> HIDE DEF i
<1>2. faults' \in 0..MaxFaults
  BY <1>1, OneFault, Zenon DEF IInv, Shapes
<1>3. /\ mirror' = [j \in Instances |-> mirror'[j]]
      /\ \A j \in Instances : Follows(mirror'[j], Copies, record, epochs)
      /\ \A j \in Instances : Loadable(mirror'[j], row.idg, row.ver)
  <2> DEFINE f == FellBack(mirror[i], call[c])
  <2>1. ASSUME i \in Instances
        PROVE  Follows(f, Copies, record, epochs) /\ Loadable(f, row.idg, row.ver)
    <3>1. Follows(mirror[i], Copies, record, epochs) /\ Loadable(mirror[i], row.idg, row.ver)
      BY <2>1, Zenon DEF IInv
    <3>2. Follows(f, Copies, record, epochs) /\ f.idg = mirror[i].idg /\ f.ver = mirror[i].ver
      BY <3>1, FellBackFollows
    <3> QED BY <3>1, <3>2, Zenon DEF Loadable
  <2> QED BY <1>1, <2>1, OneMirror, Zenon
<1>4. /\ call' = [d \in Calls |-> call'[d]]
      /\ \A d \in Calls : Whole(call'[d], d \in flight')
      /\ \A d \in Calls : call'[d].pc = "run" => call'[d].reply \in Copies
  BY <1>1, EndsCall, Zenon
<1>5. Shapes'
  BY <1>1, <1>2, <1>3, <1>4, Zenon DEF IInv, Shapes
<1> QED BY <1>1, <1>3, <1>4, <1>5, EventsStay, ReadingStays, EditsStay, PassingOn, Zenon

\* A script whose caller gave up is lost.
LEMMA ScriptLostStep ==
  ASSUME IInv, NEW c \in Calls, ScriptLost(c)
  PROVE  IInv'
<1> DEFINE k == [pc |-> "done", on |-> call[c].on]
<1>1. /\ flight' = flight \ {c}
      /\ call' = [call EXCEPT ![c] = k]
      /\ UNCHANGED <<row, record, mirror, events, reading, epochs, faults, edit, edits>>
  BY Zenon DEF ScriptLost
<1>2. k.pc # "run" /\ k.pc \notin {"ref", "sent", "run"}
  OBVIOUS
<1> HIDE DEF k
<1>3. /\ call' = [d \in Calls |-> call'[d]]
      /\ \A d \in Calls : Whole(call'[d], d \in flight')
      /\ \A d \in Calls : call'[d].pc = "run" => call'[d].reply \in Copies
  <2>1. Whole(k, c \in flight') /\ \A d \in Calls : d \in flight' /\ d # c => d \in flight
    BY <1>1, <1>2, Zenon DEF Whole
  <2> QED BY <1>1, <1>2, <2>1, OneCall, Zenon
<1>4. Shapes'
  BY <1>1, <1>3, Zenon DEF IInv, Shapes
<1> QED BY <1>1, <1>3, <1>4, EventsStay, ReadingStays, MirrorsStay, EditsStay, PassingOn, Zenon

\* The events after the first one of an instance leaves its queue.
LEMMA OneEventLess ==
  ASSUME IInv, NEW i \in Instances, events[i] # <<>>,
         events' = [events EXCEPT ![i] = Tail(events[i])]
  PROVE  /\ events' = [j \in Instances |-> events'[j]]
         /\ \A j \in Instances : IsSeq(events'[j]) /\ SeqSet(events'[j]) \subseteq Copies
         /\ Head(events[i]) \in Copies
<1>1. events = [j \in Instances |-> events[j]] /\ \A j \in Instances : IsSeq(events[j])
  BY Zenon DEF IInv, Shapes
<1>2. /\ events' = [j \in Instances |-> events'[j]]
      /\ events'[i] = Tail(events[i])
      /\ \A j \in Instances \ {i} : events'[j] = events[j]
  BY <1>1, Zenon
<1>3. IsSeq(Tail(events[i])) /\ SeqSet(Tail(events[i])) \subseteq SeqSet(events[i])
      /\ Head(events[i]) \in SeqSet(events[i])
  BY <1>1, TailSeq, Zenon
<1>4. \A j \in Instances : SeqSet(events[j]) \subseteq Copies
  BY CopiesAre, Zenon
<1> QED BY <1>1, <1>2, <1>3, <1>4, Zenon

\* An event is handled.
LEMMA HandleStep ==
  ASSUME IInv, NEW i \in Instances, Handle(i)
  PROVE  IInv'
<1>1. /\ events[i] # <<>>
      /\ mirror' = [mirror EXCEPT ![i] = Mirrored(mirror[i], Head(events[i]))]
      /\ events' = [events EXCEPT ![i] = Tail(events[i])]
      /\ UNCHANGED <<row, record, reading, call, flight, epochs, faults, edit, edits>>
  BY Zenon DEF Handle
<1>2. /\ events' = [j \in Instances |-> events'[j]]
      /\ \A j \in Instances : IsSeq(events'[j]) /\ SeqSet(events'[j]) \subseteq Copies
      /\ Head(events[i]) \in Copies
  BY <1>1, OneEventLess, Zenon
<1>3. /\ mirror' = [j \in Instances |-> mirror'[j]]
      /\ \A j \in Instances : Follows(mirror'[j], Copies, record, epochs)
      /\ \A j \in Instances : Loadable(mirror'[j], row.idg, row.ver)
  BY <1>1, <1>2, OneMirrors, Zenon
<1>4. Shapes'
  BY <1>1, <1>2, <1>3, Zenon DEF IInv, Shapes
<1> QED BY <1>1, <1>2, <1>3, <1>4, CallsStay, ReadingStays, EditsStay, PassingOn, Zenon

\* An event is lost.
LEMMA EventLostStep ==
  ASSUME IInv, NEW i \in Instances, EventLost(i)
  PROVE  IInv'
<1>1. /\ events[i] # <<>>
      /\ faults < MaxFaults /\ faults' = faults + 1
      /\ events' = [events EXCEPT ![i] = Tail(events[i])]
      /\ UNCHANGED <<row, record, mirror, reading, call, flight, epochs, edit, edits>>
  BY Zenon DEF EventLost
<1>2. /\ events' = [j \in Instances |-> events'[j]]
      /\ \A j \in Instances : IsSeq(events'[j]) /\ SeqSet(events'[j]) \subseteq Copies
  BY <1>1, OneEventLess, Zenon
<1>3. faults' \in 0..MaxFaults
  BY <1>1, OneFault, Zenon DEF IInv, Shapes
<1>4. Shapes'
  BY <1>1, <1>2, <1>3, Zenon DEF IInv, Shapes
<1> QED BY <1>1, <1>2, <1>4, CallsStay, ReadingStays, MirrorsStay, EditsStay, PassingOn, Zenon

\* A reconciliation reads the record.
LEMMA HydrateReadsStep ==
  ASSUME IInv, NEW i \in Instances, HydrateReads(i)
  PROVE  IInv'
<1>1. /\ reading' = [reading EXCEPT ![i] = <<record>>]
      /\ UNCHANGED <<row, record, mirror, events, call, flight, epochs, faults, edit, edits>>
  BY Zenon DEF HydrateReads
<1>2. reading = [j \in Instances |-> reading[j]]
  BY Zenon DEF IInv, Shapes
<1>3. /\ reading' = [j \in Instances |-> reading'[j]]
      /\ reading'[i] = <<record>>
      /\ \A j \in Instances \ {i} : reading'[j] = reading[j]
  BY <1>1, <1>2, Zenon
<1>4. reading'[i][1] = record
  BY <1>3
<1>5. \A j \in Instances : reading'[j] # NoRead => reading'[j][1] \in Copies
  <2>1. record \in Copies /\ \A j \in Instances : reading[j] # NoRead => reading[j][1] \in Copies
    BY CopiesAre, Zenon
  <2> TAKE j \in Instances
  <2>2. CASE j = i
    BY <1>4, <2>1, <2>2, Zenon
  <2>3. CASE j # i
    BY <1>3, <2>1, <2>3, Zenon
  <2> QED BY <2>2, <2>3
<1>6. Shapes'
  BY <1>1, <1>3, Zenon DEF IInv, Shapes
<1> QED BY <1>1, <1>5, <1>6, CallsStay, EventsStay, MirrorsStay, EditsStay, PassingOn, Zenon

\* It mirrors what it read.
LEMMA HydrateAppliesStep ==
  ASSUME IInv, NEW i \in Instances, HydrateApplies(i)
  PROVE  IInv'
<1>1. /\ reading[i] # NoRead
      /\ mirror' = [mirror EXCEPT ![i] = Mirrored(mirror[i], reading[i][1])]
      /\ reading' = [reading EXCEPT ![i] = NoRead]
      /\ UNCHANGED <<row, record, events, call, flight, epochs, faults, edit, edits>>
  BY Zenon DEF HydrateApplies
<1>2. reading = [j \in Instances |-> reading[j]]
  BY Zenon DEF IInv, Shapes
<1>3. /\ reading' = [j \in Instances |-> reading'[j]]
      /\ reading'[i] = NoRead
      /\ \A j \in Instances \ {i} : reading'[j] = reading[j]
  BY <1>1, <1>2, Zenon
<1>4. \A j \in Instances : reading'[j] # NoRead => reading'[j][1] \in Copies
  BY <1>3, CopiesAre, Zenon
<1>5. reading[i][1] \in Copies
  BY <1>1, CopiesAre, Zenon
<1>6. /\ mirror' = [j \in Instances |-> mirror'[j]]
      /\ \A j \in Instances : Follows(mirror'[j], Copies, record, epochs)
      /\ \A j \in Instances : Loadable(mirror'[j], row.idg, row.ver)
  BY <1>1, <1>5, OneMirrors, Zenon
<1>7. Shapes'
  BY <1>1, <1>3, <1>6, Zenon DEF IInv, Shapes
<1> QED BY <1>1, <1>4, <1>6, <1>7, CallsStay, EventsStay, EditsStay, PassingOn, Zenon

\* The database is never behind a mirror: its counters only go up.
LEMMA LoadableUp ==
  ASSUME NEW e, NEW x \in Nat, NEW y \in Nat, NEW p \in Nat, NEW q \in Nat, x <= p, y <= q,
         Loadable(e, x, y)
  PROVE  Loadable(e, p, q)
  BY DEF Loadable

\* One more identity, or one more secret, within the bounds.
LEMMA RowUp ==
  ASSUME row \in [idg : 1..MaxIdentity, ver : 1..MaxSecret],
         \/ row.idg < MaxIdentity /\ row' = [row EXCEPT !.idg = @ + 1]
         \/ row.ver < MaxSecret /\ row' = [row EXCEPT !.ver = @ + 1]
  PROVE  /\ row' \in [idg : 1..MaxIdentity, ver : 1..MaxSecret]
         /\ row.idg \in Nat /\ row.ver \in Nat /\ row'.idg \in Nat /\ row'.ver \in Nat
         /\ row.idg <= row'.idg /\ row.ver <= row'.ver
<1>1. CASE row.idg < MaxIdentity /\ row' = [row EXCEPT !.idg = @ + 1]
  BY <1>1, BoundsAssumption
<1>2. CASE row.ver < MaxSecret /\ row' = [row EXCEPT !.ver = @ + 1]
  BY <1>2, BoundsAssumption
<1> QED BY <1>1, <1>2

\* An operator or a refresh changes the row.
LEMMA RowStep ==
  ASSUME IInv, ChangeTarget \/ Rotate
  PROVE  IInv'
<1>1. /\ \/ row.idg < MaxIdentity /\ row' = [row EXCEPT !.idg = @ + 1]
         \/ row.ver < MaxSecret /\ row' = [row EXCEPT !.ver = @ + 1]
      /\ UNCHANGED <<record, mirror, events, reading, call, flight, epochs, faults, edit, edits>>
  BY Zenon DEF ChangeTarget, Rotate
<1>2. row \in [idg : 1..MaxIdentity, ver : 1..MaxSecret]
  BY Zenon DEF IInv, Shapes
<1>3. /\ row' \in [idg : 1..MaxIdentity, ver : 1..MaxSecret]
      /\ row.idg \in Nat /\ row.ver \in Nat /\ row'.idg \in Nat /\ row'.ver \in Nat
      /\ row.idg <= row'.idg /\ row.ver <= row'.ver
  BY <1>1, <1>2, RowUp, Zenon
<1>4. \A i \in Instances : Loadable(mirror'[i], row'.idg, row'.ver)
  <2>1. \A i \in Instances : Loadable(mirror'[i], row.idg, row.ver)
    BY <1>1, MirrorsStay, Zenon
  <2> QED BY <1>3, <2>1, LoadableUp, Zenon
<1>5. Shapes'
  BY <1>1, <1>3, Zenon DEF IInv, Shapes
<1>6. \A i \in Instances : Held(edit'[i], Copies, record, epochs, row'.idg, row'.ver)
  <2>1. \A i \in Instances : Held(edit'[i], Copies, record, epochs, row.idg, row.ver)
    BY <1>1, EditsStay, Zenon
  <2> QED BY <1>3, <2>1, LoadableUp, Zenon DEF Held
<1> QED BY <1>1, <1>4, <1>5, <1>6, CallsStay, EventsStay, ReadingStays, MirrorsStay, PassingOn,
           Zenon

\* The row can be loaded.
LEMMA RowLoadable ==
  ASSUME row \in [idg : 1..MaxIdentity, ver : 1..MaxSecret], NEW e, e.idg = row.idg,
         e.ver = row.ver
  PROVE  Loadable(e, row.idg, row.ver)
<1>1. row.idg \in 1..row.idg /\ row.ver \in 1..row.ver
  BY BoundsAssumption
<1> QED BY <1>1, Zenon DEF Loadable

\* An instance loads the row.
LEMMA ReloadStep ==
  ASSUME IInv, NEW i \in Instances, Reload(i)
  PROVE  IInv'
<1>1. /\ mirror' = [mirror EXCEPT ![i] = Loaded(mirror[i])]
      /\ UNCHANGED <<row, record, events, reading, call, flight, epochs, faults, edit, edits>>
  BY Zenon DEF Reload
<1>2. row \in [idg : 1..MaxIdentity, ver : 1..MaxSecret] /\ epochs \in Nat
  BY Zenon DEF IInv, Shapes
<1> DEFINE f == Loaded(mirror[i])
<1>3. Follows(mirror[i], Copies, record, epochs)
  BY Zenon DEF IInv
<1>4. Follows(f, Copies, record, epochs) /\ f.idg = row.idg /\ f.ver = row.ver
  BY <1>2, <1>3, LoadedFollows
<1> HIDE DEF f
<1>5. Loadable(f, row.idg, row.ver)
  BY <1>2, <1>4, RowLoadable, Zenon
<1>6. /\ mirror' = [j \in Instances |-> mirror'[j]]
      /\ \A j \in Instances : Follows(mirror'[j], Copies, record, epochs)
      /\ \A j \in Instances : Loadable(mirror'[j], row.idg, row.ver)
  <2>1. mirror' = [mirror EXCEPT ![i] = f]
    BY <1>1, Zenon DEF f
  <2> QED BY <1>4, <1>5, <2>1, OneMirror, Zenon
<1>7. Shapes'
  BY <1>1, <1>6, Zenon DEF IInv, Shapes
<1> QED BY <1>1, <1>6, <1>7, CallsStay, EventsStay, ReadingStays, EditsStay, PassingOn, Zenon

\* A process starts again.
LEMMA RestartStep ==
  ASSUME IInv, NEW i \in Instances, Restart(i)
  PROVE  IInv'
<1> DEFINE f == Entry(row.idg, row.ver)
<1>1. /\ faults < MaxFaults /\ faults' = faults + 1
      /\ mirror' = [mirror EXCEPT ![i] = f]
      /\ events' = [events EXCEPT ![i] = <<>>]
      /\ reading' = [reading EXCEPT ![i] = NoRead]
      /\ edit' = [edit EXCEPT ![i] = NoEdit]
      /\ call' = [c \in Calls |-> IF call[c].pc # "new" /\ call[c].on = i THEN Over(c) ELSE call[c]]
      /\ UNCHANGED <<row, record, flight, epochs, edits>>
  BY Zenon DEF Restart
<1>2. /\ row \in [idg : 1..MaxIdentity, ver : 1..MaxSecret] /\ epochs \in Nat
      /\ events = [j \in Instances |-> events[j]]
      /\ reading = [j \in Instances |-> reading[j]]
      /\ \A j \in Instances : IsSeq(events[j])
      /\ \A c \in Calls : Whole(call[c], c \in flight)
  BY Zenon DEF IInv, Shapes
<1>3. Follows(f, Copies, record, epochs) /\ f.idg = row.idg /\ f.ver = row.ver
  BY <1>2, EntryFollows
<1> HIDE DEF f
<1>4. /\ mirror' = [j \in Instances |-> mirror'[j]]
      /\ \A j \in Instances : Follows(mirror'[j], Copies, record, epochs)
      /\ \A j \in Instances : Loadable(mirror'[j], row.idg, row.ver)
  <2>1. Loadable(f, row.idg, row.ver)
    BY <1>2, <1>3, RowLoadable, Zenon
  <2> QED BY <1>1, <1>3, <2>1, OneMirror, Zenon
<1>5. /\ events' = [j \in Instances |-> events'[j]]
      /\ \A j \in Instances : IsSeq(events'[j]) /\ SeqSet(events'[j]) \subseteq Copies
  <2>1. /\ events' = [j \in Instances |-> events'[j]]
        /\ events'[i] = <<>> /\ \A j \in Instances \ {i} : events'[j] = events[j]
    BY <1>1, <1>2, Zenon
  <2>2. \A j \in Instances : SeqSet(events[j]) \subseteq Copies
    BY CopiesAre, Zenon
  <2> QED BY <1>2, <2>1, <2>2, EmptySeq, Zenon
<1>6. /\ reading' = [j \in Instances |-> reading'[j]]
      /\ \A j \in Instances : reading'[j] # NoRead => reading'[j][1] \in Copies
  <2>1. /\ reading' = [j \in Instances |-> reading'[j]]
        /\ reading'[i] = NoRead /\ \A j \in Instances \ {i} : reading'[j] = reading[j]
    BY <1>1, <1>2, Zenon
  <2> QED BY <2>1, CopiesAre, Zenon
<1>7. /\ call' = [c \in Calls |-> call'[c]]
      /\ \A c \in Calls : call'[c] = Over(c) \/ call'[c] = call[c]
  BY <1>1, Zenon
<1>8. \A c \in Calls : Over(c).pc = "done" /\ Over(c).pc # "run" /\ Whole(Over(c), c \in flight)
  <2>1. \A c \in Calls : Over(c).pc = "done" /\ Whole(Over(c), c \in flight)
    BY <1>2, OverIs, Zenon
  <2>2. "done" # "run"
    OBVIOUS
  <2> QED BY <2>1, <2>2, Zenon
<1>9. /\ \A c \in Calls : Whole(call'[c], c \in flight')
      /\ \A c \in Calls : call'[c].pc = "run" => call'[c].reply \in Copies
  <2>1. flight' = flight
    BY <1>1, Zenon
  <2>2. \A c \in Calls : Whole(call'[c], c \in flight)
    BY <1>2, <1>7, <1>8, Zenon
  <2>3. \A c \in Calls : call'[c].pc = "run" => call'[c].reply \in Copies
    BY <1>7, <1>8, CopiesAre, Zenon
  <2> QED BY <2>1, <2>2, <2>3, Zenon
<1>10. faults' \in 0..MaxFaults
  BY <1>1, OneFault, Zenon DEF IInv, Shapes
<1>11. /\ edit' = [j \in Instances |-> edit'[j]]
       /\ \A j \in Instances : Held(edit'[j], Copies, record, epochs, row.idg, row.ver)
  <2>1. Held(NoEdit, Copies, record, epochs, row.idg, row.ver)
    BY Zenon DEF Held
  <2> QED BY <1>1, <2>1, OneEdit, Zenon
<1>12. Shapes'
  BY <1>1, <1>4, <1>5, <1>6, <1>7, <1>10, <1>11, Zenon DEF IInv, Shapes
<1> QED BY <1>1, <1>4, <1>5, <1>6, <1>9, <1>11, <1>12, PassingOn, Zenon

\* One more edit is within the bound.
LEMMA OneMoreEdit ==
  ASSUME edits \in 0..MaxEdits, edits < MaxEdits, edits' = edits + 1
  PROVE  edits' \in 0..MaxEdits
  BY BoundsAssumption

\* An edit takes a snapshot of the mirror, which follows the record.
LEMMA TakeEntryStep ==
  ASSUME IInv, NEW i \in Instances, TakeEntry(i)
  PROVE  IInv'
<1> DEFINE d == [pc |-> "taken", entry |-> mirror[i]]
<1>1. /\ edits < MaxEdits /\ edits' = edits + 1
      /\ edit' = [edit EXCEPT ![i] = d]
      /\ UNCHANGED <<row, record, mirror, events, reading, call, flight, epochs, faults>>
  BY Zenon DEF TakeEntry
<1>2. d.entry = mirror[i]
  OBVIOUS
<1> HIDE DEF d
<1>3. Held(d, Copies, record, epochs, row.idg, row.ver)
  BY <1>2, Zenon DEF IInv, Held
<1>4. /\ edit' = [j \in Instances |-> edit'[j]]
      /\ \A j \in Instances : Held(edit'[j], Copies, record, epochs, row.idg, row.ver)
  BY <1>1, <1>3, OneEdit, Zenon
<1>5. edits' \in 0..MaxEdits
  BY <1>1, OneMoreEdit, Zenon DEF IInv, Shapes
<1>6. Shapes'
  BY <1>1, <1>4, <1>5, Zenon DEF IInv, Shapes
<1> QED BY <1>1, <1>4, <1>6, CallsStay, EventsStay, ReadingStays, MirrorsStay, PassingOn, Zenon

\* An edit puts its snapshot back, which follows the record although the mirror
\* may have been ahead of it.
LEMMA RestoreEntryStep ==
  ASSUME IInv, NEW i \in Instances, RestoreEntry(i)
  PROVE  IInv'
<1> DEFINE f == edit[i].entry
           d == [pc |-> "restored", entry |-> f]
<1>1. /\ edit[i] # NoEdit
      /\ mirror' = [mirror EXCEPT ![i] = f]
      /\ edit' = [edit EXCEPT ![i] = d] \/ edit' = [edit EXCEPT ![i] = NoEdit]
      /\ UNCHANGED <<row, record, events, reading, call, flight, epochs, faults, edits>>
  BY Zenon DEF RestoreEntry
<1>2. Follows(f, Copies, record, epochs) /\ Loadable(f, row.idg, row.ver)
  BY <1>1, Zenon DEF IInv, Held
<1> HIDE DEF f
<1>3. d.entry = f
  OBVIOUS
<1> HIDE DEF d
<1>4. /\ Held(d, Copies, record, epochs, row.idg, row.ver)
      /\ Held(NoEdit, Copies, record, epochs, row.idg, row.ver)
  BY <1>2, <1>3, Zenon DEF Held
<1>5. /\ edit' = [j \in Instances |-> edit'[j]]
      /\ \A j \in Instances : Held(edit'[j], Copies, record, epochs, row.idg, row.ver)
  BY <1>1, <1>4, OneEdit, Zenon
<1>6. /\ mirror' = [j \in Instances |-> mirror'[j]]
      /\ \A j \in Instances : Follows(mirror'[j], Copies, record, epochs)
      /\ \A j \in Instances : Loadable(mirror'[j], row.idg, row.ver)
  BY <1>1, <1>2, OneMirror, Zenon
<1>7. Shapes'
  BY <1>1, <1>5, <1>6, Zenon DEF IInv, Shapes
<1> QED BY <1>1, <1>5, <1>6, <1>7, CallsStay, EventsStay, ReadingStays, PassingOn, Zenon

\* An edit ends.
LEMMA EndEditStep ==
  ASSUME IInv, NEW i \in Instances, EndEdit(i)
  PROVE  IInv'
<1>1. /\ edit' = [edit EXCEPT ![i] = NoEdit]
      /\ UNCHANGED <<row, record, mirror, events, reading, call, flight, epochs, faults, edits>>
  BY Zenon DEF EndEdit
<1>2. Held(NoEdit, Copies, record, epochs, row.idg, row.ver)
  BY Zenon DEF Held
<1>3. /\ edit' = [j \in Instances |-> edit'[j]]
      /\ \A j \in Instances : Held(edit'[j], Copies, record, epochs, row.idg, row.ver)
  BY <1>1, <1>2, OneEdit, Zenon
<1>4. Shapes'
  BY <1>1, <1>3, Zenon DEF IInv, Shapes
<1> QED BY <1>1, <1>3, <1>4, CallsStay, EventsStay, ReadingStays, MirrorsStay, PassingOn, Zenon

\* Redis loses the record.
LEMMA LoseRecordStep ==
  ASSUME IInv, LoseRecord
  PROVE  IInv'
<1> DEFINE D == Copies \cup {NoRecord}
<1>1. /\ faults < MaxFaults /\ faults' = faults + 1 /\ record' = NoRecord
      /\ UNCHANGED <<row, mirror, events, reading, call, flight, epochs, edit, edits>>
  BY Zenon DEF LoseRecord
<1>2. epochs \in Nat /\ Coherent(Copies, record, epochs)
  BY Zenon DEF IInv, Shapes
<1>3. Copies' \subseteq D
  <2>1. /\ \A c \in Calls : call'[c].pc = "run" => call'[c].reply \in D
        /\ \A i \in Instances : SeqSet(events'[i]) \subseteq D
        /\ \A i \in Instances : reading'[i] # NoRead => reading'[i][1] \in D
    BY <1>1, CopiesAre, Zenon
  <2>2. record' \in D
    BY <1>1, Zenon
  <2> HIDE DEF D
  <2> QED BY <2>1, <2>2, CopiesWithin, Zenon
<1>4. Coherent(Copies', record', epochs')
  <2>1. Coherent(D, NoRecord, epochs)
    BY <1>2, LostCoherent, Zenon
  <2> HIDE DEF D
  <2>2. Coherent(Copies', NoRecord, epochs)
    BY <1>3, <2>1, FewerCoherent, Zenon
  <2> QED BY <1>1, <2>2, Zenon
<1>5. \A i \in Instances : Follows(mirror'[i], Copies', record', epochs')
  <2>1. \A i \in Instances : Follows(mirror[i], Copies, record, epochs)
    BY Zenon DEF IInv
  <2>2. \A i \in Instances : Follows(mirror[i], D, NoRecord, epochs)
    BY <2>1, LostFollows, Zenon
  <2> HIDE DEF D
  <2>3. \A i \in Instances : Follows(mirror[i], Copies', NoRecord, epochs)
    BY <1>3, <2>2, FewerFollows, Zenon
  <2> QED BY <1>1, <2>3, Zenon
<1>6. faults' \in 0..MaxFaults
  BY <1>1, OneFault, Zenon DEF IInv, Shapes
<1>7. Shapes'
  BY <1>1, <1>6, Zenon DEF IInv, Shapes
<1>8. \A c \in Calls : Whole(call'[c], c \in flight')
  BY <1>1, CallsStay, Zenon
<1>9. \A i \in Instances : Loadable(mirror'[i], row'.idg, row'.ver)
  BY <1>1, Zenon DEF IInv
<1>10. \A i \in Instances : Held(edit'[i], Copies', record', epochs', row'.idg, row'.ver)
  <2>1. \A i \in Instances : Held(edit[i], Copies, record, epochs, row.idg, row.ver)
    BY Zenon DEF IInv
  <2>2. \A i \in Instances : Held(edit[i], D, NoRecord, epochs, row.idg, row.ver)
    BY <2>1, LostFollows, Zenon DEF Held
  <2> HIDE DEF D
  <2>3. \A i \in Instances : Held(edit[i], Copies', NoRecord, epochs, row.idg, row.ver)
    BY <1>3, <2>2, FewerFollows, Zenon DEF Held
  <2> QED BY <1>1, <2>3, Zenon
<1> QED BY <1>4, <1>5, <1>7, <1>8, <1>9, <1>10, Zenon DEF IInv

\* The calls after a script: its own holds the record, or was over.
LEMMA ScriptCalls ==
  ASSUME IInv, NEW c \in Calls, Script(c), NEW s, s = Scripted(record, call[c], epochs + 1)
  PROVE  /\ call' = [d \in Calls |-> call'[d]]
         /\ \A d \in Calls : Whole(call'[d], d \in flight')
         /\ \A d \in Calls : call'[d].pc = "run" => call'[d].reply \in Copies \cup {s}
<1> DEFINE k == call[c]
           g == [k EXCEPT !.pc = "run", !.reply = s]
           o == [pc |-> "done", on |-> k.on]
<1>1. /\ c \in flight /\ flight' = flight \ {c}
      /\ call' = IF call[c].pc = "sent"
                   THEN [call EXCEPT ![c].pc = "run", ![c].reply = s]
                   ELSE [call EXCEPT ![c] = o]
  BY Zenon DEF Script
<1>2. call = [d \in Calls |-> call[d]] /\ \A d \in Calls : Whole(call[d], d \in flight)
  BY Zenon DEF IInv, Shapes
<1>3. IsCall(k)
  BY <1>1, <1>2, Zenon DEF Whole
<1>4. IsCall(g) /\ g.pc = "run" /\ g.reply = s
  <2> HIDE DEF k
  <2>1. g = [k EXCEPT !.pc = "run", !.reply = s]
    OBVIOUS
  <2> HIDE DEF g
  <2>2. g = [id |-> k.id, pc |-> "run", on |-> k.on, op |-> k.op, idg |-> k.idg, ref |-> k.ref,
             reply |-> s]
    BY <1>3, <2>1, Zenon DEF IsCall
  <2> QED BY <2>2 DEF IsCall
<1>5. o.pc \notin {"ref", "sent", "run"} /\ o.pc # "run"
  OBVIOUS
<1>6. call' = [call EXCEPT ![c] = g] \/ call' = [call EXCEPT ![c] = o]
  <2>1. CASE call[c].pc = "sent"
    <3>1. call' = [call EXCEPT ![c].pc = "run", ![c].reply = s]
      BY <1>1, <2>1, Zenon
    <3> QED BY <1>2, <3>1, Zenon
  <2>2. CASE call[c].pc # "sent"
    BY <1>1, <2>2, Zenon
  <2> QED BY <2>1, <2>2
<1> HIDE DEF g, o, k
<1>7. /\ call' = [d \in Calls |-> call'[d]]
      /\ call'[c] = g \/ call'[c] = o
      /\ \A d \in Calls \ {c} : call'[d] = call[d]
  BY <1>2, <1>6, Zenon
<1>8. ASSUME NEW d \in Calls
      PROVE  /\ Whole(call'[d], d \in flight')
             /\ call'[d].pc = "run" => call'[d].reply \in Copies \cup {s}
  <2>1. CASE d = c
    <3>1. c \notin flight'
      BY <1>1, Zenon
    <3>2. CASE call'[c] = g
      BY <1>4, <2>1, <3>2, Zenon DEF Whole
    <3>3. CASE call'[c] = o
      BY <1>5, <2>1, <3>1, <3>3, Zenon DEF Whole
    <3> QED BY <1>7, <3>2, <3>3, Zenon
  <2>2. CASE d # c
    <3>1. call'[d] = call[d] /\ (d \in flight' => d \in flight) /\ Whole(call[d], d \in flight)
      BY <1>1, <1>2, <1>7, <2>2, Zenon
    <3>2. call[d].pc = "run" => call[d].reply \in Copies
      BY CopiesAre, Zenon
    <3> QED BY <3>1, <3>2, Zenon DEF Whole
  <2> QED BY <2>1, <2>2
<1> QED BY <1>7, <1>8, Zenon

\* The script runs.
LEMMA ScriptStep ==
  ASSUME IInv, NEW c \in Calls, Script(c)
  PROVE  IInv'
<1> DEFINE s == Scripted(record, call[c], epochs + 1)
           D == Copies \cup {s}
<1>1. /\ flight' = flight \ {c} /\ record' = s /\ epochs' = Later(epochs, s.ep)
      /\ events' = [i \in Instances |-> IF i # call[c].on /\ s.ver # record.ver
                                          THEN Append(events[i], s) ELSE events[i]]
      /\ UNCHANGED <<row, mirror, reading, faults, edit, edits>>
  BY Zenon DEF Script
<1>2. /\ epochs \in Nat /\ Coherent(Copies, record, epochs) /\ flight \subseteq Calls
      /\ \A i \in Instances : IsSeq(events[i])
      /\ \A i \in Instances : Follows(mirror[i], Copies, record, epochs)
      /\ \A i \in Instances : Held(edit[i], Copies, record, epochs, row.idg, row.ver)
  BY Zenon DEF IInv, Shapes
<1>3. record \in Copies /\ IsRecord(record)
  BY <1>2, CopiesAre, Zenon DEF Coherent
<1>4. Fresh(record, s, epochs) /\ IsRecord(s)
  BY <1>2, <1>3, ScriptIsFresh, Zenon
<1>0. s = Scripted(record, call[c], epochs + 1)
  OBVIOUS
<1> HIDE DEF s
<1>5. /\ call' = [d \in Calls |-> call'[d]]
      /\ \A d \in Calls : Whole(call'[d], d \in flight')
      /\ \A d \in Calls : call'[d].pc = "run" => call'[d].reply \in D
  BY <1>0, ScriptCalls
<1>6. /\ events' = [i \in Instances |-> events'[i]]
      /\ \A i \in Instances : events'[i] = events[i] \/ events'[i] = Append(events[i], s)
  BY <1>1, Zenon
<1>7. \A i \in Instances : IsSeq(events'[i]) /\ SeqSet(events'[i]) \subseteq D
  <2> TAKE i \in Instances
  <2>1. SeqSet(events[i]) \subseteq Copies /\ IsSeq(events[i])
    BY <1>2, CopiesAre, Zenon
  <2>2. IsSeq(Append(events[i], s)) /\ SeqSet(Append(events[i], s)) \subseteq SeqSet(events[i]) \cup {s}
    BY <2>1, AppendSeq, Zenon
  <2> QED BY <1>6, <2>1, <2>2, Zenon
<1>8. Copies' \subseteq D
  <2>1. /\ \A i \in Instances : reading'[i] # NoRead => reading'[i][1] \in D
        /\ record' \in D
    BY <1>1, CopiesAre, Zenon
  <2> HIDE DEF D
  <2> QED BY <1>5, <1>7, <2>1, CopiesWithin, Zenon
<1>9. Coherent(Copies', record', epochs')
  <2>1. Coherent(D, s, Later(epochs, s.ep))
    BY <1>2, <1>3, <1>4, FreshCoherent, Zenon
  <2> HIDE DEF D
  <2>2. Coherent(Copies', s, Later(epochs, s.ep))
    BY <1>8, <2>1, FewerCoherent, Zenon
  <2> QED BY <1>1, <2>2, Zenon
<1>10. \A i \in Instances : Follows(mirror'[i], Copies', record', epochs')
  <2>1. \A i \in Instances : Follows(mirror[i], D, s, Later(epochs, s.ep))
    BY <1>2, <1>3, <1>4, FreshFollows, Zenon
  <2> HIDE DEF D
  <2>2. \A i \in Instances : Follows(mirror[i], Copies', s, Later(epochs, s.ep))
    BY <1>8, <2>1, FewerFollows, Zenon
  <2> QED BY <1>1, <2>2, Zenon
<1>11. epochs' \in Nat /\ flight' \subseteq Calls
  <2>1. s.ep \in Nat
    BY <1>4, Zenon DEF IsRecord
  <2>2. Later(epochs, s.ep) \in Nat
    BY <1>2, <2>1, Zenon DEF Later
  <2> QED BY <1>1, <1>2, <2>2, Zenon
<1>12. Shapes'
  BY <1>1, <1>5, <1>6, <1>7, <1>11, Zenon DEF IInv, Shapes
<1>13. \A i \in Instances : Loadable(mirror'[i], row'.idg, row'.ver)
  BY <1>1, Zenon DEF IInv
<1>14. \A i \in Instances : Held(edit'[i], Copies', record', epochs', row'.idg, row'.ver)
  <2>1. \A i \in Instances : Held(edit[i], D, s, Later(epochs, s.ep), row.idg, row.ver)
    BY <1>2, <1>3, <1>4, FreshFollows, Zenon DEF Held
  <2> HIDE DEF D
  <2>2. \A i \in Instances : Held(edit[i], Copies', s, Later(epochs, s.ep), row.idg, row.ver)
    BY <1>8, <2>1, FewerFollows, Zenon DEF Held
  <2> QED BY <1>1, <2>2, Zenon
<1> QED BY <1>5, <1>9, <1>10, <1>12, <1>13, <1>14, Zenon DEF IInv

-----------------------------------------------------------------------------
(* The theorems. *)

\* A stuttering step changes nothing.
LEMMA StutterInv ==
  ASSUME IInv, UNCHANGED vars
  PROVE  IInv'
<1>1. UNCHANGED <<row, record, mirror, events, reading, call, flight, epochs, faults, edit, edits>>
  BY Zenon DEF vars
<1>2. Shapes'
  BY <1>1, Zenon DEF IInv, Shapes
<1>3. \A i \in Instances : Loadable(mirror'[i], row'.idg, row'.ver)
  BY <1>1, MirrorsStay, Zenon
<1> QED BY <1>1, <1>2, <1>3, CallsStay, EventsStay, ReadingStays, MirrorsStay, EditsStay, PassingOn,
           Zenon

\* Every step keeps the invariant.
LEMMA NextInv == IInv /\ [Next]_vars => IInv'
<1> SUFFICES ASSUME IInv, [Next]_vars PROVE IInv'
  OBVIOUS
<1>1. CASE \E c \in Calls : CallStep(c)
  <2>1. PICK c \in Calls : CallStep(c)
    BY <1>1, Zenon
  <2>2. \/ \E i \in Instances, op \in Ops[c] : Capture(c, i, op)
        \/ Send(c) \/ Script(c) \/ Reply(c) \/ Unavailable(c) \/ ScriptLost(c)
    BY <2>1, Zenon DEF CallStep
  <2>3. ASSUME NEW i \in Instances, NEW op \in Ops[c], Capture(c, i, op) PROVE IInv'
    BY <2>3, CaptureStep, Zenon
  <2> QED BY <2>2, <2>3, SendStep, ScriptStep, ReplyStep, UnavailableStep, ScriptLostStep, Zenon
<1>2. CASE \E i \in Instances : MirrorStep(i) \/ EditStep(i) \/ Reload(i) \/ Restart(i)
  <2>1. PICK i \in Instances : MirrorStep(i) \/ EditStep(i) \/ Reload(i) \/ Restart(i)
    BY <1>2, Zenon
  <2>2. \/ Handle(i) \/ EventLost(i) \/ HydrateReads(i) \/ HydrateApplies(i)
        \/ TakeEntry(i) \/ RestoreEntry(i) \/ EndEdit(i)
        \/ Reload(i) \/ Restart(i)
    BY <2>1, Zenon DEF MirrorStep, EditStep
  <2> QED BY <2>2, HandleStep, EventLostStep, HydrateReadsStep, HydrateAppliesStep,
             TakeEntryStep, RestoreEntryStep, EndEditStep, ReloadStep, RestartStep, Zenon
<1>3. CASE ChangeTarget \/ Rotate
  BY <1>3, RowStep, Zenon
<1>4. CASE LoseRecord
  BY <1>4, LoseRecordStep, Zenon
<1>5. CASE UNCHANGED vars
  BY <1>5, StutterInv, Zenon
<1> QED BY <1>1, <1>2, <1>3, <1>4, <1>5, Zenon DEF Next

\* The copies of the record stay coherent, and the mirrors follow them, in
\* every behaviour of the health of a credential.
THEOREM Invariant == Spec => []IInv
  BY InitInv, NextInv, PTL DEF Spec

\* The invariant bounds the variables.
LEMMA Bounds == IInv => TypeOK
<1> SUFFICES ASSUME IInv PROVE TypeOK
  OBVIOUS
<1>1. /\ row \in [idg : 1..MaxIdentity, ver : 1..MaxSecret] /\ epochs \in Nat
      /\ flight \subseteq Calls /\ faults \in 0..MaxFaults /\ edits \in 0..MaxEdits
  BY Zenon DEF IInv, Shapes
<1>2. row.idg \in 1..MaxIdentity /\ row.ver \in 1..MaxSecret
  BY <1>1
<1>3. record.ep \in Nat /\ record.ver \in Nat /\ record.ep <= epochs
  <2>1. record \in Copies /\ Coherent(Copies, record, epochs)
    BY CopiesAre, Zenon DEF IInv
  <2> QED BY <2>1, Zenon DEF Coherent, IsRecord
<1>4. record.ep \in 0..epochs
  BY <1>1, <1>3
<1>5. ASSUME NEW i \in Instances
      PROVE  /\ mirror[i].ep \in 0..epochs
             /\ mirror[i].idg \in 1..row.idg /\ mirror[i].ver \in 1..row.ver
             /\ record.ep # 0 /\ mirror[i].ep = record.ep => mirror[i].sv \in 1..record.ver
  <2>1. mirror[i].idg \in 1..row.idg /\ mirror[i].ver \in 1..row.ver
    BY Zenon DEF IInv, Loadable
  <2>2. /\ mirror[i].ep \in Nat /\ mirror[i].sv \in Nat /\ mirror[i].ep <= epochs
        /\ record.ep # 0 /\ mirror[i].ep = record.ep
             => mirror[i].sv >= 1 /\ mirror[i].sv <= record.ver
    BY Zenon DEF IInv, Follows, IsEntry
  <2>3. mirror[i].ep \in 0..epochs
    BY <1>1, <2>2
  <2>4. record.ep # 0 /\ mirror[i].ep = record.ep => mirror[i].sv \in 1..record.ver
    BY <1>3, <2>2
  <2> QED BY <2>1, <2>3, <2>4
<1> QED BY <1>1, <1>2, <1>4, <1>5, Zenon DEF TypeOK

\* No mirror is ahead of the database or of the record, and no epoch is used
\* before it is drawn.
THEOREM NoMirrorIsAhead == Spec => []TypeOK
  BY Invariant, Bounds, PTL

\* "the store bumps the version on every change, so it carries the same
\* content" (shared_health.go:83-84): two copies of the record of one epoch and
\* version are equal, and a mirror that no local fallback touched is such a copy.
THEOREM VersionIsContent == Spec => []VersionDeterminesContent
<1>1. IInv => VersionDeterminesContent
  <2> SUFFICES ASSUME IInv PROVE VersionDeterminesContent
    OBVIOUS
  <2>1. \A a, b \in Copies : a.ep # 0 /\ a.ep = b.ep /\ a.ver = b.ver => a = b
    BY Zenon DEF IInv, Coherent
  <2>2. \A i \in Instances : mirror[i].ep # 0 /\ ~mirror[i].local =>
            \A a \in Copies : Agrees(mirror[i], a)
    BY Zenon DEF IInv, Follows
  <2>3. ASSUME NEW i \in Instances, NEW a \in Copies, mirror[i].ep # 0, ~mirror[i].local,
               a.ep = mirror[i].ep, a.ver = mirror[i].sv
        PROVE  a.h = mirror[i].h /\ a.idg = mirror[i].idg
    BY <2>2, <2>3, Zenon DEF Agrees
  <2> QED BY <2>1, <2>3, Zenon DEF VersionDeterminesContent
<1> QED BY Invariant, <1>1, PTL

\* The entry f does not go back from e.
NotBack(e, f) == e.ep # 0 /\ f.ep = e.ep => f.sv >= e.sv

\* A mirror that stays is not behind itself.
LEMMA StaysNotBack ==
  ASSUME NEW e, IsEntry(e), NEW f, f.ep = e.ep /\ f.sv = e.sv
  PROVE  NotBack(e, f)
<1>1. e.sv \in Nat
  BY Zenon DEF IsEntry
<1>2. e.sv >= e.sv
  BY <1>1
<1> QED BY <1>2, Zenon DEF NotBack

\* An entry that was reset is of no epoch.
LEMMA ResetNotBack ==
  ASSUME NEW e, NEW f, f.ep = 0
  PROVE  NotBack(e, f)
  BY Zenon DEF NotBack

\* Mirroring compares the version before it takes a copy over.
LEMMA MirroredNotBack ==
  ASSUME NEW e, IsEntry(e), NEW a, IsRecord(a)
  PROVE  NotBack(e, Mirrored(e, a))
<1> DEFINE f == Mirrored(e, a)
<1>1. \/ f = e
      \/ f = Entry(e.idg, e.ver)
      \/ f.ep = a.ep /\ f.sv = a.ver /\ (a.ep = e.ep => a.ver >= e.sv)
  BY MirroredCases
<1> HIDE DEF f
<1>2. CASE f = e
  BY <1>2, StaysNotBack, Zenon DEF f
<1>3. CASE f = Entry(e.idg, e.ver)
  <2>1. f.ep = 0
    BY <1>3 DEF Entry
  <2> QED BY <2>1, ResetNotBack, Zenon DEF f
<1>4. CASE f.ep = a.ep /\ f.sv = a.ver /\ (a.ep = e.ep => a.ver >= e.sv)
  <2>1. NotBack(e, f)
    BY <1>4, Zenon DEF NotBack
  <2> QED BY <2>1, Zenon DEF f
<1> QED BY <1>1, <1>2, <1>3, <1>4, Zenon

\* No mirror goes back when the one that changes does not.
LEMMA OneNotBack ==
  ASSUME IInv, NEW i, NEW f, mirror' = [mirror EXCEPT ![i] = f],
         i \in Instances => NotBack(mirror[i], f)
  PROVE  \A j \in Instances : NotBack(mirror[j], mirror'[j])
<1>1. mirror = [j \in Instances |-> mirror[j]] /\ \A j \in Instances : IsEntry(mirror[j])
  BY Zenon DEF IInv, Shapes, Follows
<1>2. /\ i \in Instances => mirror'[i] = f
      /\ \A j \in Instances \ {i} : mirror'[j] = mirror[j]
  BY <1>1, Zenon
<1> TAKE j \in Instances
<1>3. CASE j = i
  BY <1>2, <1>3, Zenon
<1>4. CASE j # i
  <2>1. mirror'[j] = mirror[j]
    BY <1>2, <1>4, Zenon
  <2> QED BY <1>1, <2>1, StaysNotBack, Zenon
<1> QED BY <1>3, <1>4

\* The step leaves the mirror of i at the snapshot of its edit.
PutBack(i) == edit[i] # NoEdit /\ mirror'[i] = edit[i].entry

\* No step takes a mirror back, except to the snapshot of an edit.
LEMMA StepNotBack ==
  ASSUME IInv, [Next]_vars
  PROVE  \A i \in Instances : NotBack(mirror[i], mirror'[i]) \/ PutBack(i)
<1>1. /\ \A i \in Instances : IsEntry(mirror[i]) /\ Follows(mirror[i], Copies, record, epochs)
      /\ \A a \in Copies : IsRecord(a)
      /\ epochs \in Nat
  BY Zenon DEF IInv, Shapes, Follows, Coherent
<1>2. ASSUME UNCHANGED mirror
      PROVE  \A j \in Instances : NotBack(mirror[j], mirror'[j])
  BY <1>1, <1>2, StaysNotBack, Zenon
<1>3. ASSUME NEW i, NEW a \in Copies, mirror' = [mirror EXCEPT ![i] = Mirrored(mirror[i], a)]
      PROVE  \A j \in Instances : NotBack(mirror[j], mirror'[j])
  <2>1. i \in Instances => NotBack(mirror[i], Mirrored(mirror[i], a))
    BY <1>1, MirroredNotBack, Zenon
  <2> QED BY <1>3, <2>1, OneNotBack, Zenon
<1>4. ASSUME NEW c \in Calls, CallStep(c)
      PROVE  \A j \in Instances : NotBack(mirror[j], mirror'[j])
  <2>1. CASE \/ \E i \in Instances, op \in Ops[c] : Capture(c, i, op)
             \/ Send(c) \/ Script(c) \/ ScriptLost(c)
    <3>1. UNCHANGED mirror
      BY <2>1, Zenon DEF Capture, Send, Script, ScriptLost
    <3> QED BY <1>2, <3>1
  <2>2. CASE Reply(c)
    <3>1. /\ call[c].pc = "run"
          /\ mirror' = [mirror EXCEPT ![call[c].on] = Mirrored(mirror[call[c].on], call[c].reply)]
      BY <2>2, Zenon DEF Reply
    <3>2. call[c].reply \in Copies
      BY <3>1, CopiesAre, Zenon
    <3> QED BY <1>3, <3>1, <3>2, Zenon
  <2>3. CASE Unavailable(c)
    <3> DEFINE i == call[c].on
               f == FellBack(mirror[i], call[c])
    <3>1. mirror' = [mirror EXCEPT ![i] = f]
      BY <2>3, Zenon DEF Unavailable
    <3>2. ASSUME i \in Instances PROVE NotBack(mirror[i], f)
      <4>1. Follows(mirror[i], Copies, record, epochs) /\ IsEntry(mirror[i])
        BY <1>1, <3>2, Zenon
      <4> HIDE DEF i
      <4>2. f.ep = mirror[i].ep /\ f.sv = mirror[i].sv
        BY <4>1, FellBackFollows
      <4> QED BY <4>1, <4>2, StaysNotBack, Zenon
    <3> HIDE DEF i, f
    <3> QED BY <3>1, <3>2, OneNotBack, Zenon
  <2> QED BY <1>4, <2>1, <2>2, <2>3, Zenon DEF CallStep
<1>5. ASSUME NEW i \in Instances, MirrorStep(i)
      PROVE  \A j \in Instances : NotBack(mirror[j], mirror'[j])
  <2>1. CASE EventLost(i) \/ HydrateReads(i)
    <3>1. UNCHANGED mirror
      BY <2>1, Zenon DEF EventLost, HydrateReads
    <3> QED BY <1>2, <3>1
  <2>2. CASE Handle(i)
    <3>1. /\ events[i] # <<>>
          /\ mirror' = [mirror EXCEPT ![i] = Mirrored(mirror[i], Head(events[i]))]
          /\ events' = [events EXCEPT ![i] = Tail(events[i])]
      BY <2>2, Zenon DEF Handle
    <3>2. Head(events[i]) \in Copies
      BY <3>1, OneEventLess, Zenon
    <3> QED BY <1>3, <3>1, <3>2, Zenon
  <2>3. CASE HydrateApplies(i)
    <3>1. /\ reading[i] # NoRead
          /\ mirror' = [mirror EXCEPT ![i] = Mirrored(mirror[i], reading[i][1])]
      BY <2>3, Zenon DEF HydrateApplies
    <3>2. reading[i][1] \in Copies
      BY <3>1, CopiesAre, Zenon
    <3> QED BY <1>3, <3>1, <3>2, Zenon
  <2> QED BY <1>5, <2>1, <2>2, <2>3, Zenon DEF MirrorStep
<1>6. ASSUME NEW i \in Instances, Reload(i)
      PROVE  \A j \in Instances : NotBack(mirror[j], mirror'[j])
  <2> DEFINE f == Loaded(mirror[i])
  <2>1. mirror' = [mirror EXCEPT ![i] = f]
    BY <1>6, Zenon DEF Reload
  <2>2. f.ep # 0 => f.ep = mirror[i].ep /\ f.sv = mirror[i].sv
    BY <1>1, LoadedFollows
  <2> HIDE DEF f
  <2>3. NotBack(mirror[i], f)
    BY <1>1, <2>2, StaysNotBack, ResetNotBack, Zenon
  <2> QED BY <2>1, <2>3, OneNotBack, Zenon
<1>7. ASSUME NEW i \in Instances, Restart(i)
      PROVE  \A j \in Instances : NotBack(mirror[j], mirror'[j])
  <2> DEFINE f == Entry(row.idg, row.ver)
  <2>1. mirror' = [mirror EXCEPT ![i] = f]
    BY <1>7, Zenon DEF Restart
  <2>2. f.ep = 0
    BY DEF Entry
  <2> HIDE DEF f
  <2>3. NotBack(mirror[i], f)
    BY <2>2, ResetNotBack, Zenon
  <2> QED BY <2>1, <2>3, OneNotBack, Zenon
<1>8. CASE ChangeTarget \/ Rotate \/ LoseRecord \/ UNCHANGED vars
  <2>1. UNCHANGED mirror
    BY <1>8, Zenon DEF ChangeTarget, Rotate, LoseRecord, vars
  <2> QED BY <1>2, <2>1
<1>9. ASSUME NEW i \in Instances, EditStep(i)
      PROVE  \A j \in Instances : NotBack(mirror[j], mirror'[j]) \/ PutBack(j)
  <2>1. CASE TakeEntry(i) \/ EndEdit(i)
    <3>1. UNCHANGED mirror
      BY <2>1, Zenon DEF TakeEntry, EndEdit
    <3> QED BY <1>2, <3>1, Zenon
  <2>2. CASE RestoreEntry(i)
    <3>1. edit[i] # NoEdit /\ mirror' = [mirror EXCEPT ![i] = edit[i].entry]
      BY <2>2, Zenon DEF RestoreEntry
    <3>2. mirror = [j \in Instances |-> mirror[j]]
      BY Zenon DEF IInv, Shapes
    <3>3. /\ mirror'[i] = edit[i].entry
          /\ \A j \in Instances \ {i} : mirror'[j] = mirror[j]
      BY <3>1, <3>2, Zenon
    <3>4. PutBack(i)
      BY <3>1, <3>3, Zenon DEF PutBack
    <3>5. \A j \in Instances \ {i} : NotBack(mirror[j], mirror'[j])
      BY <1>1, <3>3, StaysNotBack, Zenon
    <3> QED BY <3>4, <3>5, Zenon
  <2> QED BY <1>9, <2>1, <2>2, Zenon DEF EditStep
<1> QED BY <1>4, <1>5, <1>6, <1>7, <1>8, <1>9, Zenon DEF Next

\* "within one epoch an older version never applies, so reordered deliveries
\* converge" (shared_health.go:82-83): whatever the order in which replies,
\* events and reads arrive, and whatever falls back, restarts or reloads in
\* between, a mirror goes back within an epoch of the record only when an edit
\* at its instance puts the snapshot back that it took before.
THEOREM NeverBack == Spec => MirrorsDoNotGoBack
<1>1. ASSUME IInv, IInv', [Next]_vars, NEW i \in Instances, mirror[i].ep # 0,
             mirror'[i].ep = mirror[i].ep, mirror'[i].sv < mirror[i].sv
      PROVE  edit[i] # NoEdit /\ mirror'[i] = edit[i].entry
  <2>1. NotBack(mirror[i], mirror'[i]) \/ PutBack(i)
    BY <1>1, StepNotBack, Zenon
  <2>2. mirror[i].sv \in Nat /\ mirror'[i].sv \in Nat
    BY <1>1, Zenon DEF IInv, Follows, IsEntry
  <2>3. ~(mirror'[i].sv >= mirror[i].sv)
    BY <1>1, <2>2
  <2>4. ~NotBack(mirror[i], mirror'[i])
    BY <1>1, <2>3, Zenon DEF NotBack
  <2> QED BY <2>1, <2>4, Zenon DEF PutBack
<1>2. IInv /\ IInv' /\ [Next]_vars =>
        [\A i \in Instances :
            /\ mirror[i].ep # 0 /\ mirror'[i].ep = mirror[i].ep
            /\ mirror'[i].sv < mirror[i].sv
            => edit[i] # NoEdit /\ mirror'[i] = edit[i].entry]_vars
  BY <1>1, Zenon
<1> QED BY Invariant, <1>2, PTL DEF Spec, MirrorsDoNotGoBack

-----------------------------------------------------------------------------
(* Recoveries.  While the record is not lost, no local fallback is applied  *)
(* and the identity stays, the failure generation of the record only grows, *)
(* and a reference that is as new as the record knows whose it is.          *)

\* The first identity holds and every mirror is a copy of the record.
Undisturbed == row.idg = 1 /\ \A i \in Instances : ~mirror[i].local

\* A health with its fields; whoever is blacklisted has failed.
IsHealth(h) ==
    /\ h = [cd |-> h.cd, bl |-> h.bl, fc |-> h.fc, fg |-> h.fg, mg |-> h.mg, m |-> h.m]
    /\ h.fg \in Nat
    /\ h.bl => h.fg > 0

\* A health whose failure generation is not past n.
Within(h, n) == IsHealth(h) /\ h.fg <= n

\* A snapshot, if the edit d holds one, of the first identity and within n.
HeldWithin(d, n) == d # NoEdit => d.entry.idg = 1 /\ Within(d.entry.h, n)

\* What the call c, as k, knows of the record r: a recovery's reference is not
\* past it, and one as new was taken after the call that brought it there.
Knows(k, c, r) ==
    /\ k.id = c /\ k.on \in Instances /\ k.idg = 1 /\ k.ref.idg = 1
    /\ k.op.op = "recover" =>
          /\ k.ref.fg \in Nat /\ k.ref.fg > 0 /\ k.ref.fg <= r.h.fg
          /\ k.ref.fg = r.h.fg => r.gen \in k.ref.past

\* The call has still to run its script.
Pending(k, inflight) == k.pc \in {"ref", "sent"} \/ inflight

Generations ==
    /\ IsHealth(record.h)
    /\ record.ep = 0 => record.h.fg = 0
    /\ record.ep # 0 => record.idg = 1 /\ record.gen \in Recorded
    /\ \A a \in Copies : Within(a.h, record.h.fg)
    /\ \A i \in Instances : mirror[i].idg = 1 /\ Within(mirror[i].h, record.h.fg)
    /\ \A i \in Instances : HeldWithin(edit[i], record.h.fg)
    /\ \A c \in Calls : Pending(call[c], c \in flight) => Knows(call[c], c, record)

-----------------------------------------------------------------------------
(* What an operation does to the failure generation. *)

\* A credential nobody has decided on has not failed.
LEMMA HealthyIs == IsHealth(Healthy) /\ Healthy.fg = 0 /\ Healthy.bl = FALSE
  BY DEF Healthy, IsHealth

\* A health made of its fields.
LEMMA MadeHealth ==
  ASSUME NEW cd, NEW bl, NEW fc, NEW fg \in Nat, NEW mg, NEW m, bl => fg > 0
  PROVE  LET h == [cd |-> cd, bl |-> bl, fc |-> fc, fg |-> fg, mg |-> mg, m |-> m]
         IN  IsHealth(h) /\ h.fg = fg /\ h.bl = bl
  BY DEF IsHealth

\* A health that another leaves all but the blacklist and the failures of.
LEMMA KeepsGeneration ==
  ASSUME NEW h, IsHealth(h), NEW cd, NEW mg, NEW m, NEW g,
         g = [cd |-> cd, bl |-> h.bl, fc |-> h.fc, fg |-> h.fg, mg |-> mg, m |-> m]
  PROVE  IsHealth(g) /\ g.fg >= h.fg
<1>1. h.fg \in Nat /\ (h.bl => h.fg > 0)
  BY Zenon DEF IsHealth
<1>2. IsHealth(g) /\ g.fg = h.fg
  BY <1>1, MadeHealth, Zenon
<1> QED BY <1>1, <1>2

\* A decision on failures moves the generation.
LEMMA MovesGeneration ==
  ASSUME NEW h, IsHealth(h), NEW cd, NEW bl, NEW fc, NEW n \in {1, 2}, NEW g,
         g = [cd |-> cd, bl |-> bl, fc |-> fc, fg |-> h.fg + n, mg |-> h.mg, m |-> h.m]
  PROVE  IsHealth(g) /\ g.fg >= h.fg
<1> DEFINE f == h.fg + n
<1>1. f \in Nat /\ f >= h.fg /\ (bl => f > 0)
  BY DEF IsHealth
<1>0. g = [cd |-> cd, bl |-> bl, fc |-> fc, fg |-> f, mg |-> h.mg, m |-> h.m]
  OBVIOUS
<1> HIDE DEF f
<1>2. IsHealth(g) /\ g.fg = f
  BY <1>0, <1>1, MadeHealth
<1> QED BY <1>1, <1>2, Zenon

\* A cooldown.
LEMMA CooldownGrows ==
  ASSUME NEW h, IsHealth(h), NEW until
  PROVE  IsHealth(Cooldown(h, until)) /\ Cooldown(h, until).fg >= h.fg
<1> DEFINE g == Cooldown(h, until)
           cd == Later(until, h.cd)
<1>1. g = [h EXCEPT !.cd = cd]
  BY Zenon DEF Cooldown
<1> HIDE DEF g, cd
<1>2. g = [cd |-> cd, bl |-> h.bl, fc |-> h.fc, fg |-> h.fg, mg |-> h.mg, m |-> h.m]
  BY <1>1, Zenon DEF IsHealth
<1>3. IsHealth(g) /\ g.fg >= h.fg
  BY <1>2, KeepsGeneration, Zenon
<1> QED BY <1>3, Zenon DEF g

\* Lifting the cooldown.
LEMMA UncooledGrows ==
  ASSUME NEW h, IsHealth(h)
  PROVE  LET g == [h EXCEPT !.cd = 0] IN IsHealth(g) /\ g.fg >= h.fg
<1> DEFINE g == [h EXCEPT !.cd = 0]
<1>1. g = [h EXCEPT !.cd = 0]
  OBVIOUS
<1> HIDE DEF g
<1>2. g = [cd |-> 0, bl |-> h.bl, fc |-> h.fc, fg |-> h.fg, mg |-> h.mg, m |-> h.m]
  BY <1>1, Zenon DEF IsHealth
<1>3. IsHealth(g) /\ g.fg >= h.fg
  BY <1>2, KeepsGeneration, Zenon
<1> QED BY <1>3, Zenon DEF g

\* A failure.
LEMMA FailGrows ==
  ASSUME NEW h, IsHealth(h)
  PROVE  IsHealth(Fail(h)) /\ Fail(h).fg >= h.fg
<1> DEFINE g == Fail(h)
           b == Threshold > 0 /\ h.fc + 1 >= Threshold /\ ~h.bl
           n == IF b THEN 2 ELSE 1
           bl == h.bl \/ b
           fc == h.fc + 1
<1>1. g = [h EXCEPT !.fc = fc, !.fg = h.fg + n, !.bl = bl]
  BY Zenon DEF Fail
<1>2. n \in {1, 2}
  <2> HIDE DEF b
  <2> QED OBVIOUS
<1> HIDE DEF g, n, bl, fc
<1>3. g = [cd |-> h.cd, bl |-> bl, fc |-> fc, fg |-> h.fg + n, mg |-> h.mg, m |-> h.m]
  BY <1>1, Zenon DEF IsHealth
<1>4. IsHealth(g) /\ g.fg >= h.fg
  BY <1>2, <1>3, MovesGeneration, Zenon
<1> QED BY <1>4, Zenon DEF g

\* A health is as old as itself.
LEMMA SameGrows ==
  ASSUME NEW h, IsHealth(h)
  PROVE  h.fg >= h.fg
  BY DEF IsHealth

\* A success.
LEMMA ClearFailureGrows ==
  ASSUME NEW h, IsHealth(h)
  PROVE  IsHealth(ClearFailure(h)) /\ ClearFailure(h).fg >= h.fg
<1>1. CASE h.fc = 0
  BY <1>1, SameGrows, Zenon DEF ClearFailure
<1>2. CASE h.fc # 0
  <2> DEFINE g == ClearFailure(h)
  <2>1. g = [h EXCEPT !.fc = 0, !.fg = h.fg + 1]
    BY <1>2, Zenon DEF ClearFailure
  <2> HIDE DEF g
  <2>2. g = [cd |-> h.cd, bl |-> h.bl, fc |-> 0, fg |-> h.fg + 1, mg |-> h.mg, m |-> h.m]
    BY <2>1, Zenon DEF IsHealth
  <2>3. 1 \in {1, 2}
    OBVIOUS
  <2>4. IsHealth(g) /\ g.fg >= h.fg
    BY <2>2, <2>3, MovesGeneration, Zenon
  <2> QED BY <2>4, Zenon DEF g
<1> QED BY <1>1, <1>2

\* A cooldown of a model.
LEMMA ModelCooldownGrows ==
  ASSUME NEW h, IsHealth(h), NEW x, NEW until, NEW now
  PROVE  LET g == ModelCooldown(h, x, until, now) IN IsHealth(g) /\ g.fg >= h.fg
<1> DEFINE m == [y \in Models |-> IF h.m[y] <= now THEN 0 ELSE h.m[y]]
           p == Pruned(h, now)
           n == [m EXCEPT ![x] = Later(until, m[x])]
           g == ModelCooldown(h, x, until, now)
<1>1. p = [h EXCEPT !.m = m]
  BY Zenon DEF Pruned
<1>2. g = [p EXCEPT !.m[x] = Later(until, p.m[x])]
  BY Zenon DEF ModelCooldown
<1> HIDE DEF p, m, g
<1>3. p = [cd |-> h.cd, bl |-> h.bl, fc |-> h.fc, fg |-> h.fg, mg |-> h.mg, m |-> m]
  BY <1>1, Zenon DEF IsHealth
<1>4. p.m = m
  BY <1>3, Zenon
<1>5. g = [p EXCEPT !.m = n]
  BY <1>2, <1>4, Zenon
<1> HIDE DEF n
<1>6. g = [cd |-> h.cd, bl |-> h.bl, fc |-> h.fc, fg |-> h.fg, mg |-> h.mg, m |-> n]
  BY <1>3, <1>5, Zenon
<1>7. IsHealth(g) /\ g.fg >= h.fg
  BY <1>6, KeepsGeneration, Zenon
<1> QED BY <1>7, Zenon DEF g

\* What one growth after another amounts to.
LEMMA GrowsOn ==
  ASSUME NEW a \in Nat, NEW b \in Nat, NEW c \in Nat, b >= a, c >= b
  PROVE  c >= a
  OBVIOUS

\* An operator lifts the runtime state.
LEMMA RestoreRuntimeGrows ==
  ASSUME NEW h, IsHealth(h)
  PROVE  IsHealth(RestoreRuntime(h)) /\ RestoreRuntime(h).fg >= h.fg
<1> DEFINE g == RestoreRuntime(h)
<1>1. g = [h EXCEPT !.cd = 0, !.bl = FALSE, !.fc = 0, !.fg = h.fg + 1]
  BY Zenon DEF RestoreRuntime
<1> HIDE DEF g
<1>2. g = [cd |-> 0, bl |-> FALSE, fc |-> 0, fg |-> h.fg + 1, mg |-> h.mg, m |-> h.m]
  BY <1>1, Zenon DEF IsHealth
<1>3. 1 \in {1, 2}
  OBVIOUS
<1>4. IsHealth(g) /\ g.fg >= h.fg
  BY <1>2, <1>3, MovesGeneration, Zenon
<1> QED BY <1>4, Zenon DEF g

\* An operator lifts the cooldowns of the models.
LEMMA ClearModelsGrows ==
  ASSUME NEW h, IsHealth(h)
  PROVE  IsHealth(ClearModels(h)) /\ ClearModels(h).fg >= h.fg
<1> DEFINE g == ClearModels(h)
           m == [x \in Models |-> 0]
           mg == h.mg + 1
<1>1. g = [h EXCEPT !.m = m, !.mg = mg]
  BY Zenon DEF ClearModels
<1> HIDE DEF g, m, mg
<1>2. g = [cd |-> h.cd, bl |-> h.bl, fc |-> h.fc, fg |-> h.fg, mg |-> mg, m |-> m]
  BY <1>1, Zenon DEF IsHealth
<1>3. IsHealth(g) /\ g.fg >= h.fg
  BY <1>2, KeepsGeneration, Zenon
<1> QED BY <1>3, Zenon DEF g

\* An operator restores one of them, both or neither.
LEMMA RestoreGrows ==
  ASSUME NEW h, IsHealth(h), NEW runtime, NEW models
  PROVE  LET g == Restore(h, runtime, models) IN IsHealth(g) /\ g.fg >= h.fg
<1> DEFINE r == IF runtime THEN RestoreRuntime(h) ELSE h
           g == IF models THEN ClearModels(r) ELSE r
<1>1. IsHealth(r) /\ r.fg >= h.fg
  BY RestoreRuntimeGrows, SameGrows, Zenon
<1> HIDE DEF r
<1>2. IsHealth(g) /\ g.fg >= r.fg
  BY <1>1, ClearModelsGrows, SameGrows, Zenon
<1>3. g = Restore(h, runtime, models)
  BY Zenon DEF Restore, r
<1> HIDE DEF g
<1>4. h.fg \in Nat /\ r.fg \in Nat /\ g.fg \in Nat
  BY <1>1, <1>2, Zenon DEF IsHealth
<1>5. IsHealth(g) /\ g.fg >= h.fg
  BY <1>1, <1>2, <1>4, GrowsOn, Zenon
<1> QED BY <1>3, <1>5, Zenon

\* A recovery.
LEMMA RecoverGrows ==
  ASSUME NEW h, IsHealth(h), NEW cooldown
  PROVE  IsHealth(Recover(h, cooldown)) /\ Recover(h, cooldown).fg >= h.fg
<1> DEFINE g == Recover(h, cooldown)
           cd == IF cooldown THEN 0 ELSE h.cd
<1>1. g = [h EXCEPT !.cd = cd, !.bl = FALSE, !.fc = 0, !.fg = h.fg + 1]
  BY Zenon DEF Recover
<1> HIDE DEF g, cd
<1>2. g = [cd |-> cd, bl |-> FALSE, fc |-> 0, fg |-> h.fg + 1, mg |-> h.mg, m |-> h.m]
  BY <1>1, Zenon DEF IsHealth
<1>3. 1 \in {1, 2}
  OBVIOUS
<1>4. IsHealth(g) /\ g.fg >= h.fg
  BY <1>2, <1>3, MovesGeneration, Zenon
<1> QED BY <1>4, Zenon DEF g

\* No operation takes the generation back.
LEMMA AppliedGrows ==
  ASSUME NEW h, IsHealth(h), NEW k
  PROVE  IsHealth(Applied(h, k)) /\ Applied(h, k).fg >= h.fg
<1> DEFINE g == Applied(h, k)
<1>1. \/ g = Cooldown(h, k.op.until)
      \/ g = Fail(h)
      \/ g = ClearFailure(h)
      \/ g = ModelCooldown(h, k.op.model, k.op.until, k.op.now)
      \/ g = Restore(h, k.op.runtime, k.op.models)
      \/ g = Recover(h, k.op.cooldown)
      \/ g = [h EXCEPT !.cd = 0]
      \/ g = h
  BY Zenon DEF Applied
<1> HIDE DEF g
<1>2. CASE g = Cooldown(h, k.op.until) \/ g = Fail(h) \/ g = ClearFailure(h)
  <2>1. IsHealth(g) /\ g.fg >= h.fg
    BY <1>2, CooldownGrows, FailGrows, ClearFailureGrows, Zenon
  <2> QED BY <2>1, Zenon DEF g
<1>3. CASE \/ g = ModelCooldown(h, k.op.model, k.op.until, k.op.now)
           \/ g = Restore(h, k.op.runtime, k.op.models)
  <2>1. IsHealth(g) /\ g.fg >= h.fg
    BY <1>3, ModelCooldownGrows, RestoreGrows, Zenon
  <2> QED BY <2>1, Zenon DEF g
<1>4. CASE g = Recover(h, k.op.cooldown) \/ g = [h EXCEPT !.cd = 0] \/ g = h
  <2>1. IsHealth(g) /\ g.fg >= h.fg
    BY <1>4, RecoverGrows, UncooledGrows, SameGrows, Zenon
  <2> QED BY <2>1, Zenon DEF g
<1> QED BY <1>1, <1>2, <1>3, <1>4, Zenon

\* The record a script starts from: the old one, or a healthy one of a new epoch.
LEMMA OpenedGrows ==
  ASSUME NEW r, IsRecord(r), IsHealth(r.h), r.ep = 0 => r.h.fg = 0, r.ep # 0 => r.idg = 1,
         NEW k, k.idg = 1, NEW n \in Nat
  PROVE  LET o == Opened(r, k, n + 1)
         IN  /\ IsRecord(o) /\ (r.ep = 0 => o # r) /\ (r.ep # 0 => o = r)
             /\ IsHealth(o.h) /\ o.h.fg = r.h.fg /\ o.idg = 1 /\ o.ep # 0
<1> DEFINE o == Opened(r, k, n + 1)
<1>1. IsRecord(o) /\ (r.ep = 0 => o.ep = n + 1 /\ o # r)
  BY OpenedIs
<1>2. /\ r.ep # 0 => o = r
      /\ r.ep = 0 => o.h = Healthy /\ o.idg = 1
  <2>1. r.ep # 0 => o = r
    BY Zenon DEF Opened
  <2>2. ASSUME r.ep = 0 PROVE o.h = Healthy /\ o.idg = 1
    <3>1. o = [NoRecord EXCEPT !.ep = n + 1, !.idg = k.idg]
      BY <2>2, Zenon DEF Opened
    <3> HIDE DEF o
    <3> QED BY <3>1 DEF NoRecord
  <2> QED BY <2>1, <2>2
<1>3. IsHealth(o.h) /\ o.h.fg = r.h.fg /\ o.idg = 1 /\ o.ep # 0
  <2>1. n + 1 # 0
    OBVIOUS
  <2> HIDE DEF o
  <2> QED BY <1>1, <1>2, <2>1, HealthyIs, Zenon
<1> QED BY <1>1, <1>2, <1>3, Zenon

\* What the script of the call k makes of the record r, when both are of the
\* first identity: the generation grows, whoever moves it is named, and a
\* recovery takes effect only at the generation it refers to.
LEMMA ScriptGrows ==
  ASSUME NEW r, IsRecord(r), IsHealth(r.h), r.ep = 0 => r.h.fg = 0, r.ep # 0 => r.idg = 1,
         NEW k, k.idg = 1, NEW n \in Nat, NEW s, s = Scripted(r, k, n + 1)
  PROVE  /\ IsHealth(s.h) /\ s.h.fg >= r.h.fg
         /\ s.ep # 0 /\ s.idg = 1
         /\ s.gen = k.id \/ (r.ep # 0 /\ s.gen = r.gen)
         /\ r.ep # 0 /\ s.h.fg = r.h.fg => s.gen = r.gen
         /\ k.op.op = "recover" /\ r.ep # 0 /\ s.h # r.h => r.h.fg = k.ref.fg
<1> DEFINE o == Opened(r, k, n + 1)
           h == IF Accepts(o, k) THEN Applied(o.h, k) ELSE o.h
           ver == o.ver + IF Moves(r, o, h, k) THEN 1 ELSE 0
           asv == IF k.op.op = "auth" /\ Accepts(o, k) THEN k.ref.ver ELSE o.asv
           gen == IF o # r \/ h.fg # o.h.fg THEN k.id ELSE o.gen
<1>1. /\ IsRecord(o) /\ (r.ep = 0 => o # r) /\ (r.ep # 0 => o = r)
      /\ IsHealth(o.h) /\ o.h.fg = r.h.fg /\ o.idg = 1 /\ o.ep # 0
  BY OpenedGrows
<1> HIDE DEF o
<1>2. IsHealth(h) /\ h.fg >= r.h.fg
  BY <1>1, AppliedGrows, SameGrows, Zenon
<1>3. k.op.op = "recover" /\ r.ep # 0 /\ h # r.h => r.h.fg = k.ref.fg
  <2> SUFFICES ASSUME k.op.op = "recover", r.ep # 0, h # r.h PROVE r.h.fg = k.ref.fg
    OBVIOUS
  <2>1. o = r /\ Accepts(r, k)
    BY <1>1, Zenon
  <2>2. /\ k.op.op # "cooldown" /\ k.op.op # "model_cooldown"
    BY SMT
  <2>3. Accepts(r, k) => r.h.fg = k.ref.fg
    BY <2>2, Zenon DEF Accepts
  <2> QED BY <2>1, <2>3
<1>4. s = [o EXCEPT !.h = h, !.ver = ver, !.asv = asv, !.gen = gen]
  BY Zenon DEF Scripted, o
<1> HIDE DEF h, ver, asv
<1>5. gen = k.id \/ (o = r /\ gen = r.gen)
  BY Zenon
<1>6. o = r /\ h.fg = r.h.fg => gen = r.gen
  BY Zenon
<1> HIDE DEF gen
<1>7. s = [ep |-> o.ep, ver |-> ver, idg |-> o.idg, h |-> h, asv |-> asv, gen |-> gen]
  BY <1>1, <1>4, Zenon DEF IsRecord
<1>8. s.ep = o.ep /\ s.idg = o.idg /\ s.h = h /\ s.gen = gen
  BY <1>7
<1> QED BY <1>1, <1>2, <1>3, <1>5, <1>6, <1>8, Zenon

-----------------------------------------------------------------------------
(* Each step keeps what is known of the generations. *)

\* A new entry is within any generation.
LEMMA EntryWithin ==
  ASSUME NEW n \in Nat, NEW idg, NEW ver
  PROVE  Entry(idg, ver).idg = idg /\ Within(Entry(idg, ver).h, n)
<1>1. Entry(idg, ver).idg = idg /\ Entry(idg, ver).h = Healthy
  BY DEF Entry
<1>2. 0 <= n
  OBVIOUS
<1>3. Within(Healthy, n)
  BY <1>2, HealthyIs, Zenon DEF Within
<1> QED BY <1>1, <1>3, Zenon

\* A mirror stays within the generation when it takes over a copy that is.
LEMMA MirroredWithin ==
  ASSUME NEW n \in Nat, NEW e, IsEntry(e), e.idg = 1, Within(e.h, n),
         NEW a, IsRecord(a), Within(a.h, n)
  PROVE  Mirrored(e, a).idg = 1 /\ Within(Mirrored(e, a).h, n)
<1> DEFINE f == Mirrored(e, a)
<1>1. f = e \/ f = Entry(e.idg, e.ver) \/ (f.h = a.h /\ f.idg = e.idg)
  BY MirroredCases
<1> HIDE DEF f
<1>2. f.idg = 1 /\ Within(f.h, n)
  <2>1. CASE f = e
    BY <2>1, Zenon
  <2>2. CASE f = Entry(e.idg, e.ver)
    BY <2>2, EntryWithin, Zenon
  <2>3. CASE f.h = a.h /\ f.idg = e.idg
    BY <2>3, Zenon
  <2> QED BY <1>1, <2>1, <2>2, <2>3, Zenon
<1> QED BY <1>2, Zenon DEF f

\* The calls that ran stay those that ran.
LEMMA RecordedStay ==
  ASSUME \A c \in Calls : \/ call'[c] = call[c]
                          \/ call'[c].pc \in {"run", "done"}
                          \/ call[c].pc \notin {"run", "done"}
  PROVE  Recorded \subseteq Recorded'
  BY Zenon DEF Recorded

\* A call that is over knows of the record what it knew while its script is on
\* its way.
LEMMA OverKnows ==
  ASSUME NEW c \in Calls, NEW r, Whole(call[c], c \in flight),
         Pending(call[c], c \in flight) => Knows(call[c], c, r)
  PROVE  Pending(Over(c), c \in flight) => Knows(Over(c), c, r)
<1> DEFINE k == call[c]
           g == [k EXCEPT !.pc = "done", !.reply = NoRecord]
<1>1. CASE c \in flight
  <2>1. IsCall(k) /\ Knows(k, c, r)
    BY <1>1, Zenon DEF Whole, Pending
  <2>2. g = [k EXCEPT !.pc = "done", !.reply = NoRecord] /\ Over(c) = g
    BY <1>1, Zenon DEF Over
  <2> HIDE DEF g, k
  <2>3. g = [id |-> k.id, pc |-> "done", on |-> k.on, op |-> k.op, idg |-> k.idg, ref |-> k.ref,
             reply |-> NoRecord]
    BY <2>1, <2>2, Zenon DEF IsCall
  <2>4. g.id = k.id /\ g.on = k.on /\ g.op = k.op /\ g.idg = k.idg /\ g.ref = k.ref
    BY <2>3
  <2>5. Knows(g, c, r)
    BY <2>1, <2>4, Zenon DEF Knows
  <2> QED BY <2>2, <2>5, Zenon
<1>2. CASE c \notin flight
  <2>1. Over(c).pc = "done"
    BY OverIs, Zenon
  <2>2. ~Pending(Over(c), c \in flight)
    BY <1>2, <2>1 DEF Pending
  <2> QED BY <2>2
<1> QED BY <1>1, <1>2

\* A step that keeps the record and only passes copies on keeps the generations
\* when the mirrors and the calls it leaves are within them.
LEMMA KeepsGenerations ==
  ASSUME Generations, record' = record,
         \A c \in Calls : call'[c].pc = "run" => call'[c].reply \in Copies,
         \A i \in Instances : SeqSet(events'[i]) \subseteq Copies,
         \A i \in Instances : reading'[i] # NoRead => reading'[i][1] \in Copies,
         Recorded \subseteq Recorded',
         \A i \in Instances : mirror'[i].idg = 1 /\ Within(mirror'[i].h, record.h.fg),
         \A i \in Instances : HeldWithin(edit'[i], record.h.fg),
         \A c \in Calls : Pending(call'[c], c \in flight') => Knows(call'[c], c, record)
  PROVE  Generations'
<1>1. record' \in Copies
  BY CopiesAre, Zenon
<1>2. Copies' \subseteq Copies
  BY <1>1, CopiesWithin, Zenon
<1>3. \A a \in Copies' : Within(a.h, record'.h.fg)
  BY <1>2, Zenon DEF Generations
<1>4. record'.ep # 0 => record'.idg = 1 /\ record'.gen \in Recorded'
  BY Zenon DEF Generations
<1>5. IsHealth(record'.h) /\ (record'.ep = 0 => record'.h.fg = 0)
  BY Zenon DEF Generations
<1> QED BY <1>3, <1>4, <1>5, Zenon DEF Generations

\* Calls that a step leaves alone.
LEMMA CallsKnow ==
  ASSUME Generations, UNCHANGED <<call, flight>>
  PROVE  /\ Recorded \subseteq Recorded'
         /\ \A c \in Calls : Pending(call'[c], c \in flight') => Knows(call'[c], c, record)
<1>1. Recorded \subseteq Recorded'
  BY RecordedStay, Zenon
<1>2. \A c \in Calls : Pending(call'[c], c \in flight') => Knows(call'[c], c, record)
  BY Zenon DEF Generations
<1> QED BY <1>1, <1>2

\* A step that changes one call to one that knows as much.
LEMMA OneKnows ==
  ASSUME IInv, Generations, NEW c \in Calls, NEW k, call' = [call EXCEPT ![c] = k],
         k.pc \in {"run", "done"} \/ call[c].pc \notin {"run", "done"},
         Pending(k, c \in flight') => Knows(k, c, record),
         \A d \in Calls : d \in flight' /\ d # c => d \in flight
  PROVE  /\ Recorded \subseteq Recorded'
         /\ \A d \in Calls : Pending(call'[d], d \in flight') => Knows(call'[d], d, record)
<1>1. call = [d \in Calls |-> call[d]]
  BY Zenon DEF IInv, Shapes
<1>2. call'[c] = k /\ \A d \in Calls \ {c} : call'[d] = call[d]
  BY <1>1, Zenon
<1>3. Recorded \subseteq Recorded'
  BY <1>2, RecordedStay, Zenon
<1>4. ASSUME NEW d \in Calls, Pending(call'[d], d \in flight') PROVE Knows(call'[d], d, record)
  <2>1. CASE d = c
    BY <1>2, <1>4, <2>1, Zenon
  <2>2. CASE d # c
    <3>1. call'[d] = call[d] /\ (d \in flight' => d \in flight)
      BY <1>2, <2>2, Zenon
    <3>2. Pending(call[d], d \in flight)
      BY <1>4, <3>1, Zenon DEF Pending
    <3> QED BY <3>1, <3>2, Zenon DEF Generations
  <2> QED BY <2>1, <2>2
<1> QED BY <1>3, <1>4

\* A call ends.
LEMMA EndKnows ==
  ASSUME IInv, Generations, NEW c \in Calls, call' = [call EXCEPT ![c] = Over(c)],
         flight' = flight
  PROVE  /\ Recorded \subseteq Recorded'
         /\ \A d \in Calls : Pending(call'[d], d \in flight') => Knows(call'[d], d, record)
<1>1. Whole(call[c], c \in flight)
  BY Zenon DEF IInv
<1>2. Over(c).pc \in {"run", "done"}
  BY <1>1, OverIs, Zenon
<1>3. Pending(call[c], c \in flight) => Knows(call[c], c, record)
  BY Zenon DEF Generations
<1>4. Pending(Over(c), c \in flight) => Knows(Over(c), c, record)
  BY <1>1, <1>3, OverKnows, Zenon
<1>5. Pending(Over(c), c \in flight') => Knows(Over(c), c, record)
  BY <1>4, Zenon
<1> HIDE DEF Over
<1> QED BY <1>2, <1>5, OneKnows, Zenon

\* Mirrors that a step leaves alone.
LEMMA MirrorsWithin ==
  ASSUME Generations, UNCHANGED mirror
  PROVE  \A i \in Instances : mirror'[i].idg = 1 /\ Within(mirror'[i].h, record.h.fg)
  BY Zenon DEF Generations

\* Edits that a step leaves alone.
LEMMA EditsWithin ==
  ASSUME Generations, UNCHANGED edit
  PROVE  \A i \in Instances : HeldWithin(edit'[i], record.h.fg)
  BY Zenon DEF Generations

\* A step that changes one edit to one whose snapshot is within the generation.
LEMMA OneEditWithin ==
  ASSUME IInv, Generations, NEW i \in Instances, NEW d, edit' = [edit EXCEPT ![i] = d],
         HeldWithin(d, record.h.fg)
  PROVE  \A j \in Instances : HeldWithin(edit'[j], record.h.fg)
<1>1. edit = [j \in Instances |-> edit[j]]
  BY Zenon DEF IInv, Shapes
<1>2. edit'[i] = d /\ \A j \in Instances \ {i} : edit'[j] = edit[j]
  BY <1>1, Zenon
<1> QED BY <1>2, Zenon DEF Generations

\* A step that changes one mirror to one that is within the generation.
LEMMA OneWithin ==
  ASSUME IInv, Generations, NEW i, NEW f, mirror' = [mirror EXCEPT ![i] = f],
         i \in Instances => f.idg = 1 /\ Within(f.h, record.h.fg)
  PROVE  \A j \in Instances : mirror'[j].idg = 1 /\ Within(mirror'[j].h, record.h.fg)
<1>1. mirror = [j \in Instances |-> mirror[j]]
  BY Zenon DEF IInv, Shapes
<1>2. /\ i \in Instances => mirror'[i] = f
      /\ \A j \in Instances \ {i} : mirror'[j] = mirror[j]
  BY <1>1, Zenon
<1> TAKE j \in Instances
<1>3. CASE j = i
  BY <1>2, <1>3, Zenon
<1>4. CASE j # i
  BY <1>2, <1>4, Zenon DEF Generations
<1> QED BY <1>3, <1>4

\* A mirror takes a copy over.
LEMMA MirrorsCopy ==
  ASSUME IInv, Generations, NEW i, NEW a \in Copies,
         mirror' = [mirror EXCEPT ![i] = Mirrored(mirror[i], a)]
  PROVE  \A j \in Instances : mirror'[j].idg = 1 /\ Within(mirror'[j].h, record.h.fg)
<1>1. IsRecord(a) /\ Within(a.h, record.h.fg) /\ record.h.fg \in Nat
  BY Zenon DEF IInv, Coherent, Generations, IsHealth
<1>2. ASSUME i \in Instances
      PROVE  /\ Mirrored(mirror[i], a).idg = 1
             /\ Within(Mirrored(mirror[i], a).h, record.h.fg)
  <2>1. IsEntry(mirror[i]) /\ mirror[i].idg = 1 /\ Within(mirror[i].h, record.h.fg)
    BY <1>2, Zenon DEF IInv, Follows, Generations
  <2> QED BY <1>1, <2>1, MirroredWithin, Zenon
<1> QED BY <1>2, OneWithin, Zenon

\* There is nothing to know before the first decision.
LEMMA InitGenerations == Init => Generations
<1> SUFFICES ASSUME Init PROVE Generations
  OBVIOUS
<1>1. record = NoRecord /\ NoRecord.h = Healthy /\ NoRecord.ep = 0
  BY DEF Init, NoRecord
<1>2. record.h = Healthy /\ record.ep = 0 /\ 0 \in Nat /\ 0 <= 0
  BY <1>1
<1>3. IsHealth(record.h) /\ record.h.fg = 0 /\ Within(record.h, 0)
  BY <1>2, HealthyIs, Zenon DEF Within
<1>4. \A c \in Calls : call[c].pc = "new" /\ c \notin flight
  BY DEF Init, NoCall
<1>5. \A c \in Calls : ~Pending(call[c], c \in flight)
  BY <1>4 DEF Pending
<1>6. \A a \in Copies : a = record
  <2> SUFFICES ASSUME NEW a \in Copies PROVE a = record
    OBVIOUS
  <2>1. \/ a = record
        \/ \E c \in Calls : call[c].pc = "run"
        \/ \E i \in Instances : a \in SeqSet(events[i])
        \/ \E i \in Instances : reading[i] # NoRead
    BY Zenon DEF Copies, SeqSet
  <2>2. \A i \in Instances : SeqSet(events[i]) = {} /\ reading[i] = NoRead
    BY EmptySeq, Zenon DEF Init
  <2> QED BY <1>4, <2>1, <2>2
<1>7. \A i \in Instances : mirror[i] = Entry(1, 1)
  BY Zenon DEF Init
<1>8. \A i \in Instances : mirror[i].idg = 1 /\ Within(mirror[i].h, record.h.fg)
  <2>1. Entry(1, 1).idg = 1 /\ Within(Entry(1, 1).h, 0)
    BY EntryWithin
  <2> QED BY <1>3, <1>7, <2>1, Zenon
<1>9. \A a \in Copies : Within(a.h, record.h.fg)
  BY <1>3, <1>6, Zenon
<1>10. \A i \in Instances : HeldWithin(edit[i], record.h.fg)
  BY Zenon DEF Init, HeldWithin
<1> QED BY <1>2, <1>3, <1>5, <1>8, <1>9, <1>10, Zenon DEF Generations

\* An attempt takes its reference: a recovery, of a mirror that is blacklisted.
LEMMA CaptureGenerations ==
  ASSUME IInv, Generations, NEW c \in Calls, NEW i \in Instances, NEW op, Capture(c, i, op)
  PROVE  Generations'
<1> DEFINE past == IF op.op = "recover" THEN Recorded ELSE {}
           ref == [idg |-> mirror[i].idg, ver |-> mirror[i].ver, fg |-> mirror[i].h.fg,
                   mg |-> mirror[i].h.mg, cd |-> mirror[i].h.cd, past |-> past]
           k == [id |-> c, pc |-> "ref", on |-> i, op |-> op, idg |-> mirror[i].idg,
                 ref |-> ref, reply |-> NoRecord]
<1>1. /\ call[c].pc = "new" /\ (op.op = "recover" => mirror[i].h.bl)
      /\ call' = [call EXCEPT ![c] = k]
      /\ UNCHANGED <<row, record, mirror, events, reading, flight, epochs, faults, edit, edits>>
  BY Zenon DEF Capture
<1>2. mirror[i].idg = 1 /\ Within(mirror[i].h, record.h.fg)
  BY Zenon DEF Generations
<1>3. ref.idg = mirror[i].idg /\ ref.fg = mirror[i].h.fg /\ ref.past = past
  <2> HIDE DEF past
  <2> QED OBVIOUS
<1> HIDE DEF ref
<1>4. k.id = c /\ k.pc = "ref" /\ k.on = i /\ k.op = op /\ k.idg = mirror[i].idg /\ k.ref = ref
  OBVIOUS
<1>5. ASSUME op.op = "recover"
      PROVE  /\ k.ref.fg \in Nat /\ k.ref.fg > 0 /\ k.ref.fg <= record.h.fg
             /\ record.gen \in k.ref.past
  <2>1. /\ mirror[i].h.fg \in Nat /\ mirror[i].h.fg > 0 /\ mirror[i].h.fg <= record.h.fg
        /\ record.h.fg \in Nat
    BY <1>1, <1>2, <1>5, Zenon DEF Within, IsHealth, Generations
  <2>2. record.h.fg # 0
    BY <2>1
  <2>3. record.gen \in Recorded
    BY <2>2, Zenon DEF Generations
  <2>4. k.ref.past = Recorded /\ k.ref.fg = mirror[i].h.fg
    BY <1>3, <1>4, <1>5, Zenon
  <2> HIDE DEF k
  <2> QED BY <2>1, <2>3, <2>4, Zenon
<1> HIDE DEF k
<1>6. Knows(k, c, record)
  BY <1>2, <1>3, <1>4, <1>5, Zenon DEF Knows
<1>7. call[c].pc \notin {"run", "done"} /\ k.pc # "run"
  BY <1>1, <1>4
<1>8. \A d \in Calls : d \in flight' /\ d # c => d \in flight
  BY <1>1, Zenon
<1>9. /\ Recorded \subseteq Recorded'
      /\ \A d \in Calls : Pending(call'[d], d \in flight') => Knows(call'[d], d, record)
  BY <1>1, <1>6, <1>7, <1>8, OneKnows, Zenon
<1>10. \A d \in Calls : call'[d].pc = "run" => call'[d].reply \in Copies
  <2>1. call = [d \in Calls |-> call[d]]
    BY Zenon DEF IInv, Shapes
  <2>2. call'[c] = k /\ \A d \in Calls \ {c} : call'[d] = call[d]
    BY <1>1, <2>1, Zenon
  <2> QED BY <1>7, <2>2, CopiesAre, Zenon
<1> QED BY <1>1, <1>9, <1>10, EventsStay, ReadingStays, MirrorsWithin, EditsWithin,
           KeepsGenerations, Zenon

\* A call sends its script under the identity of its reference or its mirror,
\* which are the same, or is over.
LEMMA SendGenerations ==
  ASSUME IInv, Generations, NEW c \in Calls, Send(c)
  PROVE  Generations'
<1> DEFINE k == call[c]
           idg == SentIdentity(k)
           g == [k EXCEPT !.pc = "sent", !.idg = idg]
<1>1. /\ call[c].pc = "ref"
      /\ UNCHANGED <<row, record, mirror, events, reading, epochs, faults, edit, edits>>
  BY Zenon DEF Send
<1>2. Whole(k, c \in flight) /\ call = [d \in Calls |-> call[d]]
  BY Zenon DEF IInv, Shapes
<1>3. /\ Recorded \subseteq Recorded'
      /\ \A d \in Calls : Pending(call'[d], d \in flight') => Knows(call'[d], d, record)
      /\ \A d \in Calls : call'[d].pc = "run" => call'[d].reply \in Copies
  <2>1. CASE Current(call[c])
    <3>1. /\ call' = [call EXCEPT ![c].pc = "sent", ![c].idg = SentIdentity(call[c])]
          /\ flight' = flight \cup {c}
      BY <2>1, Zenon DEF Send
    <3>2. IsCall(k) /\ Pending(k, c \in flight)
      BY <1>1, <1>2 DEF Whole, Pending
    <3>3. Knows(k, c, record)
      BY <3>2, Zenon DEF Generations
    <3>4. idg = 1
      <4>1. k.ref.idg = 1 /\ mirror[k.on].idg = 1
        BY <3>3, Zenon DEF Knows, Generations
      <4> QED BY <4>1, Zenon DEF SentIdentity
    <3>5. g = [k EXCEPT !.pc = "sent", !.idg = idg]
      OBVIOUS
    <3>6. call' = [call EXCEPT ![c] = g]
      <4> HIDE DEF idg
      <4>1. call' = [call EXCEPT ![c].pc = "sent", ![c].idg = idg]
        BY <3>1, Zenon DEF idg
      <4> QED BY <4>1, <1>2, Zenon
    <3>7. k.pc \notin {"run", "done"} /\ "sent" # "run"
      BY <1>1
    <3> HIDE DEF g, idg
    <3>8. k.pc \notin {"run", "done"} => call[c].pc \notin {"run", "done"}
      BY Zenon
    <3> HIDE DEF k
    <3>9. g = [id |-> k.id, pc |-> "sent", on |-> k.on, op |-> k.op, idg |-> idg, ref |-> k.ref,
               reply |-> k.reply]
      BY <3>2, <3>5, Zenon DEF IsCall
    <3>10. /\ g.id = k.id /\ g.pc = "sent" /\ g.on = k.on /\ g.op = k.op
           /\ g.idg = idg /\ g.ref = k.ref
      BY <3>9
    <3>11. Knows(g, c, record)
      BY <3>3, <3>4, <3>10, Zenon DEF Knows
    <3>12. \A d \in Calls : d \in flight' /\ d # c => d \in flight
      BY <3>1, Zenon
    <3>13. /\ Recorded \subseteq Recorded'
           /\ \A d \in Calls : Pending(call'[d], d \in flight') => Knows(call'[d], d, record)
      BY <3>6, <3>7, <3>8, <3>11, <3>12, OneKnows, Zenon
    <3>14. call'[c] = g /\ \A d \in Calls \ {c} : call'[d] = call[d]
      BY <1>2, <3>6, Zenon
    <3>15. \A d \in Calls : call'[d].pc = "run" => call'[d].reply \in Copies
      BY <3>7, <3>10, <3>14, CopiesAre, Zenon
    <3> QED BY <3>13, <3>15
  <2>2. CASE ~Current(call[c])
    <3>1. call' = [call EXCEPT ![c] = Over(c)] /\ flight' = flight
      BY <2>2, Zenon DEF Send
    <3> QED BY <3>1, EndKnows, EndsCall, Zenon
  <2> QED BY <2>1, <2>2
<1> QED BY <1>1, <1>3, EventsStay, ReadingStays, MirrorsWithin, EditsWithin, KeepsGenerations, Zenon

\* A reply, or a call that fails and leaves the mirror as it is.
LEMMA EndGenerations ==
  ASSUME IInv, Generations, NEW c \in Calls, call' = [call EXCEPT ![c] = Over(c)],
         UNCHANGED <<record, events, reading, flight, edit>>,
         \A i \in Instances : mirror'[i].idg = 1 /\ Within(mirror'[i].h, record.h.fg)
  PROVE  Generations'
<1>1. /\ Recorded \subseteq Recorded'
      /\ \A d \in Calls : Pending(call'[d], d \in flight') => Knows(call'[d], d, record)
  BY EndKnows, Zenon
<1>2. \A d \in Calls : call'[d].pc = "run" => call'[d].reply \in Copies
  BY EndsCall, Zenon
<1> QED BY <1>1, <1>2, EventsStay, ReadingStays, EditsWithin, KeepsGenerations, Zenon

\* The reply is mirrored.
LEMMA ReplyGenerations ==
  ASSUME IInv, Generations, NEW c \in Calls, Reply(c)
  PROVE  Generations'
<1>1. /\ call[c].pc = "run"
      /\ mirror' = [mirror EXCEPT ![call[c].on] = Mirrored(mirror[call[c].on], call[c].reply)]
      /\ call' = [call EXCEPT ![c] = Over(c)]
      /\ UNCHANGED <<row, record, events, reading, flight, epochs, faults, edit, edits>>
  BY Zenon DEF Reply
<1>2. call[c].reply \in Copies
  BY <1>1, CopiesAre, Zenon
<1>3. \A j \in Instances : mirror'[j].idg = 1 /\ Within(mirror'[j].h, record.h.fg)
  BY <1>1, <1>2, MirrorsCopy, Zenon
<1> QED BY <1>1, <1>3, EndGenerations, Zenon

\* A fallback that leaves the mirror a copy of the record leaves it as it is.
LEMMA NoFallback ==
  ASSUME NEW e, IsEntry(e), NEW k, ~FellBack(e, k).local
  PROVE  FellBack(e, k) = e
<1> DEFINE h == Applied(e.h, k)
           g == [e EXCEPT !.h = h, !.local = TRUE]
<1>1. FellBack(e, k) = g \/ FellBack(e, k) = e
  BY Zenon DEF FellBack
<1>2. g.local = TRUE
  <2> HIDE DEF h
  <2> QED BY DEF IsEntry
<1> HIDE DEF g
<1> QED BY <1>1, <1>2, Zenon

\* The store is unavailable and nothing is decided locally.
LEMMA UnavailableGenerations ==
  ASSUME IInv, Generations, Undisturbed', NEW c \in Calls, Unavailable(c)
  PROVE  Generations'
<1> DEFINE i == call[c].on
           f == FellBack(mirror[i], call[c])
<1>1. /\ mirror' = [mirror EXCEPT ![i] = f]
      /\ call' = [call EXCEPT ![c] = Over(c)]
      /\ UNCHANGED <<row, record, events, reading, flight, epochs, edit, edits>>
  BY Zenon DEF Unavailable
<1>2. ASSUME i \in Instances PROVE f.idg = 1 /\ Within(f.h, record.h.fg)
  <2>1. IsEntry(mirror[i]) /\ mirror = [j \in Instances |-> mirror[j]]
    BY <1>2, Zenon DEF IInv, Shapes, Follows
  <2>2. ~mirror'[i].local
    BY <1>2, Zenon DEF Undisturbed
  <2> HIDE DEF i
  <2>3. mirror'[i] = f
    <3> HIDE DEF f
    <3> QED BY <1>1, <1>2, <2>1, Zenon
  <2>4. f = mirror[i]
    BY <2>1, <2>2, <2>3, NoFallback, Zenon
  <2> HIDE DEF f
  <2> QED BY <1>2, <2>4, Zenon DEF Generations
<1> HIDE DEF i, f
<1>3. \A j \in Instances : mirror'[j].idg = 1 /\ Within(mirror'[j].h, record.h.fg)
  BY <1>1, <1>2, OneWithin, Zenon
<1> QED BY <1>1, <1>3, EndGenerations, Zenon

\* A script whose caller gave up is lost.
LEMMA ScriptLostGenerations ==
  ASSUME IInv, Generations, NEW c \in Calls, ScriptLost(c)
  PROVE  Generations'
<1> DEFINE k == [pc |-> "done", on |-> call[c].on]
<1>1. /\ flight' = flight \ {c}
      /\ call' = [call EXCEPT ![c] = k]
      /\ UNCHANGED <<row, record, mirror, events, reading, epochs, faults, edit, edits>>
  BY Zenon DEF ScriptLost
<1>2. k.pc # "run" /\ k.pc \in {"run", "done"} /\ k.pc \notin {"ref", "sent"}
      /\ k.pc \notin {"ref", "sent", "run"}
  OBVIOUS
<1> HIDE DEF k
<1>3. ~Pending(k, c \in flight') /\ Whole(k, c \in flight')
  BY <1>1, <1>2, Zenon DEF Pending, Whole
<1>4. \A d \in Calls : d \in flight' /\ d # c => d \in flight
  BY <1>1, Zenon
<1>5. /\ Recorded \subseteq Recorded'
      /\ \A d \in Calls : Pending(call'[d], d \in flight') => Knows(call'[d], d, record)
  BY <1>1, <1>2, <1>3, <1>4, OneKnows, Zenon
<1>6. \A d \in Calls : call'[d].pc = "run" => call'[d].reply \in Copies
  BY <1>1, <1>2, <1>3, <1>4, OneCall, Zenon
<1> QED BY <1>1, <1>5, <1>6, EventsStay, ReadingStays, MirrorsWithin, EditsWithin,
           KeepsGenerations, Zenon

\* Copies are delivered, lost, read and mirrored.
LEMMA MirrorGenerations ==
  ASSUME IInv, Generations, NEW i \in Instances, MirrorStep(i)
  PROVE  Generations'
<1>1. UNCHANGED <<record, call, flight, edit, edits>>
  BY Zenon DEF MirrorStep, Handle, EventLost, HydrateReads, HydrateApplies
<1>2. \A j \in Instances : SeqSet(events'[j]) \subseteq Copies
  <2>1. CASE Handle(i) \/ EventLost(i)
    <3>1. events[i] # <<>> /\ events' = [events EXCEPT ![i] = Tail(events[i])]
      BY <2>1, Zenon DEF Handle, EventLost
    <3> QED BY <3>1, OneEventLess, Zenon
  <2>2. CASE HydrateReads(i) \/ HydrateApplies(i)
    <3>1. UNCHANGED events
      BY <2>2, Zenon DEF HydrateReads, HydrateApplies
    <3> QED BY <3>1, EventsStay, Zenon
  <2> QED BY <2>1, <2>2, Zenon DEF MirrorStep
<1>3. \A j \in Instances : reading'[j] # NoRead => reading'[j][1] \in Copies
  <2>1. CASE Handle(i) \/ EventLost(i)
    <3>1. UNCHANGED reading
      BY <2>1, Zenon DEF Handle, EventLost
    <3> QED BY <3>1, ReadingStays, Zenon
  <2>2. CASE HydrateReads(i) \/ HydrateApplies(i)
    <3>1. \/ reading' = [reading EXCEPT ![i] = <<record>>]
          \/ reading' = [reading EXCEPT ![i] = NoRead]
      BY <2>2, Zenon DEF HydrateReads, HydrateApplies
    <3>2. reading = [j \in Instances |-> reading[j]]
      BY Zenon DEF IInv, Shapes
    <3>3. /\ reading'[i] = <<record>> \/ reading'[i] = NoRead
          /\ \A j \in Instances \ {i} : reading'[j] = reading[j]
      BY <3>1, <3>2, Zenon
    <3>4. <<record>>[1] = record
      OBVIOUS
    <3> QED BY <3>3, <3>4, CopiesAre, Zenon
  <2> QED BY <2>1, <2>2, Zenon DEF MirrorStep
<1>4. \A j \in Instances : mirror'[j].idg = 1 /\ Within(mirror'[j].h, record.h.fg)
  <2>1. CASE EventLost(i) \/ HydrateReads(i)
    <3>1. UNCHANGED mirror
      BY <2>1, Zenon DEF EventLost, HydrateReads
    <3> QED BY <3>1, MirrorsWithin, Zenon
  <2>2. CASE Handle(i)
    <3>1. /\ events[i] # <<>>
          /\ mirror' = [mirror EXCEPT ![i] = Mirrored(mirror[i], Head(events[i]))]
          /\ events' = [events EXCEPT ![i] = Tail(events[i])]
      BY <2>2, Zenon DEF Handle
    <3>2. Head(events[i]) \in Copies
      BY <3>1, OneEventLess, Zenon
    <3> QED BY <3>1, <3>2, MirrorsCopy, Zenon
  <2>3. CASE HydrateApplies(i)
    <3>1. /\ reading[i] # NoRead
          /\ mirror' = [mirror EXCEPT ![i] = Mirrored(mirror[i], reading[i][1])]
      BY <2>3, Zenon DEF HydrateApplies
    <3>2. reading[i][1] \in Copies
      BY <3>1, CopiesAre, Zenon
    <3> QED BY <3>1, <3>2, MirrorsCopy, Zenon
  <2> QED BY <2>1, <2>2, <2>3, Zenon DEF MirrorStep
<1> QED BY <1>1, <1>2, <1>3, <1>4, CallsKnow, CallsStay, EditsWithin, KeepsGenerations, Zenon

\* An instance loads the row, whose identity is the one it has.
LEMMA ReloadGenerations ==
  ASSUME IInv, Generations, Undisturbed, NEW i \in Instances, Reload(i)
  PROVE  Generations'
<1> DEFINE e == mirror[i]
           g == [e EXCEPT !.ver = row.ver]
<1>1. /\ mirror' = [mirror EXCEPT ![i] = Loaded(e)]
      /\ UNCHANGED <<row, record, events, reading, call, flight, epochs, faults, edit, edits>>
  BY Zenon DEF Reload
<1>2. IsEntry(e) /\ e.idg = 1 /\ Within(e.h, record.h.fg) /\ row.idg = 1
  BY Zenon DEF IInv, Follows, Generations, Undisturbed
<1>3. Loaded(e) = g
  BY <1>2, Zenon DEF Loaded
<1> HIDE DEF e
<1>4. g.idg = e.idg /\ g.h = e.h
  <2>1. g = [e EXCEPT !.ver = row.ver]
    OBVIOUS
  <2> HIDE DEF g
  <2>2. g = [idg |-> e.idg, ver |-> row.ver, ep |-> e.ep, sv |-> e.sv, h |-> e.h,
             local |-> e.local]
    BY <1>2, <2>1, Zenon DEF IsEntry
  <2> QED BY <2>2
<1> HIDE DEF g
<1>5. \A j \in Instances : mirror'[j].idg = 1 /\ Within(mirror'[j].h, record.h.fg)
  BY <1>1, <1>2, <1>3, <1>4, OneWithin, Zenon
<1> QED BY <1>1, <1>5, CallsKnow, CallsStay, EventsStay, ReadingStays, EditsWithin,
           KeepsGenerations, Zenon

\* A process starts again with nothing it knew.
LEMMA RestartGenerations ==
  ASSUME IInv, Generations, Undisturbed, NEW i \in Instances, Restart(i)
  PROVE  Generations'
<1> DEFINE f == Entry(row.idg, row.ver)
<1>1. /\ mirror' = [mirror EXCEPT ![i] = f]
      /\ events' = [events EXCEPT ![i] = <<>>]
      /\ reading' = [reading EXCEPT ![i] = NoRead]
      /\ edit' = [edit EXCEPT ![i] = NoEdit]
      /\ call' = [c \in Calls |-> IF call[c].pc # "new" /\ call[c].on = i THEN Over(c) ELSE call[c]]
      /\ UNCHANGED <<row, record, flight, epochs, edits>>
  BY Zenon DEF Restart
<1>2. /\ events = [j \in Instances |-> events[j]]
      /\ reading = [j \in Instances |-> reading[j]]
      /\ \A c \in Calls : Whole(call[c], c \in flight)
  BY Zenon DEF IInv, Shapes
<1>3. \A j \in Instances : mirror'[j].idg = 1 /\ Within(mirror'[j].h, record.h.fg)
  <2>1. record.h.fg \in Nat /\ row.idg = 1
    BY Zenon DEF Generations, IsHealth, Undisturbed
  <2>2. f.idg = 1 /\ Within(f.h, record.h.fg)
    BY <2>1, EntryWithin, Zenon
  <2> HIDE DEF f
  <2> QED BY <1>1, <2>2, OneWithin, Zenon
<1>4. \A j \in Instances : SeqSet(events'[j]) \subseteq Copies
  <2>1. events'[i] = <<>> /\ \A j \in Instances \ {i} : events'[j] = events[j]
    BY <1>1, <1>2, Zenon
  <2> QED BY <2>1, CopiesAre, EmptySeq, Zenon
<1>5. \A j \in Instances : reading'[j] # NoRead => reading'[j][1] \in Copies
  <2>1. reading'[i] = NoRead /\ \A j \in Instances \ {i} : reading'[j] = reading[j]
    BY <1>1, <1>2, Zenon
  <2> QED BY <2>1, CopiesAre, Zenon
<1>6. \A c \in Calls : call'[c] = Over(c) \/ call'[c] = call[c]
  BY <1>1, Zenon
<1>7. \A c \in Calls : Over(c).pc = "done" /\ Over(c).pc \in {"run", "done"} /\ Over(c).pc # "run"
  <2>1. \A c \in Calls : Over(c).pc = "done"
    BY <1>2, OverIs, Zenon
  <2>2. "done" # "run"
    OBVIOUS
  <2> QED BY <2>1, <2>2, Zenon
<1>8. Recorded \subseteq Recorded'
  BY <1>6, <1>7, RecordedStay, Zenon
<1>9. \A c \in Calls : call'[c].pc = "run" => call'[c].reply \in Copies
  BY <1>6, <1>7, CopiesAre, Zenon
<1>10. \A c \in Calls : Pending(call'[c], c \in flight') => Knows(call'[c], c, record)
  <2> TAKE c \in Calls
  <2>1. Pending(call[c], c \in flight) => Knows(call[c], c, record)
    BY Zenon DEF Generations
  <2>2. Pending(Over(c), c \in flight) => Knows(Over(c), c, record)
    BY <1>2, <2>1, OverKnows, Zenon
  <2>3. flight' = flight
    BY <1>1, Zenon
  <2> QED BY <1>6, <2>1, <2>2, <2>3, Zenon
<1>11. \A j \in Instances : HeldWithin(edit'[j], record.h.fg)
  <2>1. HeldWithin(NoEdit, record.h.fg)
    BY Zenon DEF HeldWithin
  <2> QED BY <1>1, <2>1, OneEditWithin, Zenon
<1> QED BY <1>1, <1>3, <1>4, <1>5, <1>8, <1>9, <1>10, <1>11, KeepsGenerations, Zenon

\* An edit takes its snapshot of a mirror, puts it back or ends.
LEMMA EditGenerations ==
  ASSUME IInv, Generations, NEW i \in Instances, EditStep(i)
  PROVE  Generations'
<1>1. UNCHANGED <<record, events, reading, call, flight>>
  BY Zenon DEF EditStep, TakeEntry, RestoreEntry, EndEdit
<1>2. HeldWithin(NoEdit, record.h.fg)
  BY Zenon DEF HeldWithin
<1>3. /\ \A j \in Instances : mirror'[j].idg = 1 /\ Within(mirror'[j].h, record.h.fg)
      /\ \A j \in Instances : HeldWithin(edit'[j], record.h.fg)
  <2>1. CASE TakeEntry(i)
    <3> DEFINE d == [pc |-> "taken", entry |-> mirror[i]]
    <3>1. edit' = [edit EXCEPT ![i] = d] /\ UNCHANGED mirror
      BY <2>1, Zenon DEF TakeEntry
    <3>2. d.entry = mirror[i]
      OBVIOUS
    <3> HIDE DEF d
    <3>3. HeldWithin(d, record.h.fg)
      BY <3>2, Zenon DEF HeldWithin, Generations
    <3> QED BY <3>1, <3>3, OneEditWithin, MirrorsWithin, Zenon
  <2>2. CASE RestoreEntry(i)
    <3> DEFINE f == edit[i].entry
               d == [pc |-> "restored", entry |-> f]
    <3>1. /\ edit[i] # NoEdit
          /\ mirror' = [mirror EXCEPT ![i] = f]
          /\ edit' = [edit EXCEPT ![i] = d] \/ edit' = [edit EXCEPT ![i] = NoEdit]
      BY <2>2, Zenon DEF RestoreEntry
    <3>2. f.idg = 1 /\ Within(f.h, record.h.fg)
      BY <3>1, Zenon DEF HeldWithin, Generations
    <3> HIDE DEF f
    <3>3. d.entry = f
      OBVIOUS
    <3> HIDE DEF d
    <3>4. HeldWithin(d, record.h.fg)
      BY <3>2, <3>3, Zenon DEF HeldWithin
    <3>5. \A j \in Instances : HeldWithin(edit'[j], record.h.fg)
      BY <1>2, <3>1, <3>4, OneEditWithin, Zenon
    <3>6. \A j \in Instances : mirror'[j].idg = 1 /\ Within(mirror'[j].h, record.h.fg)
      BY <3>1, <3>2, OneWithin, Zenon
    <3> QED BY <3>5, <3>6
  <2>3. CASE EndEdit(i)
    <3>1. edit' = [edit EXCEPT ![i] = NoEdit] /\ UNCHANGED mirror
      BY <2>3, Zenon DEF EndEdit
    <3> QED BY <1>2, <3>1, OneEditWithin, MirrorsWithin, Zenon
  <2> QED BY <2>1, <2>2, <2>3, Zenon DEF EditStep
<1> QED BY <1>1, <1>3, CallsKnow, CallsStay, EventsStay, ReadingStays, KeepsGenerations, Zenon

\* The copies after a script: those before it and the record it leaves.
LEMMA ScriptCopies ==
  ASSUME IInv, NEW c \in Calls, Script(c), NEW s, s = Scripted(record, call[c], epochs + 1)
  PROVE  Copies' \subseteq Copies \cup {s}
<1> DEFINE D == Copies \cup {s}
<1>1. /\ record' = s /\ reading' = reading
      /\ events' = [i \in Instances |-> IF i # call[c].on /\ s.ver # record.ver
                                          THEN Append(events[i], s) ELSE events[i]]
  BY Zenon DEF Script
<1>2. \A d \in Calls : call'[d].pc = "run" => call'[d].reply \in D
  BY ScriptCalls
<1>3. \A i \in Instances : events'[i] = events[i] \/ events'[i] = Append(events[i], s)
  BY <1>1, Zenon
<1>4. \A i \in Instances : SeqSet(events'[i]) \subseteq D
  <2> TAKE i \in Instances
  <2>1. SeqSet(events[i]) \subseteq Copies /\ IsSeq(events[i])
    BY CopiesAre, Zenon DEF IInv, Shapes
  <2>2. SeqSet(Append(events[i], s)) \subseteq SeqSet(events[i]) \cup {s}
    BY <2>1, AppendSeq, SMT
  <2> QED BY <1>3, <2>1, <2>2, Zenon
<1>5. /\ \A i \in Instances : reading'[i] # NoRead => reading'[i][1] \in D
      /\ record' \in D
  BY <1>1, CopiesAre, Zenon
<1> HIDE DEF D
<1>6. Copies' \subseteq D
  BY <1>2, <1>4, <1>5, CopiesWithin, Zenon
<1> QED BY <1>6, Zenon DEF D

\* Within a generation, within a later one.
LEMMA WithinLater ==
  ASSUME NEW h, NEW n \in Nat, NEW m \in Nat, Within(h, n), m >= n
  PROVE  Within(h, m)
<1>1. IsHealth(h) /\ h.fg \in Nat /\ h.fg <= n
  BY Zenon DEF Within, IsHealth
<1>2. h.fg <= m
  BY <1>1
<1> QED BY <1>1, <1>2, Zenon DEF Within

\* A call goes on knowing when the generation grows, and when it stays with
\* whoever brought the record there.
LEMMA KnowsLater ==
  ASSUME NEW k, NEW c, NEW r, NEW s, Knows(k, c, r), r.h.fg \in Nat, s.h.fg \in Nat,
         s.h.fg >= r.h.fg, r.h.fg # 0 /\ s.h.fg = r.h.fg => s.gen = r.gen
  PROVE  Knows(k, c, s)
<1>1. k.id = c /\ k.on \in Instances /\ k.idg = 1 /\ k.ref.idg = 1
  BY Zenon DEF Knows
<1>2. ASSUME k.op.op = "recover"
      PROVE  /\ k.ref.fg \in Nat /\ k.ref.fg > 0 /\ k.ref.fg <= s.h.fg
             /\ k.ref.fg = s.h.fg => s.gen \in k.ref.past
  <2>1. /\ k.ref.fg \in Nat /\ k.ref.fg > 0 /\ k.ref.fg <= r.h.fg
        /\ k.ref.fg = r.h.fg => r.gen \in k.ref.past
    BY <1>2, Zenon DEF Knows
  <2>2. k.ref.fg <= s.h.fg /\ (k.ref.fg = s.h.fg => r.h.fg # 0 /\ s.h.fg = r.h.fg)
    BY <2>1
  <2> QED BY <2>1, <2>2, Zenon
<1> QED BY <1>1, <1>2, Zenon DEF Knows

\* The calls after a script: its own has run, and the others stay.
LEMMA ScriptOthers ==
  ASSUME IInv, NEW c \in Calls, Script(c)
  PROVE  /\ c \in flight /\ c \notin flight' /\ flight' \subseteq flight
         /\ call'[c].pc \in {"run", "done"}
         /\ \A d \in Calls \ {c} : call'[d] = call[d]
<1> DEFINE s == Scripted(record, call[c], epochs + 1)
           o == [pc |-> "done", on |-> call[c].on]
<1>1. /\ c \in flight /\ flight' = flight \ {c}
      /\ call' = IF call[c].pc = "sent"
                   THEN [call EXCEPT ![c].pc = "run", ![c].reply = s]
                   ELSE [call EXCEPT ![c] = o]
  BY Zenon DEF Script
<1> HIDE DEF s
<1>2. call = [d \in Calls |-> call[d]] /\ Whole(call[c], c \in flight)
  BY Zenon DEF IInv, Shapes
<1>3. IsCall(call[c])
  BY <1>1, <1>2, Zenon DEF Whole
<1>4. /\ call'[c].pc \in {"run", "done"}
      /\ \A d \in Calls \ {c} : call'[d] = call[d]
  <2>1. CASE call[c].pc = "sent"
    <3> DEFINE k == call[c]
               g == [k EXCEPT !.pc = "run", !.reply = s]
    <3>1. call' = [call EXCEPT ![c] = g]
      BY <1>1, <1>2, <2>1, Zenon
    <3>2. g = [k EXCEPT !.pc = "run", !.reply = s]
      OBVIOUS
    <3> HIDE DEF k, g
    <3>3. g = [id |-> k.id, pc |-> "run", on |-> k.on, op |-> k.op, idg |-> k.idg,
               ref |-> k.ref, reply |-> s]
      BY <1>3, <3>2, Zenon DEF IsCall, k
    <3>4. g.pc = "run"
      BY <3>3
    <3> QED BY <1>2, <3>1, <3>4, Zenon
  <2>2. CASE call[c].pc # "sent"
    <3>0. call' = [call EXCEPT ![c] = o]
      BY <1>1, <2>2, Zenon
    <3>1. o.pc = "done"
      OBVIOUS
    <3> HIDE DEF o
    <3> QED BY <1>2, <3>0, <3>1, Zenon
  <2> QED BY <2>1, <2>2
<1>5. c \notin flight' /\ flight' \subseteq flight
  BY <1>1, Zenon
<1> QED BY <1>1, <1>4, <1>5, Zenon

\* The script runs.
LEMMA ScriptGenerations ==
  ASSUME IInv, Generations, NEW c \in Calls, Script(c)
  PROVE  /\ Generations'
         /\ call[c].op.op = "recover" /\ record.h.bl /\ ~record'.h.bl
              => record.gen \in call[c].ref.past
<1> DEFINE s == Scripted(record, call[c], epochs + 1)
<1>0. s = Scripted(record, call[c], epochs + 1)
  OBVIOUS
<1>1. record' = s /\ UNCHANGED <<mirror, edit>>
  BY Zenon DEF Script
<1> HIDE DEF s
<1>2. /\ c \in flight /\ c \notin flight' /\ flight' \subseteq flight
      /\ call'[c].pc \in {"run", "done"}
      /\ \A d \in Calls \ {c} : call'[d] = call[d]
  BY ScriptOthers
<1>3. Pending(call[c], c \in flight)
  BY <1>2, Zenon DEF Pending
<1>4. Knows(call[c], c, record)
  BY <1>3, Zenon DEF Generations
<1>5. /\ epochs \in Nat /\ record \in Copies /\ IsRecord(record)
      /\ IsHealth(record.h) /\ (record.ep = 0 => record.h.fg = 0)
      /\ record.ep # 0 => record.idg = 1
      /\ call[c].idg = 1 /\ call[c].id = c
  BY <1>4, CopiesAre, Zenon DEF IInv, Shapes, Coherent, Generations, Knows
<1>6. /\ IsHealth(s.h) /\ s.h.fg >= record.h.fg
      /\ s.ep # 0 /\ s.idg = 1
      /\ s.gen = call[c].id \/ (record.ep # 0 /\ s.gen = record.gen)
      /\ record.ep # 0 /\ s.h.fg = record.h.fg => s.gen = record.gen
      /\ call[c].op.op = "recover" /\ record.ep # 0 /\ s.h # record.h
           => record.h.fg = call[c].ref.fg
  BY <1>0, <1>5, ScriptGrows, SMT
<1>7. record.h.fg \in Nat /\ s.h.fg \in Nat
  BY <1>5, <1>6, Zenon DEF IsHealth
<1>8. Recorded \subseteq Recorded' /\ c \in Recorded'
  <2>1. Recorded \subseteq Recorded'
    BY <1>2, RecordedStay, Zenon
  <2>2. c \in Recorded'
    BY <1>2, Zenon DEF Recorded
  <2> QED BY <2>1, <2>2
<1>9. s.gen \in Recorded'
  BY <1>5, <1>6, <1>8, Zenon DEF Generations
<1>10. \A a \in Copies' : Within(a.h, s.h.fg)
  <2>1. Copies' \subseteq Copies \cup {s}
    BY <1>0, ScriptCopies
  <2>2. \A a \in Copies : Within(a.h, s.h.fg)
    <3> SUFFICES ASSUME NEW a \in Copies PROVE Within(a.h, s.h.fg)
      OBVIOUS
    <3>1. Within(a.h, record.h.fg)
      BY Zenon DEF Generations
    <3> QED BY <1>6, <1>7, <3>1, WithinLater, Zenon
  <2>3. s.h.fg <= s.h.fg
    BY <1>7
  <2>4. Within(s.h, s.h.fg)
    BY <1>6, <2>3, Zenon DEF Within
  <2> QED BY <2>1, <2>2, <2>4, Zenon
<1>11. \A i \in Instances : mirror'[i].idg = 1 /\ Within(mirror'[i].h, s.h.fg)
  <2>1. \A i \in Instances : mirror[i].idg = 1 /\ Within(mirror[i].h, s.h.fg)
    BY <1>6, <1>7, WithinLater, Zenon DEF Generations
  <2> QED BY <1>1, <2>1, Zenon
<1>12. \A i \in Instances : HeldWithin(edit'[i], s.h.fg)
  <2>1. \A i \in Instances : HeldWithin(edit[i], s.h.fg)
    BY <1>6, <1>7, WithinLater, Zenon DEF Generations, HeldWithin
  <2> QED BY <1>1, <2>1, Zenon
<1>13. \A d \in Calls : Pending(call'[d], d \in flight') => Knows(call'[d], d, s)
  <2> SUFFICES ASSUME NEW d \in Calls, Pending(call'[d], d \in flight')
               PROVE  Knows(call'[d], d, s)
    OBVIOUS
  <2>1. CASE d = c
    <3>1. ~(call'[c].pc \in {"ref", "sent"})
      BY <1>2
    <3> QED BY <1>2, <2>1, <3>1, Zenon DEF Pending
  <2>2. CASE d # c
    <3>1. call'[d] = call[d] /\ (d \in flight' => d \in flight)
      BY <1>2, <2>2, Zenon
    <3>2. Knows(call[d], d, record)
      BY <3>1, Zenon DEF Pending, Generations
    <3>3. record.h.fg # 0 /\ s.h.fg = record.h.fg => s.gen = record.gen
      BY <1>5, <1>6, Zenon
    <3>4. Knows(call[d], d, s)
      BY <1>6, <1>7, <3>2, <3>3, KnowsLater, Zenon
    <3> QED BY <3>1, <3>4, Zenon
  <2> QED BY <2>1, <2>2
<1>14. Generations'
  <2>1. /\ IsHealth(record'.h) /\ (record'.ep = 0 => record'.h.fg = 0)
        /\ record'.ep # 0 => record'.idg = 1 /\ record'.gen \in Recorded'
    BY <1>1, <1>6, <1>9, Zenon
  <2>2. /\ \A a \in Copies' : Within(a.h, record'.h.fg)
        /\ \A i \in Instances : mirror'[i].idg = 1 /\ Within(mirror'[i].h, record'.h.fg)
        /\ \A i \in Instances : HeldWithin(edit'[i], record'.h.fg)
        /\ \A d \in Calls : Pending(call'[d], d \in flight') => Knows(call'[d], d, record')
    BY <1>1, <1>10, <1>11, <1>13, <1>12, Zenon
  <2> QED BY <2>1, <2>2, Zenon DEF Generations
<1>15. ASSUME call[c].op.op = "recover", record.h.bl, ~record'.h.bl
       PROVE  record.gen \in call[c].ref.past
  <2>1. record.h.fg > 0
    BY <1>5, <1>15, Zenon DEF IsHealth
  <2>2. record.h.fg # 0
    BY <1>7, <2>1
  <2>3. record.ep # 0 /\ s.h # record.h
    BY <1>1, <1>5, <1>15, <2>2, Zenon
  <2>4. call[c].ref.fg = record.h.fg
    BY <1>6, <1>15, <2>3, Zenon
  <2> QED BY <1>4, <1>15, <2>4, Zenon DEF Knows
<1> QED BY <1>14, <1>15

\* The record is there after the step if it was before it.
RecordStays == record.ep # 0 => record'.ep # 0

\* Every step that leaves the credential undisturbed keeps the generations.
LEMMA NextGenerations ==
  IInv /\ Generations /\ Undisturbed /\ Undisturbed' /\ [Next]_vars /\ [RecordStays]_vars
    => Generations'
<1> SUFFICES ASSUME IInv, Generations, Undisturbed, Undisturbed', [Next]_vars,
                    [RecordStays]_vars
             PROVE  Generations'
  OBVIOUS
<1>1. CASE \E c \in Calls : CallStep(c)
  <2>1. PICK c \in Calls : CallStep(c)
    BY <1>1, Zenon
  <2>2. \/ \E i \in Instances, op \in Ops[c] : Capture(c, i, op)
        \/ Send(c) \/ Script(c) \/ Reply(c) \/ Unavailable(c) \/ ScriptLost(c)
    BY <2>1, Zenon DEF CallStep
  <2>3. ASSUME NEW i \in Instances, NEW op \in Ops[c], Capture(c, i, op) PROVE Generations'
    BY <2>3, CaptureGenerations, Zenon
  <2> QED BY <2>2, <2>3, SendGenerations, ScriptGenerations, ReplyGenerations,
             UnavailableGenerations, ScriptLostGenerations, Zenon
<1>2. CASE \E i \in Instances : MirrorStep(i) \/ EditStep(i) \/ Reload(i) \/ Restart(i)
  BY <1>2, MirrorGenerations, EditGenerations, ReloadGenerations, RestartGenerations, Zenon
<1>3. CASE ChangeTarget \/ Rotate \/ UNCHANGED vars
  <2>1. UNCHANGED <<record, mirror, events, reading, call, flight, edit, edits>>
    BY <1>3, Zenon DEF ChangeTarget, Rotate, vars
  <2> QED BY <2>1, CallsKnow, CallsStay, EventsStay, ReadingStays, MirrorsWithin,
             EditsWithin, KeepsGenerations, Zenon
<1>4. CASE LoseRecord
  <2>1. record.ep # 0 /\ record' = NoRecord /\ NoRecord.ep = 0
    BY <1>4, NoRecordIs, Zenon DEF LoseRecord
  <2>2. ~RecordStays /\ record' # record
    BY <2>1, Zenon DEF RecordStays
  <2> QED BY <2>2, Zenon DEF vars
<1> QED BY <1>1, <1>2, <1>3, <1>4, Zenon DEF Next

\* A step that runs a recovery and lifts the blacklist is of the tested.
LEMMA StepRecovers ==
  ASSUME IInv, Generations, [Next]_vars, NEW c \in Calls, c \in flight \ flight',
         call[c].op.op = "recover", record.h.bl, ~record'.h.bl
  PROVE  record.gen \in call[c].ref.past
<1>1. record' # record /\ flight' # flight
  BY Zenon
<1>2. PICK d \in Calls : CallStep(d)
  <2>1. ~(\E i \in Instances : MirrorStep(i) \/ EditStep(i) \/ Reload(i) \/ Restart(i))
    BY <1>1, Zenon DEF MirrorStep, Handle, EventLost, HydrateReads, HydrateApplies, EditStep,
                       TakeEntry, RestoreEntry, EndEdit, Reload, Restart
  <2>2. ~(ChangeTarget \/ Rotate \/ LoseRecord) /\ ~UNCHANGED vars
    BY <1>1, Zenon DEF ChangeTarget, Rotate, LoseRecord, vars
  <2> QED BY <2>1, <2>2, Zenon DEF Next
<1>3. Script(d)
  <2>1. /\ ~Send(d) /\ ~Reply(d) /\ ~Unavailable(d) /\ ~ScriptLost(d)
        /\ \A i \in Instances, op \in Ops[d] : ~Capture(d, i, op)
    BY <1>1, Zenon DEF Send, Reply, Unavailable, ScriptLost, Capture
  <2> QED BY <1>2, <2>1, Zenon DEF CallStep
<1>4. flight' = flight \ {d}
  BY <1>3, Zenon DEF Script
<1>5. d = c
  BY <1>4, Zenon
<1> QED BY <1>3, <1>5, ScriptGenerations, Zenon

\* "A tested credential is recovered only while its blacklist, failure
\* generation, and cooldown are still the tested ones"
\* (credential_mutations.go:455-456): while the record is not lost, no decision
\* is applied to a mirror alone and the identity stays, a recovery lifts the
\* blacklist only of failures recorded before its probe took its reference,
\* whatever the order of the scripts, replies, events, reads, restarts, edits
\* and secret rotations in between.
THEOREM RecoveriesTested ==
  Spec /\ []Undisturbed /\ [][RecordStays]_vars => RecoveriesAreOfTheTested
<1>1. IInv /\ Generations /\ [Next]_vars =>
        [\A c \in Calls :
            c \in flight \ flight' /\ call[c].op.op = "recover" /\ record.h.bl /\ ~record'.h.bl
            => record.gen \in call[c].ref.past]_vars
  BY StepRecovers, Zenon
<1> QED BY Invariant, InitGenerations, NextGenerations, <1>1, PTL
        DEF Spec, RecoveriesAreOfTheTested

=============================================================================
