-------------------------- MODULE GraphNodesProofs --------------------------
(***************************************************************************)
(* Facts about documents of GraphNodes, which the proofs about the runs    *)
(* that publish them and about the evaluations that read them share.       *)
(***************************************************************************)
EXTENDS GraphNodes, FiniteSetTheorems, TLAPS

\* A document has finitely many entries.
LEMMA EntriesFinite ==
    ASSUME NEW doc \in Document
    PROVE  IsFiniteSet(UNION {{f} \X DOMAIN doc.ledger[f] : f \in Fields})
<1> DEFINE Row(f) == {f} \X DOMAIN doc.ledger[f]
           Rows == {Row(f) : f \in Fields}
<1>1. \A f \in Fields : IsFiniteSet(Row(f))
  <2> SUFFICES ASSUME NEW f \in Fields PROVE IsFiniteSet(Row(f))
    OBVIOUS
  <2>1. Len(doc.ledger[f]) \in Nat /\ DOMAIN doc.ledger[f] = 1 .. Len(doc.ledger[f])
    BY DEF Document
  <2>2. IsFiniteSet(DOMAIN doc.ledger[f])
    BY <2>1, FS_Interval
  <2>3. IsFiniteSet({f})
    BY FS_Singleton
  <2> QED
    BY <2>2, <2>3, FS_Product
<1>2. IsFiniteSet(Rows)
  <2> DEFINE row == [f \in Fields |-> Row(f)]
  <2>1. row \in Surjection(Fields, Rows)
    BY DEF Surjection
  <2> QED
    BY <2>1, SchemaAssumption, FS_Surjection
<1>3. \A S \in Rows : IsFiniteSet(S)
  BY <1>1
<1>4. IsFiniteSet(UNION Rows)
  BY <1>2, <1>3, FS_UNION
<1> QED
  BY <1>4

\* Counting is enough once no field is missing: with an entry for every field
\* of the table, as many slots as fields means one slot each.
LEMMA SlotsExact ==
    ASSUME NEW doc \in Document, NEW t \in Tables,
           \A f \in Fields : doc.ledger[f] # <<>>,
           Cardinality(Slots(doc, t)) = Cardinality(FieldsOf(t))
    PROVE  \A f \in FieldsOf(t) : Len(doc.ledger[f]) = 1
<1> DEFINE First == {<<f, 1>> : f \in FieldsOf(t)}
<1>1. IsFiniteSet(FieldsOf(t))
  BY SchemaAssumption, FS_Subset DEF FieldsOf
<1>2. \A f \in FieldsOf(t) : /\ Len(doc.ledger[f]) \in Nat
                             /\ Len(doc.ledger[f]) >= 1
                             /\ DOMAIN doc.ledger[f] = 1 .. Len(doc.ledger[f])
  BY DEF Document, FieldsOf
<1>3. First \subseteq Slots(doc, t)
  BY <1>2 DEF Slots
<1>4. IsFiniteSet(Slots(doc, t))
  <2>1. Slots(doc, t) \subseteq UNION {{f} \X DOMAIN doc.ledger[f] : f \in Fields}
    BY DEF Slots, FieldsOf
  <2> QED
    BY <2>1, EntriesFinite, FS_Subset
<1>5. Cardinality(First) = Cardinality(FieldsOf(t))
  <2> DEFINE first == [f \in FieldsOf(t) |-> <<f, 1>>]
  <2>1. first \in Bijection(FieldsOf(t), First)
    BY DEF Bijection, Injection, Surjection, IsInjective
  <2>2. ExistsBijection(FieldsOf(t), First)
    BY <2>1 DEF ExistsBijection
  <2> QED
    BY <1>1, <2>2, FS_Bijection
<1>6. First = Slots(doc, t)
  BY <1>3, <1>4, <1>5, FS_Subset
<1>7. SUFFICES ASSUME NEW f \in FieldsOf(t), Len(doc.ledger[f]) # 1 PROVE FALSE
  OBVIOUS
<1>8. <<f, 2>> \in Slots(doc, t)
  <2> DEFINE n == Len(doc.ledger[f])
  <2>1. n \in Nat /\ n >= 1 /\ n # 1 /\ DOMAIN doc.ledger[f] = 1 .. n
    BY <1>2, <1>7
  <2> HIDE DEF n
  <2>2. 2 \in DOMAIN doc.ledger[f]
    BY <2>1
  <2>3. <<f, 2>> \in {f} \X DOMAIN doc.ledger[f]
    BY <2>2
  <2> QED
    BY <2>3 DEF Slots
<1> QED
  BY <1>6, <1>8

\* Two fields of a table with one slot each: if both are mapped and to the same
\* destination, validate_coverage reports it.
LEMMA ReportedTwice ==
    ASSUME NEW doc \in Document, NEW f \in Fields, NEW g \in Fields, f # g,
           TableOf[f] = TableOf[g],
           Len(doc.ledger[f]) = 1, Len(doc.ledger[g]) = 1,
           IsMapped(doc.ledger[f][1]), doc.ledger[f][1].dst = doc.ledger[g][1].dst
    PROVE  ClaimedTwice(doc, TableOf[f])
<1>1. f \in FieldsOf(TableOf[f]) /\ g \in FieldsOf(TableOf[f])
  BY DEF FieldsOf
<1>2. 1 \in DOMAIN doc.ledger[f] /\ 1 \in DOMAIN doc.ledger[g]
  BY DEF Document
<1>3. <<f, 1>> \in Slots(doc, TableOf[f]) /\ <<g, 1>> \in Slots(doc, TableOf[f])
  BY <1>1, <1>2 DEF Slots
<1>4. /\ <<f, 1>> \in MappedSlots(doc, TableOf[f])
      /\ <<g, 1>> \in MappedSlots(doc, TableOf[f])
  BY <1>3 DEF MappedSlots, IsMapped
<1> QED
  BY <1>4 DEF ClaimedTwice

\* A document without problems, and with an entry for every field, has each field
\* once and no destination twice in a table.
LEMMA NoProblems ==
    ASSUME NEW doc \in Document, \A f \in Fields : doc.ledger[f] # <<>>,
           Problems(doc) = {}
    PROVE  /\ \A f \in Fields : Len(doc.ledger[f]) = 1
           /\ \A f, g \in Fields :
                f # g /\ TableOf[f] = TableOf[g] /\ IsMapped(doc.ledger[f][1])
                  => doc.ledger[f][1].dst # doc.ledger[g][1].dst
<1>1. \A t \in Tables : /\ Cardinality(Slots(doc, t)) = Cardinality(FieldsOf(t))
                        /\ ~ ClaimedTwice(doc, t)
  <2> SUFFICES ASSUME NEW t \in Tables
               PROVE  /\ Cardinality(Slots(doc, t)) = Cardinality(FieldsOf(t))
                      /\ ~ ClaimedTwice(doc, t)
    OBVIOUS
  <2>1. <<"count", t>> \notin Problems(doc) /\ <<"duplicate", t>> \notin Problems(doc)
    OBVIOUS
  <2> QED
    BY <2>1 DEF Problems
<1>2. \A f \in Fields : TableOf[f] \in Tables /\ f \in FieldsOf(TableOf[f])
  BY SchemaAssumption DEF FieldsOf
<1>3. \A f \in Fields : Len(doc.ledger[f]) = 1
  BY <1>1, <1>2, SlotsExact
<1>4. \A f, g \in Fields :
        f # g /\ TableOf[f] = TableOf[g] /\ IsMapped(doc.ledger[f][1])
          => doc.ledger[f][1].dst # doc.ledger[g][1].dst
  BY <1>1, <1>2, <1>3, ReportedTwice
<1> QED
  BY <1>3, <1>4
=============================================================================
