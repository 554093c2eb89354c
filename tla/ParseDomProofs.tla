-------------------------- MODULE ParseDomProofs --------------------------
(***************************************************************************)
(* bencode_parse, for every input, depth limit and answer of the           *)
(* allocator.  It drives the parser as any other consumer does, so that    *)
(* all that is proved of the parser holds under the builder; the tree, the *)
(* frames and the heap are in order at every step; and the tree that is    *)
(* handed out spells the input.                                            *)
(***************************************************************************)
EXTENDS DomSpelling, ParseSaxProofs, ValueTreeProofs

Answers == {"OK"} \cup DomErrors

---------------------------------------------------------------------------
(* What the callbacks may answer.                                          *)

\* A failed allocation is the only failure of a new node.
LEMMA NodeAllocAnswers ==
  ASSUME NEW m, NEW contents, NEW r \in value_alloc(m, contents)
  PROVE  r.status \in Answers
BY DEF value_alloc, Result, Answers, DomErrors

\* A public builder may also refuse its allocator.
LEMMA NewNodeAnswers ==
  ASSUME NEW m, NEW contents, NEW r \in New(m, contents)
  PROVE  r.status \in Answers
BY NodeAllocAnswers DEF New, Result, Answers, DomErrors

\* An array grows, or memory runs out.
LEMMA GrowAnswers ==
  ASSUME NEW m, NEW n, NEW r \in grow_array(m, n)
  PROVE  r.status \in {"OK", "NOMEM"}
<1>1. \/ \E x : r = Result(x, "OK", n)
      \/ \E x : r = Result(x, "NOMEM", n)
  BY ZenonT(30) DEF grow_array
<1> QED BY <1>1 DEF Result

\* What bencode_list_append may answer.
LEMMA AppendAnswers ==
  ASSUME NEW m, NEW list, NEW child, NEW r \in bencode_list_append(m, list, child)
  PROVE  r.status \in Answers
<1>1. CASE r = Result(m, "INVALID_ARG", list)
  BY <1>1 DEF Result, Answers, DomErrors
<1>2. ASSUME NEW g \in grow_array(m, list),
             r = IF g.status # "OK" THEN g
                 ELSE [g EXCEPT !.mem.node[list].entries =
                         Append(@, Entry(<<>>, NULL, child))]
      PROVE  r.status \in Answers
  BY <1>2, GrowAnswers DEF Answers, DomErrors
<1> QED BY <1>1, <1>2 DEF bencode_list_append

\* What bencode_dict_set may answer.
LEMMA DictSetAnswers ==
  ASSUME NEW m, NEW dict, NEW key, NEW child,
         NEW r \in bencode_dict_set(m, dict, key, child)
  PROVE  r.status \in Answers
<1> DEFINE s == dict_search(m.node[dict].entries, key)
<1>1. CASE r = Result(m, "INVALID_ARG", dict)
  BY <1>1 DEF Result, Answers, DomErrors
<1>2. CASE r = Result(Replace(m, dict, s.index, child), "OK", dict)
  BY <1>2 DEF Result, Answers
<1>3. CASE r \in Insert(m, dict, s.index, key, child)
  <2>1. PICK copy :
          r \in IF key # <<>> /\ copy.ptr = NULL THEN {Result(m, "NOMEM", dict)}
               ELSE { IF g.status # "OK" THEN [g EXCEPT !.mem = bencode_free(@, m.node[dict].alloc, copy.ptr)]
                      ELSE [g EXCEPT !.mem.node[dict].entries =
                              InsertAt(@, s.index, Entry(key, copy.ptr, child))] :
                      g \in grow_array(copy.mem, dict) }
    BY <1>3 DEF Insert
  <2>2. CASE r = Result(m, "NOMEM", dict)
    BY <2>2 DEF Result, Answers, DomErrors
  <2>3. ASSUME NEW g \in grow_array(copy.mem, dict),
               r = IF g.status # "OK" THEN [g EXCEPT !.mem = bencode_free(@, m.node[dict].alloc, copy.ptr)]
                   ELSE [g EXCEPT !.mem.node[dict].entries =
                           InsertAt(@, s.index, Entry(key, copy.ptr, child))]
        PROVE  r.status \in Answers
    BY <2>3, GrowAnswers DEF Answers, DomErrors
  <2> QED BY <2>1, <2>2, <2>3
<1> QED BY <1>1, <1>2, <1>3 DEF bencode_dict_set

\* What attach, with or without the release of a node it refused, answers.
LEMMA AttachAnswers ==
  ASSUME NEW s, NEW value, NEW a \in attach(s, value)
  PROVE  a.status \in Answers
<1>1. CASE a \in AttachToList(s, value)
  BY <1>1, AppendAnswers DEF AttachToList, Outcome
<1>2. CASE a \in AttachToDict(s, value)
  <2>1. PICK key, x :
          \E r \in bencode_dict_set(s.mem, top(s).container, key, value) :
            a = Outcome(x, r.status)
    BY <1>2, ZenonT(30) DEF AttachToDict
  <2> QED BY <2>1, DictSetAnswers DEF Outcome
<1>3. CASE a = Outcome([s EXCEPT !.root = value], "OK")
  BY <1>3 DEF Outcome, Answers
<1> QED BY <1>1, <1>2, <1>3 DEF attach

\* What the creation and attachment of a node may answer.
LEMMA AttachNewAnswers ==
  ASSUME NEW s, NEW r, r.status \in Answers, NEW a \in AttachNew(s, r)
  PROVE  a.status \in Answers
<1>1. CASE a = Outcome(s, r.status)
  BY <1>1 DEF Outcome
<1>2. CASE a \in AttachOrFree([s EXCEPT !.mem = r.mem], r.ptr)
  <2>1. PICK b \in attach([s EXCEPT !.mem = r.mem], r.ptr) :
          a = IF b.status = "OK" THEN b
              ELSE [b EXCEPT !.dom.mem = bencode_value_free(@, r.ptr)]
    BY <1>2 DEF AttachOrFree
  <2>2. b.status \in Answers
    BY AttachAnswers
  <2> QED BY <2>1, <2>2
<1> QED BY <1>1, <1>2 DEF AttachNew

\* No callback answers with a status the parser would not expect.
LEMMA HandlerAnswers ==
  ASSUME NEW s, NEW e, NEW r \in Handler(s, e)
  PROVE  r.status \in Answers
<1>1. ASSUME NEW v, r \in dom_on_int(s, v)
      PROVE  r.status \in Answers
  BY <1>1, NewNodeAnswers, AttachNewAnswers DEF dom_on_int, bencode_int_new
<1>2. ASSUME NEW bytes, r \in dom_on_string(s, bytes)
      PROVE  r.status \in Answers
  <2>1. CASE r = Outcome(StashKey(s, bytes), "OK")
    BY <2>1 DEF Outcome, Answers
  <2>2. CASE r \in UNION { AttachNew(s, n) : n \in bencode_string_new_borrowed(s.mem, s.alloc, bytes) }
    BY <2>2, NodeAllocAnswers, AttachNewAnswers DEF bencode_string_new_borrowed
  <2> QED BY <1>2, <2>1, <2>2 DEF dom_on_string
<1>3. ASSUME NEW is_dict \in BOOLEAN, r \in open_container(s, is_dict)
      PROVE  r.status \in Answers
  <2>1. PICK n \in IF is_dict THEN bencode_dict_new(s.mem, s.alloc)
               ELSE bencode_list_new(s.mem, s.alloc) :
          \E a \in AttachNew(s, n) :
            r = IF a.status = "OK" THEN PushFrame(a.dom, n.ptr, is_dict) ELSE a
    BY <1>3 DEF open_container
  <2>2. n.status \in Answers
    BY NewNodeAnswers DEF bencode_dict_new, bencode_list_new
  <2>3. PICK a \in AttachNew(s, n) :
          r = IF a.status = "OK" THEN PushFrame(a.dom, n.ptr, is_dict) ELSE a
    BY <2>1
  <2>4. a.status \in Answers
    BY <2>2, AttachNewAnswers
  <2>5. PushFrame(a.dom, n.ptr, is_dict).status \in Answers
    BY DEF PushFrame, Outcome, Answers, DomErrors
  <2> QED BY <2>3, <2>4, <2>5
<1>4. ASSUME r \in dom_on_end(s)
      PROVE  r.status \in Answers
  BY <1>4 DEF dom_on_end, Outcome, Answers
<1> QED BY <1>1, <1>2, <1>3, <1>4 DEF Handler

---------------------------------------------------------------------------
(* The parser under the builder.                                           *)

\* Every step of bencode_parse is a step of bencode_parse_sax, or leaves its
\* state alone.
LEMMA DomStepIsSaxStep ==
  ASSUME IInv, call.hooks = Hooks, [DomNext]_<<vars, dom_vars>>
  PROVE  [Next]_vars /\ call' = call
<1>1. CASE RefuseArguments \/ CallSax \/ Deliver \/ UNCHANGED <<vars, dom_vars>>
  BY <1>1 DEF RefuseArguments, CallSax, Deliver, vars
<1>2. CASE SaxStep
  <2>1. call' = call
    BY <1>2 DEF SaxStep, Parse, RejectArguments, Start, Accumulate, FinishInt,
         FinishString, FinishKey, parse_int, parse_string, parse_list, parse_dict,
         UnexpectedByte, BodyTruncated, CloseList, CloseDict, parse_dict_key,
         SkipCallback, Resume, Reject, Recognise, parse_unsigned, Open, Close, HandUp, ReportError
  <2> QED BY <1>2, <2>1 DEF SaxStep, Next
<1>3. CASE DomCallback
  <2>1. PICK r \in Handler(dom, Last(events)) : Resume(r.status)
    BY <1>3 DEF DomCallback
  <2>2. r.status \in {"OK"} \cup CallbackErrors
    BY HandlerAnswers, DomErrorsAssumption DEF Answers
  <2>3. events \in Seq(EventType) /\ events # <<>> /\ InCallback
    BY <1>3 DEF DomCallback, IInv, TypeOK, ControlInv
  <2>4. Last(events).hook \in Hooks
    <3>1. Len(events) \in 1..Len(events)
      BY <2>3, LenProperties, EmptySeq
    <3>2. Last(events) \in EventType
      BY <2>3, <3>1, ElementOfSeq DEF Last
    <3> QED BY <3>2 DEF EventType
  <2>5. Callback
    BY <2>1, <2>2, <2>3, <2>4 DEF Callback
  <2> QED BY <2>1, <2>5 DEF Next, Resume
<1> QED BY <1>1, <1>2, <1>3 DEF DomNext

\* A call of bencode_parse makes an ordinary call of bencode_parse_sax.
THEOREM DrivesParser == DomSpec => Spec
<1>1. DomInit => Init /\ call.hooks = Hooks /\ IInv
  BY InitInv DEF DomInit
<1>2. IInv /\ call.hooks = Hooks /\ [DomNext]_<<vars, dom_vars>>
        => [Next]_vars /\ IInv' /\ (call.hooks = Hooks)'
  BY DomStepIsSaxStep, NextInv
<1> QED BY <1>1, <1>2, PTL DEF DomSpec, Spec

\* The parser's invariant holds while bencode_parse drives it: no scope past
\* the array, no cursor past the input, no key out of order under a tree.
THEOREM ParserInvariantUnderDom == DomSpec => []IInv
BY DrivesParser, Invariance, PTL

---------------------------------------------------------------------------
(* A tree that grows by one leaf.                                          *)

\* m2 is m with the new leaf x, whose contents are nd, as q's last entry.
LeafAdded(m, m2, q, x, nd) ==
  /\ q \in DOMAIN m.node /\ x \in Block /\ x \notin DOMAIN m.node
  /\ DOMAIN m2.node = DOMAIN m.node \cup {x} /\ m2.node[x] = nd /\ nd.entries = <<>>
  /\ \A k \in DOMAIN m.node \ {q} : m2.node[k] = m.node[k]
  /\ m2.node[q].type = m.node[q].type
  /\ \E e \in EntryType : e.value = x /\ m2.node[q].entries = Append(m.node[q].entries, e)

\* A new node that became an entry of q.
LEMMA NewNodeGrows ==
  ASSUME NEW m, HeapInv(m, {}), NEW m1, NEW x, NEW nd, Leaf(nd), NewNode(m, m1, x, nd),
         NEW q \in DOMAIN m.node, NEW m2, NEW e \in EntryType, e.value = x,
         Extended(m1, m2, q, e)
  PROVE  LeafAdded(m, m2, q, x, nd)
<1>1. HeapType(m) /\ nd \in NodeType
  BY DEF HeapInv, Leaf
<1>2. /\ DOMAIN m1.node = DOMAIN m.node \cup {x}
      /\ m1.node[x] = nd /\ \A n \in DOMAIN m.node : n # x /\ m1.node[n] = m.node[n]
  BY <1>1, NewNodeFields
<1>3. x \in Block /\ x \notin DOMAIN m.node
  BY DEF NewNode
<1>4. /\ DOMAIN m2.node = DOMAIN m1.node
      /\ m2.node[q].type = m1.node[q].type /\ m2.node[q].entries = Append(m1.node[q].entries, e)
      /\ \A k \in DOMAIN m1.node \ {q} : m2.node[k] = m1.node[k]
  BY DEF Extended
<1>5. \A k \in DOMAIN m.node \ {q} : m2.node[k] = m.node[k]
  BY <1>2, <1>4
<1>6. m2.node[x] = nd
  BY <1>2, <1>3, <1>4
<1> QED BY <1>2, <1>3, <1>4, <1>5, <1>6 DEF LeafAdded, Leaf

\* One tree remains one tree.
LEMMA GrownTree ==
  ASSUME NEW m, NEW v \in Nat, OneTree(m, v), NEW m2, HeapInv(m2, {}),
         NEW q, NEW x, NEW nd, LeafAdded(m, m2, q, x, nd)
  PROVE  OneTree(m2, v)
<1>1. /\ HeapType(m) /\ HeldOnce(m, {}) /\ OneParent(m) /\ DOMAIN m.node = Tree(m, v)
      /\ HeapType(m2) /\ OneParent(m2)
  BY DEF OneTree, HeapInv
<1>2. PICK e \in EntryType : e.value = x /\ m2.node[q].entries = Append(m.node[q].entries, e)
  BY DEF LeafAdded
<1>3. /\ q \in DOMAIN m.node /\ x \notin DOMAIN m.node /\ DOMAIN m2.node = DOMAIN m.node \cup {x}
      /\ \A k \in DOMAIN m.node \ {q} : m2.node[k] = m.node[k]
  BY DEF LeafAdded
<1>4. /\ m.node[q].entries \in Seq(EntryType)
      /\ Len(m.node[q].entries) \in Nat /\ DOMAIN m.node[q].entries = 1..Len(m.node[q].entries)
  BY <1>1, <1>3, NodeFacts
<1>5. /\ DOMAIN m2.node[q].entries = 1..(Len(m.node[q].entries) + 1)
      /\ m2.node[q].entries[Len(m.node[q].entries) + 1] = e
      /\ \A k \in 1..Len(m.node[q].entries) : m2.node[q].entries[k] = m.node[q].entries[k]
  BY <1>2, <1>4, AppendFacts
<1>6. x \in Children(m2, q)
  <2>1. Len(m.node[q].entries) + 1 \in DOMAIN m2.node[q].entries
    BY <1>4, <1>5
  <2> QED BY <1>2, <1>3, <1>5, <2>1 DEF Children
<1>7. \A n \in DOMAIN m.node : Children(m, n) \subseteq Children(m2, n)
  <2>1. \A k \in DOMAIN m.node[q].entries :
          k \in DOMAIN m2.node[q].entries /\ m2.node[q].entries[k] = m.node[q].entries[k]
    <3>1. 1..Len(m.node[q].entries) \subseteq 1..(Len(m.node[q].entries) + 1)
      BY <1>4
    <3> QED BY <1>4, <1>5, <3>1
  <2>2. Children(m, q) \subseteq Children(m2, q)
    BY <1>3, <2>1 DEF Children
  <2>3. ASSUME NEW n \in DOMAIN m.node, n # q PROVE Children(m, n) \subseteq Children(m2, n)
    BY <1>3, <2>3 DEF Children
  <2> QED BY <2>2, <2>3
<1>8. Tree(m, v) \cup {x} \subseteq Tree(m2, v)
  BY <1>1, <1>3, <1>6, <1>7, TreeGrows
<1>9. v \in DOMAIN m.node
  <2>1. v # NULL
    BY <1>1, <1>3, TreeOfNull
  <2> QED BY <1>1, <2>1, RootInTree
<1>10. Tree(m2, v) \subseteq DOMAIN m2.node
  BY <1>1, <1>3, <1>9, TreeIsClosed
<1>11. ASSUME NEW n \in DOMAIN m2.node, v \in Children(m2, n)
       PROVE  FALSE
  <2>1. PICK k \in DOMAIN m2.node[n].entries : m2.node[n].entries[k].value = v
    BY <1>1, <1>11, ChildrenFacts
  <2>2. CASE n = x
    BY <2>1, <2>2 DEF LeafAdded
  <2>3. CASE n = q
    <3>1. k \in 1..Len(m.node[q].entries) \/ k = Len(m.node[q].entries) + 1
      <4>1. k \in 1..(Len(m.node[q].entries) + 1)
        BY <1>5, <2>1, <2>3
      <4> QED BY <1>4, <4>1
    <3>2. k \in DOMAIN m.node[q].entries /\ m.node[q].entries[k].value = v
      BY <1>2, <1>3, <1>4, <1>5, <1>9, <2>1, <2>3, <3>1
    <3>3. v \in Children(m, q)
      BY <1>1, <1>3, <3>2, ChildrenFacts
    <3> QED BY <1>3, <3>3 DEF OneTree
  <2>4. CASE n # x /\ n # q
    <3>1. n \in DOMAIN m.node /\ m2.node[n] = m.node[n]
      BY <1>3, <2>4
    <3>2. v \in Children(m, n)
      BY <1>1, <2>1, <3>1, ChildrenFacts
    <3> QED BY <3>1, <3>2 DEF OneTree
  <2> QED BY <2>2, <2>3, <2>4
<1> QED BY <1>1, <1>3, <1>8, <1>10, <1>11 DEF OneTree

---------------------------------------------------------------------------
(* The path of open containers.                                            *)

\* What is known of the frames.
LEMMA FrameFacts ==
  ASSUME NEW fs \in Seq(FrameType)
  PROVE  /\ Len(fs) \in Nat /\ DOMAIN fs = 1..Len(fs) /\ \A i \in 1..Len(fs) : fs[i] \in FrameType
         /\ fs # <<>> => Len(fs) \in 1..Len(fs) /\ Last(fs) = fs[Len(fs)]
         /\ fs = <<>> <=> Len(fs) = 0
<1>1. Len(fs) \in Nat /\ DOMAIN fs = 1..Len(fs)
  BY LenProperties
<1>2. \A i \in 1..Len(fs) : fs[i] \in FrameType
  BY <1>1, ElementOfSeq
<1>3. fs = <<>> <=> Len(fs) = 0
  BY EmptySeq
<1> QED BY <1>1, <1>2, <1>3 DEF Last

\* t has the path of s.
SamePath(s, t) ==
  /\ t.root = s.root /\ t.frames \in Seq(FrameType) /\ Len(t.frames) = Len(s.frames)
  /\ \A i \in 1..Len(s.frames) : t.frames[i].container = s.frames[i].container

\* A heap in which nothing changed, or the last container grew, keeps it.
LEMMA SameSpine ==
  ASSUME NEW s, OnSpine(s), s.frames \in Seq(FrameType), NEW t, SamePath(s, t), t.mem = s.mem
  PROVE  OnSpine(t)
<1>1. /\ Len(s.frames) \in Nat /\ DOMAIN s.frames = 1..Len(s.frames)
      /\ DOMAIN t.frames = 1..Len(s.frames)
      /\ \A i \in 1..Len(s.frames) : t.frames[i].container = s.frames[i].container
      /\ t.root = s.root
  BY FrameFacts DEF SamePath
<1>2. \A i \in 1..Len(s.frames) : i > 1 => i - 1 \in 1..Len(s.frames)
  BY <1>1
<1> QED BY <1>1, <1>2 DEF OnSpine

LEMMA GrownSpine ==
  ASSUME NEW s, OnSpine(s), HeapType(s.mem), s.frames \in Seq(FrameType), s.frames # <<>>,
         NEW t, SamePath(s, t), NEW x, NEW nd,
         LeafAdded(s.mem, t.mem, Last(s.frames).container, x, nd)
  PROVE  /\ OnSpine(t) /\ x \in DOMAIN t.mem.node
         /\ \A i \in DOMAIN t.frames : t.frames[i].container # x
         /\ LastIs(t.mem, Last(t.frames).container, x)
<1> DEFINE n == Len(s.frames)
           q == s.frames[n].container
<1>1. /\ n \in Nat /\ n \in 1..n /\ DOMAIN s.frames = 1..n /\ Last(s.frames) = s.frames[n]
      /\ DOMAIN t.frames = 1..n /\ Last(t.frames) = t.frames[n]
      /\ \A i \in 1..n : t.frames[i].container = s.frames[i].container
      /\ t.root = s.root
  BY FrameFacts DEF SamePath, Last
<1>2. /\ q \in DOMAIN s.mem.node /\ x \notin DOMAIN s.mem.node
      /\ DOMAIN t.mem.node = DOMAIN s.mem.node \cup {x}
      /\ \A k \in DOMAIN s.mem.node \ {q} : t.mem.node[k] = s.mem.node[k]
  BY <1>1 DEF LeafAdded
<1>3. PICK e \in EntryType : e.value = x /\ t.mem.node[q].entries = Append(s.mem.node[q].entries, e)
  BY <1>1 DEF LeafAdded
<1>4. /\ s.mem.node[q].entries \in Seq(EntryType)
      /\ Len(s.mem.node[q].entries) \in Nat
  BY <1>2, NodeFacts
<1>5. t.mem.node[q].entries # <<>> /\ Last(t.mem.node[q].entries) = e
  <2> DEFINE old == s.mem.node[q].entries
             new == Append(old, e)
  <2>1. new \in Seq(EntryType) /\ Len(new) = Len(old) + 1 /\ new[Len(old) + 1] = e
    <3>1. old \in Seq(EntryType) /\ e \in EntryType
      BY <1>3, <1>4
    <3> HIDE DEF old
    <3> QED BY <3>1, AppendFacts
  <2>2. new # <<>>
    <3> HIDE DEF new, old
    <3> QED BY <1>4, <2>1, EmptySeq
  <2>3. Last(new) = e
    <3> HIDE DEF new
    <3> QED BY <2>1 DEF Last
  <2> QED BY <1>3, <2>2, <2>3
<1>6. \A i \in 1..n : i > 1 => i - 1 \in 1..n /\ i - 1 # n
  BY <1>1
<1>7. /\ \A i \in 1..n : s.frames[i].container \in DOMAIN s.mem.node
      /\ \A i, j \in 1..n : i # j => s.frames[i].container # s.frames[j].container
      /\ \A i \in 1..n : i = 1 => s.frames[i].container = s.root
      /\ \A i \in 1..n : i > 1 => LastIs(s.mem, s.frames[i - 1].container, s.frames[i].container)
  BY <1>1 DEF OnSpine
<1>8. ASSUME NEW i \in 1..n, i > 1
      PROVE  LastIs(t.mem, t.frames[i - 1].container, t.frames[i].container)
  <2>1. LastIs(s.mem, s.frames[i - 1].container, s.frames[i].container)
    BY <1>7, <1>8
  <2>2. t.mem.node[s.frames[i - 1].container] = s.mem.node[s.frames[i - 1].container]
    BY <1>1, <1>2, <1>6, <1>7, <1>8
  <2>3. t.frames[i - 1].container = s.frames[i - 1].container /\ t.frames[i].container = s.frames[i].container
    BY <1>1, <1>6, <1>8
  <2> QED BY <2>1, <2>2, <2>3 DEF LastIs
<1>9. OnSpine(t)
  <2>1. \A i \in DOMAIN t.frames :
          /\ t.frames[i].container \in DOMAIN t.mem.node
          /\ i = 1 => t.frames[i].container = t.root
          /\ i > 1 => LastIs(t.mem, t.frames[i - 1].container, t.frames[i].container)
    BY <1>1, <1>2, <1>7, <1>8
  <2>2. \A i, j \in DOMAIN t.frames : i # j => t.frames[i].container # t.frames[j].container
    BY <1>1, <1>7
  <2> QED BY <2>1, <2>2 DEF OnSpine
<1>10. \A i \in DOMAIN t.frames : t.frames[i].container # x
  BY <1>1, <1>2, <1>7
<1> QED BY <1>1, <1>2, <1>3, <1>5, <1>9, <1>10 DEF LastIs

\* The new leaf may become the next container of the path.
LEMMA PushedSpine ==
  ASSUME NEW s, OnSpine(s), s.frames \in Seq(FrameType), NEW f \in FrameType,
         f.container \in DOMAIN s.mem.node,
         \A i \in DOMAIN s.frames : s.frames[i].container # f.container,
         s.frames = <<>> => s.root = f.container,
         s.frames # <<>> => LastIs(s.mem, Last(s.frames).container, f.container),
         NEW t, t.mem = s.mem, t.root = s.root, t.frames = Append(s.frames, f)
  PROVE  OnSpine(t)
<1> DEFINE n == Len(s.frames)
<1>1. /\ n \in Nat /\ DOMAIN s.frames = 1..n /\ s.frames = <<>> <=> n = 0
      /\ s.frames # <<>> => n \in 1..n /\ Last(s.frames) = s.frames[n]
      /\ DOMAIN t.frames = 1..(n + 1) /\ t.frames[n + 1] = f
      /\ \A i \in 1..n : t.frames[i] = s.frames[i]
  BY FrameFacts, AppendFacts
<1>2. ASSUME NEW i \in DOMAIN t.frames
      PROVE  /\ t.frames[i].container \in DOMAIN t.mem.node
             /\ i = 1 => t.frames[i].container = t.root
             /\ i > 1 => LastIs(t.mem, t.frames[i - 1].container, t.frames[i].container)
  <2>1. CASE i \in 1..n
    <3>1. i \in DOMAIN s.frames /\ t.frames[i] = s.frames[i]
      BY <1>1, <2>1
    <3>2. i > 1 => t.frames[i - 1] = s.frames[i - 1]
      BY <1>1, <2>1
    <3> QED BY <3>1, <3>2 DEF OnSpine
  <2>2. CASE i = n + 1
    <3>1. t.frames[i] = f
      BY <1>1, <2>2
    <3>2. i = 1 => s.frames = <<>>
      BY <1>1, <2>2
    <3>3. i > 1 => s.frames # <<>> /\ i - 1 = n /\ t.frames[i - 1] = Last(s.frames)
      BY <1>1, <2>2
    <3> HIDE DEF n
    <3> QED BY <3>1, <3>2, <3>3
  <2>3. i \in 1..n \/ i = n + 1
    BY <1>1
  <2> QED BY <2>1, <2>2, <2>3
<1>3. ASSUME NEW i \in DOMAIN t.frames, NEW j \in DOMAIN t.frames, i # j
      PROVE  t.frames[i].container # t.frames[j].container
  <2>1. \/ i \in DOMAIN s.frames /\ t.frames[i] = s.frames[i]
        \/ i = n + 1 /\ t.frames[i] = f
    BY <1>1
  <2>2. \/ j \in DOMAIN s.frames /\ t.frames[j] = s.frames[j]
        \/ j = n + 1 /\ t.frames[j] = f
    BY <1>1
  <2> HIDE DEF n
  <2> QED BY <1>3, <2>1, <2>2 DEF OnSpine
<1> QED BY <1>2, <1>3 DEF OnSpine

---------------------------------------------------------------------------
(* What the callbacks do to dom_state, field by field.                     *)

LEMMA DomWithMem ==
  ASSUME NEW s, DomType(s), NEW m
  PROVE  LET t == [s EXCEPT !.mem = m]
         IN  /\ DomType(t) /\ t.mem = m /\ t.root = s.root /\ t.alloc = s.alloc
             /\ t.frames = s.frames
<1> DEFINE t == [s EXCEPT !.mem = m]
<1>1. s = [root |-> s.root, alloc |-> s.alloc, frames |-> s.frames, mem |-> s.mem]
  BY DEF DomType
<1>2. t = [root |-> s.root, alloc |-> s.alloc, frames |-> s.frames, mem |-> m]
  BY <1>1
<1>3. t.mem = m /\ t.root = s.root /\ t.alloc = s.alloc /\ t.frames = s.frames
  <2> HIDE DEF t
  <2> QED BY <1>2
<1>4. DomType(t)
  <2> HIDE DEF t
  <2> QED BY <1>2, <1>3 DEF DomType
<1> QED BY <1>3, <1>4

LEMMA DomWithRoot ==
  ASSUME NEW s, DomType(s), NEW v \in Nat
  PROVE  LET t == [s EXCEPT !.root = v]
         IN  /\ DomType(t) /\ t.mem = s.mem /\ t.root = v /\ t.alloc = s.alloc
             /\ t.frames = s.frames
<1> DEFINE t == [s EXCEPT !.root = v]
<1>1. s = [root |-> s.root, alloc |-> s.alloc, frames |-> s.frames, mem |-> s.mem]
  BY DEF DomType
<1>2. t = [root |-> v, alloc |-> s.alloc, frames |-> s.frames, mem |-> s.mem]
  BY <1>1
<1>3. t.mem = s.mem /\ t.root = v /\ t.alloc = s.alloc /\ t.frames = s.frames
  <2> HIDE DEF t
  <2> QED BY <1>2
<1>4. DomType(t)
  <2> HIDE DEF t
  <2> QED BY <1>2, <1>3 DEF DomType
<1> QED BY <1>3, <1>4

LEMMA DomWithFrames ==
  ASSUME NEW s, DomType(s), NEW fs \in Seq(FrameType)
  PROVE  LET t == [s EXCEPT !.frames = fs]
         IN  /\ DomType(t) /\ t.mem = s.mem /\ t.root = s.root /\ t.alloc = s.alloc
             /\ t.frames = fs
<1> DEFINE t == [s EXCEPT !.frames = fs]
<1>1. s = [root |-> s.root, alloc |-> s.alloc, frames |-> s.frames, mem |-> s.mem]
  BY DEF DomType
<1>2. t = [root |-> s.root, alloc |-> s.alloc, frames |-> fs, mem |-> s.mem]
  BY <1>1
<1>3. t.mem = s.mem /\ t.root = s.root /\ t.alloc = s.alloc /\ t.frames = fs
  <2> HIDE DEF t
  <2> QED BY <1>2
<1>4. DomType(t)
  <2> HIDE DEF t
  <2> QED BY <1>2, <1>3 DEF DomType
<1> QED BY <1>3, <1>4

LEMMA OutcomeFields ==
  ASSUME NEW t, NEW st
  PROVE  Outcome(t, st).dom = t /\ Outcome(t, st).status = st
BY DEF Outcome

\* t is s with the heap m and the innermost frame g.
TopIs(s, t, m, g) ==
  /\ DomType(t) /\ t.mem = m /\ t.root = s.root /\ t.alloc = s.alloc
  /\ Len(t.frames) = Len(s.frames) /\ t.frames[Len(s.frames)] = g
  /\ \A i \in 1..(Len(s.frames) - 1) : t.frames[i] = s.frames[i]

LEMMA ListOutcome ==
  ASSUME NEW s, DomType(s), s.frames # <<>>, NEW x, NEW a \in AttachToList(s, x)
  PROVE  \E r \in bencode_list_append(s.mem, Last(s.frames).container, x) :
           /\ a = Outcome(a.dom, r.status)
           /\ TopIs(s, a.dom, r.mem, Last(s.frames))
<1>1. PICK r \in bencode_list_append(s.mem, Last(s.frames).container, x) :
        a = Outcome([s EXCEPT !.mem = r.mem], r.status)
  BY DEF AttachToList, top
<1> DEFINE t == [s EXCEPT !.mem = r.mem]
<1>2. DomType(t) /\ t.mem = r.mem /\ t.root = s.root /\ t.alloc = s.alloc /\ t.frames = s.frames
  BY DomWithMem
<1>3. a = Outcome(t, r.status) /\ a.dom = t
  <2> HIDE DEF t
  <2> QED BY <1>1, OutcomeFields DEF t
<1> HIDE DEF t
<1>4. Last(s.frames) = s.frames[Len(s.frames)]
  BY DEF Last
<1> QED BY <1>2, <1>3, <1>4 DEF TopIs

LEMMA DictOutcome ==
  ASSUME NEW s, DomType(s), s.frames # <<>>, NEW x, NEW a \in AttachToDict(s, x),
         NEW key, Last(s.frames).pending_key = <<key>>
  PROVE  \E r \in bencode_dict_set(s.mem, Last(s.frames).container, key, x) :
           /\ a = Outcome(a.dom, r.status)
           /\ TopIs(s, a.dom, r.mem, [Last(s.frames) EXCEPT !.pending_key = <<>>, !.expecting_key = TRUE])
<1> DEFINE n == Len(s.frames)
           f == Last(s.frames)
           g == [f EXCEPT !.pending_key = <<>>, !.expecting_key = TRUE]
           fs == [s.frames EXCEPT ![n] = g]
<1>1. PICK r \in bencode_dict_set(s.mem, f.container, key, x) :
        a = Outcome([s EXCEPT !.mem = r.mem, !.frames[Len(s.frames)] = g], r.status)
  <2>1. (IF f.pending_key = <<>> THEN <<>> ELSE f.pending_key[1]) = key
    BY <<key>> # <<>>, <<key>>[1] = key
  <2> QED BY <2>1, Zenon DEF AttachToDict, top
<1>2. s.frames \in Seq(FrameType) /\ n \in Nat /\ n \in 1..n /\ DOMAIN s.frames = 1..n /\ f \in FrameType
  BY FrameFacts DEF DomType
<1>3. g \in FrameType
  <2>1. <<>> \in Seq(Bytes)
    BY EmptySeq
  <2> HIDE DEF f
  <2> QED BY <1>2, <2>1 DEF FrameType
<1>4. fs \in Seq(FrameType) /\ Len(fs) = n /\ fs[n] = g /\ \A i \in 1..(n - 1) : fs[i] = s.frames[i]
  <2> HIDE DEF g
  <2> QED BY <1>2, <1>3, ExceptSeq
<1> DEFINE s1 == [s EXCEPT !.mem = r.mem]
           t == [s1 EXCEPT !.frames = fs]
<1>5. DomType(s1) /\ s1.mem = r.mem /\ s1.root = s.root /\ s1.alloc = s.alloc /\ s1.frames = s.frames
  BY DomWithMem
<1>6. [s EXCEPT !.mem = r.mem, !.frames[Len(s.frames)] = g] = t
  <2> HIDE DEF g
  <2>1. s = [root |-> s.root, alloc |-> s.alloc, frames |-> s.frames, mem |-> s.mem]
    BY DEF DomType
  <2> QED BY <2>1
<1>7. DomType(t) /\ t.mem = s1.mem /\ t.root = s1.root /\ t.alloc = s1.alloc /\ t.frames = fs
  <2> HIDE DEF s1, fs
  <2> QED BY <1>4, <1>5, DomWithFrames
<1>8. a = Outcome(t, r.status) /\ a.dom = t
  <2> HIDE DEF t
  <2> QED BY <1>1, <1>6, OutcomeFields
<1>9. TopIs(s, t, r.mem, g)
  <2> HIDE DEF t, s1, fs, g
  <2> QED BY <1>4, <1>5, <1>7 DEF TopIs
<1> HIDE DEF t
<1> QED BY <1>1, <1>8, <1>9

\* A node the parent refused is freed.
LEMMA FreedOutcome ==
  ASSUME NEW s, NEW a, NEW st, a = Outcome(a.dom, st), NEW m, NEW g, TopIs(s, a.dom, m, g), NEW x
  PROVE  LET b == [a EXCEPT !.dom.mem = bencode_value_free(@, x)]
         IN  b.status = st /\ TopIs(s, b.dom, bencode_value_free(m, x), g)
<1> DEFINE t == a.dom
           free == bencode_value_free(m, x)
           t2 == [t EXCEPT !.mem = free]
<1>1. DomType(t) /\ t.mem = m
  BY DEF TopIs
<1>2. DomType(t2) /\ t2.mem = free /\ t2.root = t.root /\ t2.alloc = t.alloc /\ t2.frames = t.frames
  <2> HIDE DEF t, free
  <2> QED BY <1>1, DomWithMem
<1>3. [a EXCEPT !.dom.mem = bencode_value_free(@, x)] = Outcome(t2, st)
  BY <1>1 DEF Outcome
<1>4. TopIs(s, t2, free, g)
  <2> HIDE DEF t2, free
  <2> QED BY <1>2 DEF TopIs
<1> HIDE DEF t2
<1> QED BY <1>3, <1>4, OutcomeFields

---------------------------------------------------------------------------
(* A new node and the innermost container.                                 *)

Ascending(keys) == \A j, k \in DOMAIN keys : j < k => KeyBefore(keys[j], keys[k])

\* A new node suits the end of any container.
LEMMA NewNodeSuits ==
  ASSUME NEW m, HeapInv(m, {}), NEW m1, NEW x, NEW nd, Leaf(nd), NewNode(m, m1, x, nd),
         NEW q \in DOMAIN m.node, NEW key \in Bytes,
         m.node[q].type = "DICT" =>
           \A k \in DOMAIN m.node[q].entries : KeyBefore(m.node[q].entries[k].key, key)
  PROVE  HeapInv(m1, {}) /\ m1.node[q] = m.node[q] /\ Suits(m1, {}, q, Entry(key, NULL, x))
<1>1. HeapType(m) /\ OneParent(m) /\ nd \in NodeType /\ nd.entries = <<>>
  BY DEF HeapInv, Leaf
<1>2. /\ x \in Nat /\ DOMAIN m1.node = DOMAIN m.node \cup {x}
      /\ m1.node[x] = nd /\ \A n \in DOMAIN m.node : n # x /\ m1.node[n] = m.node[n]
  BY <1>1, NewNodeFields
<1>3. HeapInv(m1, {})
  BY NewNodeInv
<1>4. \A k \in DOMAIN m1.node : \A j \in DOMAIN m1.node[k].entries : m1.node[k].entries[j].value # x
  <2>1. ASSUME NEW k \in DOMAIN m.node, NEW j \in DOMAIN m1.node[k].entries
        PROVE  m1.node[k].entries[j].value # x
    BY <1>1, <1>2 DEF OneParent
  <2>2. DOMAIN m1.node[x].entries = {}
    BY <1>1, <1>2
  <2> QED BY <1>2, <2>1, <2>2
<1> DEFINE e == Entry(key, NULL, x)
<1>5. e \in EntryType /\ e.value = x /\ e.key_copy = NULL /\ e.key = key
  BY <1>2 DEF EntryType, Entry, NULL
<1>6. Suits(m1, {}, q, e)
  <2> HIDE DEF e
  <2> QED BY <1>2, <1>4, <1>5 DEF Suits
<1> QED BY <1>2, <1>3, <1>6

\* The keys of a dict that has a key pending are before that key.
LEMMA PendingKey ==
  ASSUME NEW f, NEW nd, nd.entries \in Seq(EntryType), NEW c \in Scope, c.is_dict, ~c.expecting_key,
         Ascending(c.keys), Agrees(f, nd, c, FALSE, FALSE)
  PROVE  /\ c.keys # <<>> /\ Last(c.keys) \in Bytes
         /\ nd.type = "DICT" /\ f.pending_key = <<Last(c.keys)>>
         /\ Len(c.keys) = Len(nd.entries) + 1 /\ Last(c.keys) = c.keys[Len(nd.entries) + 1]
         /\ \A k \in DOMAIN nd.entries : KeyBefore(nd.entries[k].key, Last(c.keys))
<1>1. c.keys \in Seq(Bytes) /\ Len(c.keys) \in Nat /\ DOMAIN c.keys = 1..Len(c.keys)
  BY LenProperties DEF Scope
<1>2. Len(nd.entries) \in Nat /\ DOMAIN nd.entries = 1..Len(nd.entries)
  BY LenProperties
<1>3. /\ f.expecting_key = c.expecting_key /\ nd.type = "DICT"
      /\ f.pending_key = <<Last(c.keys)>>
      /\ Len(c.keys) = Len(nd.entries) + Len(f.pending_key)
      /\ \A k \in DOMAIN nd.entries : nd.entries[k].key = c.keys[k]
  BY DEF Agrees
<1>4. Len(c.keys) = Len(nd.entries) + 1
  BY <1>3
<1>5. Last(c.keys) = c.keys[Len(nd.entries) + 1] /\ Len(nd.entries) + 1 \in DOMAIN c.keys
  BY <1>1, <1>2, <1>4 DEF Last
<1>6. c.keys # <<>> /\ Last(c.keys) \in Bytes
  BY <1>1, <1>2, <1>4, <1>5, ElementOfSeq, EmptySeq
<1>7. \A k \in DOMAIN nd.entries : k \in DOMAIN c.keys /\ k < Len(nd.entries) + 1
  BY <1>1, <1>2, <1>4
<1> QED BY <1>3, <1>4, <1>5, <1>6, <1>7 DEF Ascending

\* The key spent, frame and scope agree on one more entry.
LEMMA SpentKey ==
  ASSUME NEW f \in FrameType, NEW nd, nd.entries \in Seq(EntryType), NEW c \in Scope, c.is_dict,
         ~c.expecting_key, Ascending(c.keys), Agrees(f, nd, c, FALSE, FALSE),
         NEW g, g = [f EXCEPT !.pending_key = <<>>, !.expecting_key = TRUE],
         NEW nd2, nd2.type = nd.type, NEW e \in EntryType, e.key = Last(c.keys),
         nd2.entries = Append(nd.entries, e)
  PROVE  Agrees(g, nd2, c, TRUE, FALSE)
<1>1. /\ nd.type = "DICT" /\ Len(c.keys) = Len(nd.entries) + 1
      /\ Last(c.keys) = c.keys[Len(nd.entries) + 1]
  BY PendingKey
<1>2. g.pending_key = <<>> /\ g.expecting_key = TRUE
  BY DEF FrameType
<1>3. /\ Len(nd.entries) \in Nat
      /\ Len(nd2.entries) = Len(nd.entries) + 1
      /\ DOMAIN nd2.entries = 1..(Len(nd.entries) + 1) /\ nd2.entries[Len(nd.entries) + 1] = e
      /\ DOMAIN nd.entries = 1..Len(nd.entries)
      /\ \A k \in 1..Len(nd.entries) : nd2.entries[k] = nd.entries[k]
  BY AppendFacts
<1>4. \A k \in DOMAIN nd.entries : nd.entries[k].key = c.keys[k]
  BY DEF Agrees
<1>5. \A k \in DOMAIN nd2.entries : nd2.entries[k].key = c.keys[k]
  <2> DEFINE len == Len(nd.entries)
  <2>1. \A k \in DOMAIN nd2.entries : k \in 1..len \/ k = len + 1
    BY <1>3
  <2> HIDE DEF len
  <2> QED BY <1>1, <1>3, <1>4, <2>1 DEF len
<1>6. Len(c.keys) = Len(nd2.entries) + Len(g.pending_key)
  <2>1. Len(g.pending_key) = 0
    BY <1>2
  <2> QED BY <1>1, <1>3, <2>1
<1> QED BY <1>1, <1>2, <1>5, <1>6 DEF Agrees, Scope

\* What became of s when x, a new node, was given to its innermost container:
\* all is as it was but for the key, or x is that container's last entry.
Settled(s, a, x, nd, c) ==
  LET q == Last(s.frames).container
      t == a.dom
  IN  /\ DomType(t) /\ SamePath(s, t) /\ t.alloc = s.alloc
      /\ \A i \in 1..(Len(s.frames) - 1) : t.frames[i] = s.frames[i]
      /\ \/ a.status # "OK" /\ t.mem = s.mem
         \/ /\ a.status = "OK" /\ HeapInv(t.mem, {}) /\ LeafAdded(s.mem, t.mem, q, x, nd)
            /\ Agrees(Last(t.frames), t.mem.node[q], c, TRUE, FALSE)

LEMMA TopIsSettled ==
  ASSUME NEW s, DomType(s), s.frames # <<>>, NEW a, NEW m, NEW g \in FrameType,
         TopIs(s, a.dom, m, g), g.container = Last(s.frames).container,
         NEW x, NEW nd, NEW c,
         \/ a.status # "OK" /\ m = s.mem
         \/ /\ a.status = "OK" /\ HeapInv(m, {}) /\ LeafAdded(s.mem, m, Last(s.frames).container, x, nd)
            /\ Agrees(g, m.node[Last(s.frames).container], c, TRUE, FALSE)
  PROVE  Settled(s, a, x, nd, c)
<1> DEFINE n == Len(s.frames)
<1>1. /\ n \in Nat /\ n \in 1..n /\ Last(s.frames) = s.frames[n]
      /\ DomType(a.dom) /\ a.dom.frames \in Seq(FrameType) /\ Len(a.dom.frames) = n /\ a.dom.frames[n] = g
      /\ a.dom.mem = m /\ a.dom.root = s.root /\ a.dom.alloc = s.alloc
      /\ \A i \in 1..(n - 1) : a.dom.frames[i] = s.frames[i]
  BY FrameFacts DEF TopIs, DomType
<1>2. Last(a.dom.frames) = g
  BY <1>1 DEF Last
<1>3. SamePath(s, a.dom)
  <2>1. \A i \in 1..n : i \in 1..(n - 1) \/ i = n
    BY <1>1
  <2> HIDE DEF n
  <2> QED BY <1>1, <2>1 DEF SamePath, n
<1> HIDE DEF n
<1> QED BY <1>1, <1>2, <1>3 DEF Settled, n

LEMMA AttachDict ==
  ASSUME NEW s, DomType(s), HeapInv(s.mem, {}), s.frames # <<>>,
         Last(s.frames).container \in DOMAIN s.mem.node,
         NEW m1, NEW x, NEW nd, Leaf(nd), NewNode(s.mem, m1, x, nd),
         NEW c \in Scope, ~c.expecting_key, c.is_dict, Ascending(c.keys),
         Agrees(Last(s.frames), s.mem.node[Last(s.frames).container], c, FALSE, FALSE),
         NEW b \in AttachToDict([s EXCEPT !.mem = m1], x), NEW a,
         a = IF b.status = "OK" THEN b ELSE [b EXCEPT !.dom.mem = bencode_value_free(@, x)]
  PROVE  Settled(s, a, x, nd, c)
<1> DEFINE f == Last(s.frames)
           q == f.container
           old == s.mem.node[q]
           key == Last(c.keys)
           g == [f EXCEPT !.pending_key = <<>>, !.expecting_key = TRUE]
           s1 == [s EXCEPT !.mem = m1]
<1>1. DomType(s1) /\ s1.mem = m1 /\ s1.root = s.root /\ s1.alloc = s.alloc /\ s1.frames = s.frames
  BY DomWithMem
<1>2. f \in FrameType /\ HeapType(s.mem) /\ old.entries \in Seq(EntryType)
  BY FrameFacts, NodeFacts DEF DomType, HeapInv
<1>3. /\ key \in Bytes /\ old.type = "DICT" /\ f.pending_key = <<key>>
      /\ \A k \in DOMAIN old.entries : KeyBefore(old.entries[k].key, key)
  BY <1>2, PendingKey
<1>4. HeapInv(m1, {}) /\ m1.node[q] = old /\ Suits(m1, {}, q, Entry(key, NULL, x))
  BY <1>3, NewNodeSuits
<1>5. PICK r \in bencode_dict_set(m1, q, key, x) :
        b = Outcome(b.dom, r.status) /\ TopIs(s1, b.dom, r.mem, g)
  <2> HIDE DEF s1, key
  <2> QED BY <1>1, <1>3, DictOutcome DEF s1
<1>6. \/ r.status = "NOMEM" /\ r.mem = m1
      \/ /\ r.status = "OK" /\ HeapInv(r.mem, {})
         /\ \E copy \in Nat : Extended(m1, r.mem, q, Entry(key, copy, x))
  BY <1>3, <1>4, DictSet
<1>7. g \in FrameType /\ g.container = q
  <2>1. <<>> \in Seq(Bytes)
    BY EmptySeq
  <2> QED BY <1>2, <2>1 DEF FrameType
<1>8. b.status = r.status
  BY <1>5, OutcomeFields
<1>9. CASE r.status = "NOMEM" /\ r.mem = m1
  <2>1. a = [b EXCEPT !.dom.mem = bencode_value_free(@, x)]
    BY <1>8, <1>9
  <2>2. a.status = "NOMEM" /\ TopIs(s1, a.dom, bencode_value_free(m1, x), g)
    <3> HIDE DEF s1, g
    <3>1. LET h == [b EXCEPT !.dom.mem = bencode_value_free(@, x)]
          IN  h.status = r.status /\ TopIs(s1, h.dom, bencode_value_free(r.mem, x), g)
      BY <1>5, FreedOutcome
    <3> QED BY <1>9, <2>1, <3>1
  <2>3. bencode_value_free(m1, x) = s.mem
    BY FreeNewNode
  <2>4. TopIs(s, a.dom, s.mem, g)
    <3> HIDE DEF s1, g
    <3> QED BY <1>1, <2>2, <2>3 DEF TopIs
  <2> HIDE DEF g
  <2> QED BY <1>7, <2>2, <2>4, TopIsSettled
<1>10. ASSUME r.status = "OK", HeapInv(r.mem, {}),
              NEW copy \in Nat, Extended(m1, r.mem, q, Entry(key, copy, x))
       PROVE  Settled(s, a, x, nd, c)
  <2> DEFINE e == Entry(key, copy, x)
  <2>1. a = b /\ a.status = "OK"
    BY <1>8, <1>10
  <2>2. TopIs(s, a.dom, r.mem, g)
    <3> HIDE DEF s1, g
    <3> QED BY <1>1, <1>5, <2>1 DEF TopIs
  <2>3. e \in EntryType /\ e.value = x /\ e.key = key
    <3>1. x \in Nat
      BY DEF NewNode, Block
    <3> QED BY <1>3, <3>1 DEF EntryType, Entry
  <2>4. Extended(m1, r.mem, q, e)
    BY <1>10
  <2>5. r.mem.node[q].type = old.type /\ r.mem.node[q].entries = Append(old.entries, e)
    <3> HIDE DEF e, old
    <3> QED BY <1>4, <2>4 DEF Extended
  <2>6. LeafAdded(s.mem, r.mem, q, x, nd)
    <3> HIDE DEF e
    <3> QED BY <2>3, <2>4, NewNodeGrows
  <2>7. Agrees(g, r.mem.node[q], c, TRUE, FALSE)
    <3> HIDE DEF e
    <3> QED BY <1>2, <2>3, <2>5, SpentKey
  <2> HIDE DEF g
  <2> QED BY <1>7, <1>10, <2>1, <2>2, <2>6, <2>7, TopIsSettled
<1> QED BY <1>6, <1>9, <1>10

LEMMA AttachList ==
  ASSUME NEW s, DomType(s), HeapInv(s.mem, {}), s.frames # <<>>,
         Last(s.frames).container \in DOMAIN s.mem.node,
         NEW m1, NEW x, NEW nd, Leaf(nd), NewNode(s.mem, m1, x, nd),
         NEW c \in Scope, ~c.expecting_key, ~c.is_dict,
         Agrees(Last(s.frames), s.mem.node[Last(s.frames).container], c, FALSE, FALSE),
         NEW b \in AttachToList([s EXCEPT !.mem = m1], x), NEW a,
         a = IF b.status = "OK" THEN b ELSE [b EXCEPT !.dom.mem = bencode_value_free(@, x)]
  PROVE  Settled(s, a, x, nd, c)
<1> DEFINE f == Last(s.frames)
           q == f.container
           old == s.mem.node[q]
           e == Entry(<<>>, NULL, x)
           s1 == [s EXCEPT !.mem = m1]
<1>1. DomType(s1) /\ s1.mem = m1 /\ s1.root = s.root /\ s1.alloc = s.alloc /\ s1.frames = s.frames
  BY DomWithMem
<1>2. f \in FrameType /\ HeapType(s.mem) /\ old.entries \in Seq(EntryType)
  BY FrameFacts, NodeFacts DEF DomType, HeapInv
<1>3. <<>> \in Bytes /\ old.type = "LIST"
  BY EmptySeq DEF Bytes, Agrees
<1>4. HeapInv(m1, {}) /\ m1.node[q] = old /\ Suits(m1, {}, q, e)
  BY <1>3, NewNodeSuits
<1>5. PICK r \in bencode_list_append(m1, q, x) :
        b = Outcome(b.dom, r.status) /\ TopIs(s1, b.dom, r.mem, f)
  <2> HIDE DEF s1
  <2> QED BY <1>1, ListOutcome DEF s1
<1>6. \/ r.status = "NOMEM" /\ r.mem = m1
      \/ r.status = "OK" /\ HeapInv(r.mem, {}) /\ Extended(m1, r.mem, q, e)
  BY <1>3, <1>4, ListAppend
<1>8. b.status = r.status
  BY <1>5, OutcomeFields
<1>9. CASE r.status = "NOMEM" /\ r.mem = m1
  <2>1. a = [b EXCEPT !.dom.mem = bencode_value_free(@, x)]
    BY <1>8, <1>9
  <2>2. a.status = "NOMEM" /\ TopIs(s1, a.dom, bencode_value_free(m1, x), f)
    <3> HIDE DEF s1, f
    <3>1. LET h == [b EXCEPT !.dom.mem = bencode_value_free(@, x)]
          IN  h.status = r.status /\ TopIs(s1, h.dom, bencode_value_free(r.mem, x), f)
      BY <1>5, FreedOutcome
    <3> QED BY <1>9, <2>1, <3>1
  <2>3. bencode_value_free(m1, x) = s.mem
    BY FreeNewNode
  <2>4. TopIs(s, a.dom, s.mem, f)
    <3> HIDE DEF s1, f
    <3> QED BY <1>1, <2>2, <2>3 DEF TopIs
  <2> QED BY <1>2, <2>2, <2>4, TopIsSettled
<1>10. CASE r.status = "OK" /\ HeapInv(r.mem, {}) /\ Extended(m1, r.mem, q, e)
  <2>1. a = b /\ a.status = "OK"
    BY <1>8, <1>10
  <2>2. TopIs(s, a.dom, r.mem, f)
    <3> HIDE DEF s1, f
    <3> QED BY <1>1, <1>5, <2>1 DEF TopIs
  <2>3. e \in EntryType /\ e.value = x
    <3>1. x \in Nat
      BY DEF NewNode, Block
    <3> QED BY <1>3, <3>1 DEF EntryType, Entry, NULL
  <2>4. r.mem.node[q].type = old.type
    <3> HIDE DEF e, old
    <3> QED BY <1>4, <1>10 DEF Extended
  <2>5. LeafAdded(s.mem, r.mem, q, x, nd)
    <3> HIDE DEF e
    <3> QED BY <1>10, <2>3, NewNodeGrows
  <2>6. Agrees(f, r.mem.node[q], c, TRUE, FALSE)
    <3> DEFINE new == r.mem.node[q]
    <3>1. c.is_dict = FALSE /\ c.expecting_key = FALSE
      BY DEF Scope
    <3>2. Agrees(f, old, c, FALSE, FALSE) /\ new.type = old.type
      BY <2>4
    <3> HIDE DEF f, q, old, new
    <3>3. ~c.is_dict /\ old.type = "LIST" /\ f.expecting_key = FALSE
      BY ONLY <3>1, <3>2 DEF Agrees
    <3>4. f.pending_key = <<>>
      BY ONLY <3>2, <3>3 DEF Agrees
    <3>5. Agrees(f, new, c, TRUE, FALSE)
      BY ONLY <3>1, <3>2, <3>3, <3>4 DEF Agrees
    <3> QED BY <3>5 DEF new, q, f
  <2> HIDE DEF f
  <2> QED BY <1>2, <1>10, <2>1, <2>2, <2>5, <2>6, TopIsSettled DEF f
<1> QED BY <1>6, <1>9, <1>10

\* A node the parser reports goes into the container the parser means.
LEMMA AttachTop ==
  ASSUME NEW s, DomType(s), HeapInv(s.mem, {}), s.frames # <<>>,
         Last(s.frames).container \in DOMAIN s.mem.node,
         NEW m1, NEW x, NEW nd, Leaf(nd), NewNode(s.mem, m1, x, nd),
         NEW c \in Scope, ~c.expecting_key, Ascending(c.keys),
         Agrees(Last(s.frames), s.mem.node[Last(s.frames).container], c, FALSE, FALSE),
         NEW a \in AttachOrFree([s EXCEPT !.mem = m1], x)
  PROVE  Settled(s, a, x, nd, c)
<1> DEFINE q == Last(s.frames).container
           s1 == [s EXCEPT !.mem = m1]
<1>1. s1.mem = m1 /\ s1.frames = s.frames
  BY DomWithMem
<1>2. PICK b \in attach(s1, x) :
        a = IF b.status = "OK" THEN b ELSE [b EXCEPT !.dom.mem = bencode_value_free(@, x)]
  BY DEF AttachOrFree
<1>3. HeapType(s.mem) /\ nd \in NodeType
  BY DEF HeapInv, Leaf
<1>4. m1.node[q] = s.mem.node[q]
  BY <1>3, NewNodeFields
<1>5. CASE c.is_dict
  <2>1. s.mem.node[q].type = "DICT"
    BY <1>5 DEF Agrees
  <2>2. b \in AttachToDict(s1, x)
    <3> HIDE DEF s1
    <3> QED BY <1>1, <1>4, <2>1 DEF attach, IsDict, top
  <2> QED BY <1>2, <1>5, <2>2, AttachDict
<1>6. CASE ~c.is_dict
  <2>1. s.mem.node[q].type = "LIST"
    BY <1>6 DEF Agrees
  <2>2. b \in AttachToList(s1, x)
    <3> HIDE DEF s1
    <3> QED BY <1>1, <1>4, <2>1 DEF attach, IsDict, top
  <2> QED BY <1>2, <1>6, <2>2, AttachList
<1> QED BY <1>5, <1>6

---------------------------------------------------------------------------
(* The builder between two callbacks.                                      *)

Sound(s) == DomType(s) /\ OneTree(s.mem, s.root) /\ OnSpine(s)

\* The n frames agree with the first n scopes; spent says whether the
\* innermost has been told all there is in its scope.
Told(s, sc, n, spent) ==
  /\ Len(s.frames) = n
  /\ \A i \in 1..n : Agrees(s.frames[i], s.mem.node[s.frames[i].container], sc[i], i < n \/ spent, FALSE)

\* What the path of a sound state says of the innermost container.
LEMMA TopFacts ==
  ASSUME NEW s, Sound(s), s.frames # <<>>
  PROVE  /\ Len(s.frames) \in Nat /\ Len(s.frames) \in 1..Len(s.frames)
         /\ DOMAIN s.frames = 1..Len(s.frames)
         /\ Last(s.frames) = s.frames[Len(s.frames)] /\ Last(s.frames) \in FrameType
         /\ Last(s.frames).container \in DOMAIN s.mem.node
         /\ HeapInv(s.mem, {}) /\ HeapType(s.mem)
<1>1. s.frames \in Seq(FrameType) /\ HeapInv(s.mem, {}) /\ OnSpine(s)
  BY DEF Sound, DomType, OneTree
<1>2. /\ Len(s.frames) \in Nat /\ Len(s.frames) \in 1..Len(s.frames)
      /\ DOMAIN s.frames = 1..Len(s.frames)
      /\ Last(s.frames) = s.frames[Len(s.frames)] /\ Last(s.frames) \in FrameType
  BY <1>1, FrameFacts
<1> QED BY <1>1, <1>2 DEF OnSpine, HeapInv

LEMMA SettledSound ==
  ASSUME NEW s, Sound(s), s.frames # <<>>, NEW a, NEW x, NEW nd, NEW c, Settled(s, a, x, nd, c)
  PROVE  Sound(a.dom)
<1> DEFINE t == a.dom
           q == Last(s.frames).container
<1>1. DomType(s) /\ s.frames \in Seq(FrameType) /\ OneTree(s.mem, s.root) /\ OnSpine(s) /\ HeapType(s.mem)
      /\ s.root \in Nat
  BY TopFacts DEF Sound, DomType
<1>2. DomType(t) /\ SamePath(s, t) /\ t.root = s.root
  BY DEF Settled, SamePath
<1>3. CASE t.mem = s.mem
  BY <1>1, <1>2, <1>3, SameSpine DEF Sound
<1>4. CASE HeapInv(t.mem, {}) /\ LeafAdded(s.mem, t.mem, q, x, nd)
  <2>1. OneTree(t.mem, s.root)
    BY <1>1, <1>4, GrownTree
  <2>2. OnSpine(t)
    BY <1>1, <1>2, <1>4, GrownSpine
  <2> QED BY <1>2, <2>1, <2>2 DEF Sound
<1> QED BY <1>3, <1>4 DEF Settled

LEMMA ToldSettled ==
  ASSUME NEW s, Sound(s), s.frames # <<>>, NEW sc, Told(s, sc, Len(s.frames), FALSE),
         NEW a, NEW x, NEW nd, Settled(s, a, x, nd, sc[Len(s.frames)]), a.status = "OK"
  PROVE  Told(a.dom, sc, Len(s.frames), TRUE)
<1> DEFINE t == a.dom
           n == Len(s.frames)
           q == Last(s.frames).container
<1>1. /\ n \in Nat /\ n \in 1..n /\ DOMAIN s.frames = 1..n /\ Last(s.frames) = s.frames[n]
      /\ q \in DOMAIN s.mem.node
  BY TopFacts
<1>2. /\ SamePath(s, t) /\ \A i \in 1..(n - 1) : t.frames[i] = s.frames[i]
      /\ LeafAdded(s.mem, t.mem, q, x, nd)
      /\ Agrees(Last(t.frames), t.mem.node[q], sc[n], TRUE, FALSE)
  BY DEF Settled
<1>3. Len(t.frames) = n /\ Last(t.frames) = t.frames[n] /\ t.frames[n].container = q
  BY <1>1, <1>2 DEF SamePath, Last
<1>4. ASSUME NEW i \in 1..(n - 1)
      PROVE  Agrees(t.frames[i], t.mem.node[t.frames[i].container], sc[i], TRUE, FALSE)
  <2>1. i \in 1..n /\ i # n /\ i < n
    BY <1>1
  <2>2. t.frames[i] = s.frames[i]
    BY <1>2
  <2>3. s.frames[i].container \in DOMAIN s.mem.node /\ s.frames[i].container # q
    <3> HIDE DEF n
    <3> QED BY <1>1, <2>1 DEF Sound, OnSpine
  <2>4. t.mem.node[s.frames[i].container] = s.mem.node[s.frames[i].container]
    BY <1>2, <2>3 DEF LeafAdded
  <2>5. Agrees(s.frames[i], s.mem.node[s.frames[i].container], sc[i], TRUE, FALSE)
    <3>1. (i < n \/ FALSE) = TRUE
      BY <2>1
    <3>2. Agrees(s.frames[i], s.mem.node[s.frames[i].container], sc[i], i < n \/ FALSE, FALSE)
      BY <2>1 DEF Told
    <3> QED BY <3>1, <3>2
  <2> QED BY <2>2, <2>4, <2>5
<1>5. ASSUME NEW i \in 1..n
      PROVE  Agrees(t.frames[i], t.mem.node[t.frames[i].container], sc[i], TRUE, FALSE)
  <2>1. i \in 1..(n - 1) \/ i = n
    BY <1>1
  <2> HIDE DEF n
  <2> QED BY <1>2, <1>3, <1>4, <2>1
<1>6. \A i \in 1..n : (i < n \/ TRUE) = TRUE
  OBVIOUS
<1> QED BY <1>3, <1>5, <1>6 DEF Told

\* The parser comes back to the scope the value was for.
LEMMA ToldDone ==
  ASSUME IInv, scopes # <<>>, NEW t, Told(t, scopes, Len(scopes), TRUE)
  PROVE  Told(t, ValueDone(scopes), Len(scopes), FALSE)
<1> DEFINE n == Len(scopes)
           sc == ValueDone(scopes)
<1>1. n \in Nat /\ \A i \in 1..n : scopes[i] \in Scope
  BY ScopeFacts, ElementOfSeq DEF GoodScopes
<1>2. ASSUME NEW i \in 1..n
      PROVE  Agrees(t.frames[i], t.mem.node[t.frames[i].container], sc[i], i < n \/ FALSE, FALSE)
  <2> DEFINE f == t.frames[i]
             nd == t.mem.node[f.container]
             c == scopes[i]
             c2 == sc[i]
  <2>1. Agrees(f, nd, c, TRUE, FALSE)
    <3>1. (i < n \/ TRUE) = TRUE
      OBVIOUS
    <3>2. Agrees(f, nd, c, i < n \/ TRUE, FALSE)
      BY DEF Told
    <3> QED BY <3>1, <3>2
  <2>2. CASE i < n
    <3>1. c2 = c
      BY <2>2, ValueDoneGood
    <3>2. (i < n \/ FALSE) = TRUE
      BY <2>2
    <3> QED BY <2>1, <3>1, <3>2
  <2>3. CASE i = n
    <3>1. c2.is_dict = c.is_dict /\ c2.expecting_key = c.is_dict /\ c2.keys = c.keys /\ c \in Scope
      <4>1. c \in Scope
        BY <1>1
      <4>2. c2 = [c EXCEPT !.expecting_key = c.is_dict]
        <5>1. Last(scopes) = scopes[n]
          BY ScopeFacts
        <5> QED BY <2>3, <5>1, ValueDoneGood
      <4> HIDE DEF c2, c
      <4> QED BY <4>1, <4>2 DEF Scope
    <3>2. (i < n \/ FALSE) = FALSE
      BY <1>1, <2>3
    <3>3. Agrees(f, nd, c2, FALSE, FALSE)
      <4> HIDE DEF f, nd, c, c2
      <4>1. /\ nd.type = IF c.is_dict THEN "DICT" ELSE "LIST"
            /\ f.expecting_key = c.is_dict /\ f.pending_key = <<>>
            /\ c.is_dict => Len(c.keys) = Len(nd.entries) + Len(f.pending_key)
            /\ c.is_dict => \A k \in DOMAIN nd.entries : nd.entries[k].key = c.keys[k]
        BY <2>1, <3>1 DEF Agrees
      <4> QED BY ONLY <3>1, <4>1 DEF Agrees
    <3> HIDE DEF f, nd, c2
    <3>4. Agrees(f, nd, c2, i < n \/ FALSE, FALSE)
      BY ONLY <3>2, <3>3, Zenon
    <3> QED BY ONLY <3>4, Zenon DEF f, nd, c2
  <2>4. i < n \/ i = n
    BY <1>1
  <2> QED BY ONLY <2>2, <2>3, <2>4, Zenon
<1>3. Len(t.frames) = n
  BY DEF Told
<1> QED BY <1>2, <1>3 DEF Told

\* The first node is the root.
LEMMA RootAttached ==
  ASSUME NEW s, Sound(s), s.frames = <<>>, s.root = NULL,
         NEW m1, NEW x, NEW nd, Leaf(nd), NewNode(s.mem, m1, x, nd),
         NEW a \in AttachOrFree([s EXCEPT !.mem = m1], x)
  PROVE  /\ a.status = "OK" /\ Sound(a.dom) /\ a.dom.mem = m1
         /\ a.dom.root = x /\ a.dom.frames = <<>>
<1> DEFINE s1 == [s EXCEPT !.mem = m1]
           t == [s1 EXCEPT !.root = x]
<1>1. /\ DomType(s) /\ HeapInv(s.mem, {}) /\ HeapType(s.mem) /\ DOMAIN s.mem.node = Tree(s.mem, NULL)
      /\ nd \in NodeType /\ nd.entries = <<>>
  BY DEF Sound, OneTree, HeapInv, Leaf
<1>2. DomType(s1) /\ s1.mem = m1 /\ s1.frames = <<>>
  BY <1>1, DomWithMem
<1>3. /\ x \in Nat /\ DOMAIN m1.node = DOMAIN s.mem.node \cup {x} /\ m1.node[x] = nd
      /\ HeapInv(m1, {})
  BY <1>1, NewNodeFields, NewNodeInv
<1>4. DomType(t) /\ t.mem = m1 /\ t.root = x /\ t.frames = <<>>
  <2> HIDE DEF s1
  <2> QED BY <1>2, <1>3, DomWithRoot
<1>5. a = Outcome(t, "OK")
  <2>1. PICK b \in attach(s1, x) :
          a = IF b.status = "OK" THEN b ELSE [b EXCEPT !.dom.mem = bencode_value_free(@, x)]
    BY DEF AttachOrFree
  <2>2. b = Outcome(t, "OK")
    BY <1>2, <2>1 DEF attach
  <2>3. b.status = "OK"
    <3> HIDE DEF t
    <3> QED BY <2>2, OutcomeFields
  <2> QED BY <2>1, <2>2, <2>3
<1>6. DOMAIN m1.node = {x}
  BY <1>1, <1>3, TreeOfNull
<1>7. Tree(m1, x) = {x}
  BY <1>1, <1>3, <1>6, TreeOfLeaf DEF HeapInv
<1>8. Sound(t)
  <2>1. DOMAIN t.frames = {}
    BY <1>4
  <2>2. OnSpine(t)
    BY <2>1 DEF OnSpine
  <2>3. OneTree(t.mem, t.root)
    <3>1. Children(m1, x) = {}
      BY <1>1, <1>3 DEF Children
    <3> HIDE DEF t
    <3> QED BY <1>3, <1>4, <1>6, <1>7, <3>1 DEF OneTree
  <2> QED BY <1>4, <2>2, <2>3 DEF Sound
<1>9. a.status = "OK" /\ a.dom = t
  <2> HIDE DEF t
  <2> QED BY <1>5, OutcomeFields
<1> HIDE DEF t
<1> QED BY <1>4, <1>8, <1>9

\* b is t with the n-th frame pushed.
Pushed(t, b, sc, n) ==
  /\ b.status = "OK" /\ Sound(b.dom) /\ Told(b.dom, sc, n, FALSE)
  /\ b.dom.mem = t.mem /\ b.dom.root = t.root /\ Waiting(b.dom) = <<>>

\* The new leaf becomes the innermost container.
LEMMA ToldPushed ==
  ASSUME NEW t, Sound(t), NEW n \in Nat, n < depth_cap, NEW sc, Told(t, sc, n, TRUE),
         NEW is_dict \in BOOLEAN, sc[n + 1] = NewScope(is_dict),
         NEW x \in DOMAIN t.mem.node, t.mem.node[x].entries = <<>>,
         t.mem.node[x].type = IF is_dict THEN "DICT" ELSE "LIST",
         \A i \in DOMAIN t.frames : t.frames[i].container # x,
         t.frames = <<>> => t.root = x,
         t.frames # <<>> => LastIs(t.mem, Last(t.frames).container, x)
  PROVE  Pushed(t, PushFrame(t, x, is_dict), sc, n + 1)
<1> DEFINE f == dom_frame(x, is_dict)
           fs == Append(t.frames, f)
           u == [t EXCEPT !.frames = fs]
<1>1. /\ DomType(t) /\ t.frames \in Seq(FrameType) /\ HeapInv(t.mem, {}) /\ HeapType(t.mem)
      /\ OneTree(t.mem, t.root) /\ OnSpine(t) /\ Len(t.frames) = n
  BY DEF Sound, DomType, OneTree, HeapInv, Told
<1>2. f \in FrameType /\ f.container = x /\ f.expecting_key = is_dict /\ f.pending_key = <<>>
  <2>1. x \in Nat /\ <<>> \in Seq(Bytes)
    BY <1>1, EmptySeq DEF HeapType, Block
  <2> QED BY <2>1 DEF dom_frame, FrameType
<1> HIDE DEF f
<1>3. /\ fs \in Seq(FrameType) /\ Len(fs) = n + 1 /\ fs[n + 1] = f
      /\ \A i \in 1..n : fs[i] = t.frames[i]
  BY <1>1, <1>2, AppendFacts
<1> HIDE DEF fs
<1>4. DomType(u) /\ u.mem = t.mem /\ u.root = t.root /\ u.frames = fs
  BY <1>1, <1>3, DomWithFrames
<1>5. PushFrame(t, x, is_dict) = Outcome(u, "OK")
  BY <1>1, DepthAssumption DEF PushFrame, depth_cap, fs, f
<1>6. OnSpine(u)
  <2> HIDE DEF u
  <2>1. f.container \in DOMAIN t.mem.node /\ u.frames = Append(t.frames, f)
    BY <1>2, <1>4 DEF fs
  <2> QED BY <1>1, <1>2, <1>4, <2>1, PushedSpine
<1>7. Sound(u)
  <2> HIDE DEF u
  <2> QED BY <1>1, <1>4, <1>6 DEF Sound
<1>8. Told(u, sc, n + 1, FALSE)
  <2> HIDE DEF u
  <2>1. ASSUME NEW i \in 1..n
        PROVE  Agrees(u.frames[i], u.mem.node[u.frames[i].container], sc[i], i < n + 1 \/ FALSE, FALSE)
    <3>1. Agrees(t.frames[i], t.mem.node[t.frames[i].container], sc[i], i < n \/ TRUE, FALSE)
      BY DEF Told
    <3>2. u.frames[i] = t.frames[i] /\ u.mem = t.mem
      BY <1>3, <1>4
    <3>3. (i < n + 1 \/ FALSE) = (i < n \/ TRUE)
      OBVIOUS
    <3> QED BY ONLY <3>1, <3>2, <3>3, Zenon
  <2>2. Agrees(u.frames[n + 1], u.mem.node[u.frames[n + 1].container], sc[n + 1], n + 1 < n + 1 \/ FALSE, FALSE)
    <3> DEFINE c == sc[n + 1]
               nd == u.mem.node[u.frames[n + 1].container]
    <3>1. c.is_dict = is_dict /\ c.expecting_key = is_dict /\ c.keys = <<>>
      BY DEF NewScope
    <3>2. u.frames[n + 1] = f /\ nd = t.mem.node[x]
      BY <1>2, <1>3, <1>4
    <3>3. nd.entries = <<>> /\ nd.type = IF is_dict THEN "DICT" ELSE "LIST"
      BY <3>2
    <3>4. (n + 1 < n + 1 \/ FALSE) = FALSE
      OBVIOUS
    <3> HIDE DEF c, nd
    <3>5. Len(c.keys) = 0 /\ Len(nd.entries) = 0 /\ DOMAIN nd.entries = {} /\ Len(f.pending_key) = 0
      BY <1>2, <3>1, <3>3
    <3>6. Agrees(f, nd, c, FALSE, FALSE)
      BY <1>2, <3>1, <3>3, <3>5 DEF Agrees
    <3> QED BY <3>2, <3>4, <3>6, Zenon DEF c, nd
  <2>3. \A i \in 1..(n + 1) : i \in 1..n \/ i = n + 1
    OBVIOUS
  <2>4. \A i \in 1..(n + 1) :
          Agrees(u.frames[i], u.mem.node[u.frames[i].container], sc[i], i < n + 1 \/ FALSE, FALSE)
    BY ONLY <2>1, <2>2, <2>3, Zenon
  <2>5. Len(u.frames) = n + 1
    BY <1>3, <1>4
  <2> QED BY ONLY <2>4, <2>5, Zenon DEF Told
<1>9. PushFrame(t, x, is_dict).status = "OK" /\ PushFrame(t, x, is_dict).dom = u
  <2> HIDE DEF u
  <2> QED BY <1>5, OutcomeFields
<1>10. Waiting(u) = <<>>
  <2> HIDE DEF u
  <2>1. Last(u.frames) = f
    BY <1>1, <1>3, <1>4 DEF Last
  <2> QED BY <1>2, <2>1 DEF Waiting, top
<1> HIDE DEF u
<1> QED BY <1>4, <1>7, <1>8, <1>9, <1>10 DEF Pushed

---------------------------------------------------------------------------
(* What the tree spells while it grows.                                    *)

LEMMA EndsFacts ==
  ASSUME NEW n \in Nat
  PROVE  /\ Ends(n) \in Bytes /\ Len(Ends(n)) = n /\ Ends(0) = <<>> /\ <<ch_e>> \in Bytes
         /\ Ends(n + 1) = <<ch_e>> \o Ends(n) /\ Ends(n + 1) = Ends(n) \o <<ch_e>>
<1>1. ch_e \in Byte
  BY DEF Byte, ch_e
<1>2. ASSUME NEW k \in Nat
      PROVE  /\ Ends(k) \in Seq(Byte) /\ Len(Ends(k)) = k
             /\ \A i \in 1..k : Ends(k)[i] = ch_e
  <2>1. Ends(k) \in [1..k -> Byte]
    BY <1>1 DEF Ends
  <2> QED BY <2>1 DEF Ends
<1>3. /\ Ends(n) \in Seq(Byte) /\ Len(Ends(n)) = n /\ \A i \in 1..n : Ends(n)[i] = ch_e
      /\ Ends(n + 1) \in Seq(Byte) /\ Len(Ends(n + 1)) = n + 1
      /\ \A i \in 1..(n + 1) : Ends(n + 1)[i] = ch_e
  BY <1>2
<1>4. Ends(0) = <<>>
  <2>1. Ends(0) \in Seq(Byte) /\ Len(Ends(0)) = 0
    BY <1>2
  <2> QED BY <2>1, EmptySeq
<1> DEFINE e == <<ch_e>>
<1>5. e \in Seq(Byte) /\ Len(e) = 1 /\ e[1] = ch_e
  BY <1>1
<1> HIDE DEF e
<1>6. ASSUME NEW a \in Seq(Byte), NEW b \in Seq(Byte), Len(a) + Len(b) = n + 1,
             \A i \in 1..Len(a) : a[i] = ch_e, \A i \in 1..Len(b) : b[i] = ch_e
      PROVE  Ends(n + 1) = a \o b
  <2>1. /\ a \o b \in Seq(Byte) /\ Len(a \o b) = n + 1
        /\ \A i \in 1..(n + 1) : (a \o b)[i] = IF i <= Len(a) THEN a[i] ELSE b[i - Len(a)]
    BY <1>6, ConcatProperties
  <2>2. Len(a) \in Nat /\ Len(b) \in Nat
    BY LenProperties
  <2>3. ASSUME NEW i \in 1..(n + 1)
        PROVE  (a \o b)[i] = ch_e
    <3>1. CASE i <= Len(a)
      <4>1. i \in 1..Len(a)
        BY <2>2, <3>1
      <4> QED BY <1>6, <2>1, <3>1, <4>1
    <3>2. CASE ~(i <= Len(a))
      <4>1. i - Len(a) \in 1..Len(b)
        BY <1>6, <2>2, <3>2
      <4> QED BY <1>6, <2>1, <3>2, <4>1
    <3> QED BY <3>1, <3>2
  <2> QED BY <1>3, <2>1, <2>3, SeqEqual
<1>7. Ends(n + 1) = e \o Ends(n) /\ Ends(n + 1) = Ends(n) \o e
  <2>1. Len(e) + Len(Ends(n)) = n + 1 /\ Len(Ends(n)) + Len(e) = n + 1
    BY <1>3, <1>5
  <2>2. \A i \in 1..Len(e) : e[i] = ch_e
    BY <1>5
  <2> QED BY <1>3, <1>5, <1>6, <2>1, <2>2
<1> QED BY <1>3, <1>4, <1>5, <1>7 DEF Bytes, e

\* Spells, without the arithmetic.
LEMMA SpellsAs ==
  ASSUME NEW s, s.root # NULL, Spelling(s.mem, s.root) \in Bytes, Len(s.frames) \in Nat, NEW told
  PROVE  Spells(s, told) <=>
           \E doc \in Bytes : /\ Spelling(s.mem, s.root) = doc \o Ends(Len(s.frames))
                              /\ told = doc \o Waiting(s)
<1> DEFINE open == Len(s.frames)
           all  == Spelling(s.mem, s.root)
           so_far == SubSeq(all, 1, Len(all) - open)
<1>1. Spells(s, told) <=> open <= Len(all) /\ all = so_far \o Ends(open) /\ told = so_far \o Waiting(s)
  BY DEF Spells
<1>2. ASSUME open <= Len(all)
      PROVE  so_far \in Bytes
  <2>1. all \in Seq(Byte) /\ Len(all) \in Nat
    BY BytesConcat DEF Bytes
  <2>2. open \in Nat
    OBVIOUS
  <2> HIDE DEF all, open
  <2>3. Len(all) - open \in 0..Len(all)
    BY <1>2, <2>1, <2>2
  <2> QED BY <2>1, <2>3, SubSeqProperties DEF Bytes
<1>3. ASSUME NEW doc \in Bytes, all = doc \o Ends(open)
      PROVE  open <= Len(all) /\ so_far = doc
  <2>1. Ends(open) \in Bytes /\ Len(Ends(open)) = open
    BY EndsFacts
  <2>2. doc = SubSeq(all, 1, Len(doc)) /\ Len(all) = Len(doc) + open /\ Len(doc) \in Nat
    <3> HIDE DEF all, open
    <3> QED BY <1>3, <2>1, FirstPart
  <2>3. Len(all) - open = Len(doc) /\ open <= Len(all)
    <3> HIDE DEF all
    <3> QED BY <2>2
  <2> QED BY <2>2, <2>3
<1> HIDE DEF so_far, all, open
<1> QED BY <1>1, <1>2, <1>3 DEF all, open

\* Of a sound state with a root, every node of the heap has a spelling.
LEMMA SoundSpells ==
  ASSUME NEW s, Sound(s)
  PROVE  /\ \A n \in DOMAIN s.mem.node :
              /\ SpellsEntries(s.mem.node[n], Spellings(s.mem), DOMAIN s.mem.node)
              /\ Spellings(s.mem)[n] \in Bytes
              /\ Spellings(s.mem)[n] = EncodeNode(s.mem.node[n], Spellings(s.mem))
         /\ s.root # NULL => s.root \in DOMAIN s.mem.node /\ Spelling(s.mem, s.root) \in Bytes
         /\ Len(s.frames) \in Nat
<1>1. s.root \in Nat /\ OneTree(s.mem, s.root) /\ Len(s.frames) \in Nat
  BY FrameFacts DEF Sound, DomType
<1>2. \A n \in DOMAIN s.mem.node :
        /\ SpellsEntries(s.mem.node[n], Spellings(s.mem), DOMAIN s.mem.node)
        /\ Spellings(s.mem)[n] \in Bytes
        /\ Spellings(s.mem)[n] = EncodeNode(s.mem.node[n], Spellings(s.mem))
  BY <1>1, TreeSpelt
<1>3. s.root # NULL => s.root \in DOMAIN s.mem.node
  <2>1. HeapType(s.mem) /\ HeldOnce(s.mem, {}) /\ DOMAIN s.mem.node = Tree(s.mem, s.root)
    BY <1>1 DEF OneTree, HeapInv
  <2> QED BY <1>1, <2>1, RootInTree
<1> QED BY <1>1, <1>2, <1>3 DEF Spelling

\* Only the entry that closes one step of the path leads to a container on it.
LEMMA ChildOnSpine ==
  ASSUME NEW s, Sound(s), NEW n \in DOMAIN s.mem.node, NEW k \in DOMAIN s.mem.node[n].entries,
         NEW j \in 1..Len(s.frames), s.mem.node[n].entries[k].value = s.frames[j].container
  PROVE  j > 1 /\ n = s.frames[j - 1].container /\ k = Len(s.mem.node[n].entries)
<1>1. /\ OneTree(s.mem, s.root) /\ OneParent(s.mem) /\ HeapType(s.mem) /\ OnSpine(s)
      /\ DOMAIN s.frames = 1..Len(s.frames) /\ Len(s.frames) \in Nat
  BY FrameFacts DEF Sound, DomType, OneTree, HeapInv
<1>2. j # 1
  <2>1. s.root \notin Children(s.mem, n)
    BY <1>1 DEF OneTree
  <2>2. s.frames[j].container \in Children(s.mem, n)
    BY DEF Children
  <2> QED BY <1>1, <2>1, <2>2 DEF OnSpine
<1>3. j > 1 /\ j - 1 \in 1..Len(s.frames)
  BY <1>1, <1>2
<1> DEFINE q == s.frames[j - 1].container
           len == Len(s.mem.node[q].entries)
<1>4. q \in DOMAIN s.mem.node /\ LastIs(s.mem, q, s.frames[j].container)
  BY <1>1, <1>3 DEF OnSpine
<1>5. len \in DOMAIN s.mem.node[q].entries /\ s.mem.node[q].entries[len].value = s.frames[j].container
  <2>1. /\ s.mem.node[q].entries \in Seq(EntryType) /\ len \in Nat /\ DOMAIN s.mem.node[q].entries = 1..len
    BY <1>1, <1>4, NodeFacts
  <2>2. s.mem.node[q].entries # <<>> /\ Last(s.mem.node[q].entries).value = s.frames[j].container
    BY <1>4 DEF LastIs
  <2>3. len # 0
    BY <2>1, <2>2, EmptySeq
  <2>4. Last(s.mem.node[q].entries) = s.mem.node[q].entries[len]
    BY DEF Last
  <2> HIDE DEF len
  <2>5. len \in 1..len
    BY <2>1, <2>3
  <2> QED BY <2>1, <2>2, <2>4, <2>5
<1>6. q = n /\ len = k
  <2> HIDE DEF q, len
  <2> QED BY <1>1, <1>4, <1>5 DEF OneParent
<1> QED BY <1>3, <1>6

\* What comes before the value of an entry.
KeyOf(nd, k) == IF nd.type = "DICT" THEN EncodeString(nd.entries[k].key) ELSE <<>>

LEMMA EntrySpelt ==
  ASSUME NEW nd \in NodeType, NEW k \in DOMAIN nd.entries, NEW of,
         of[nd.entries[k].value] \in Bytes
  PROVE  /\ KeyOf(nd, k) \in Bytes
         /\ EncodeEntry(nd, k, of) = KeyOf(nd, k) \o of[nd.entries[k].value]
<1>1. nd.entries[k].key \in Bytes
  <2>1. nd.entries \in Seq(EntryType)
    BY DEF NodeType
  <2>2. nd.entries[k] \in EntryType
    BY <2>1, ElementOfSeq, LenProperties
  <2> QED BY <2>2 DEF EntryType
<1>2. EncodeString(nd.entries[k].key) \in Bytes
  BY <1>1, EncodedBytes
<1> QED BY <1>2, BytesEmpty DEF KeyOf, EncodeEntry

\* A new last entry of the innermost container appears in the spelling of the
\* document where the ends of the open containers begin.
LEMMA GrowthSpells ==
  ASSUME NEW s, Sound(s), s.frames # <<>>, NEW t, Sound(t), SamePath(s, t), NEW x, NEW nd,
         LeafAdded(s.mem, t.mem, Last(s.frames).container, x, nd),
         \A i \in 1..Len(s.frames) : s.mem.node[s.frames[i].container].type \in {"LIST", "DICT"}
  PROVE  LET q   == Last(s.frames).container
             new == EncodeEntry(t.mem.node[q], Len(t.mem.node[q].entries), Spellings(t.mem))
         IN  /\ new \in Bytes
             /\ \E doc \in Bytes :
                  /\ Spelling(s.mem, s.root) = doc \o Ends(Len(s.frames))
                  /\ Spelling(t.mem, t.root) = (doc \o new) \o Ends(Len(s.frames))
<1> DEFINE n    == Len(s.frames)
           c(i) == s.frames[i].container
           q    == Last(s.frames).container
           sp   == Spellings(s.mem)
           sp2  == Spellings(t.mem)
           old  == s.mem.node[q]
           grown == t.mem.node[q]
           new  == EncodeEntry(grown, Len(grown.entries), sp2)
           e    == <<ch_e>>
           N    == {k \in DOMAIN s.mem.node : \A i \in 1..n : k # c(i)}
           Claim(i) == \E y \in Bytes : /\ sp[c(i)] = y \o Ends(n - i + 1)
                                        /\ sp2[c(i)] = (y \o new) \o Ends(n - i + 1)
<1>1. /\ n \in Nat /\ n \in 1..n /\ q = c(n) /\ q \in DOMAIN s.mem.node /\ HeapType(s.mem)
      /\ DOMAIN s.frames = 1..n
  BY TopFacts
<1>2. /\ s.root \in Nat /\ OneTree(s.mem, s.root) /\ OneParent(s.mem) /\ OnSpine(s)
      /\ t.root \in Nat /\ OneTree(t.mem, t.root) /\ t.root = s.root /\ HeapType(t.mem)
  BY DEF Sound, DomType, OneTree, HeapInv, SamePath
<1>3. /\ \A i \in 1..n : c(i) \in DOMAIN s.mem.node /\ (i = 1 => c(i) = s.root)
      /\ \A i \in 1..n : i > 1 => LastIs(s.mem, c(i - 1), c(i))
      /\ \A i, j \in 1..n : i # j => c(i) # c(j)
  BY <1>1, <1>2 DEF OnSpine
<1>4. /\ x \notin DOMAIN s.mem.node /\ DOMAIN t.mem.node = DOMAIN s.mem.node \cup {x}
      /\ \A k \in DOMAIN s.mem.node \ {q} : t.mem.node[k] = s.mem.node[k]
      /\ grown.type = old.type
  BY DEF LeafAdded
<1>5. PICK en \in EntryType : en.value = x /\ grown.entries = Append(old.entries, en)
  BY DEF LeafAdded
<1>6. /\ \A k \in DOMAIN s.mem.node :
           /\ s.mem.node[k] \in NodeType /\ SpellsEntries(s.mem.node[k], sp, DOMAIN s.mem.node)
           /\ sp[k] \in Bytes /\ sp[k] = EncodeNode(s.mem.node[k], sp)
      /\ \A k \in DOMAIN t.mem.node :
           /\ t.mem.node[k] \in NodeType /\ SpellsEntries(t.mem.node[k], sp2, DOMAIN t.mem.node)
           /\ sp2[k] \in Bytes /\ sp2[k] = EncodeNode(t.mem.node[k], sp2)
  BY <1>1, <1>2, SoundSpells DEF SpellsEntries
<1>0. \A m \in Nat : \A j \in 1..m : j > 1 => j - 1 \in 1..m /\ j - 1 # m
  OBVIOUS
<1>7. \A i \in 1..n : \A k \in DOMAIN s.mem.node[c(i)].entries :
        i = n \/ k # Len(s.mem.node[c(i)].entries) => s.mem.node[c(i)].entries[k].value \in N
  <2> SUFFICES ASSUME NEW i \in 1..n, NEW k \in DOMAIN s.mem.node[c(i)].entries,
                      i = n \/ k # Len(s.mem.node[c(i)].entries),
                      NEW j \in 1..n, s.mem.node[c(i)].entries[k].value = c(j)
               PROVE  FALSE
    BY <1>2, <1>3 DEF OneParent
  <2>1. c(i) \in DOMAIN s.mem.node
    BY <1>3
  <2>2. j > 1 /\ c(i) = c(j - 1) /\ k = Len(s.mem.node[c(i)].entries)
    BY <2>1, ChildOnSpine
  <2>3. j - 1 \in 1..n /\ j - 1 # n
    BY <1>0, <1>1, <2>2
  <2> QED BY <1>3, <2>2, <2>3
<1>8. \A k \in N : \A j \in DOMAIN s.mem.node[k].entries : s.mem.node[k].entries[j].value \in N
  <2> SUFFICES ASSUME NEW k \in N, NEW j \in DOMAIN s.mem.node[k].entries
               PROVE  s.mem.node[k].entries[j].value \in N
    OBVIOUS
  <2>1. s.mem.node[k].entries[j].value \in DOMAIN s.mem.node
    BY <1>2 DEF OneParent
  <2>2. ASSUME NEW i \in 1..n, s.mem.node[k].entries[j].value = c(i)
        PROVE  FALSE
    <3>1. i > 1 /\ k = c(i - 1)
      BY <2>2, ChildOnSpine
    <3>2. i - 1 \in 1..n
      BY <1>0, <1>1, <3>1
    <3> QED BY <3>1, <3>2
  <2> QED BY <2>1, <2>2
<1>9. \A k \in N : sp2[k] = sp[k]
  <2>1. \A k \in N : k \in DOMAIN s.mem.node /\ k \in DOMAIN t.mem.node /\ t.mem.node[k] = s.mem.node[k]
    BY <1>1, <1>4
  <2> HIDE DEF N
  <2> QED BY <1>2, <1>8, <2>1, SpelledApart
<1>10. e \in Bytes /\ \A k \in Nat : Ends(k) \in Bytes /\ Ends(k + 1) = Ends(k) \o e /\ Ends(1) = e
  <2>1. Ends(0 + 1) = <<ch_e>> \o Ends(0) /\ Ends(0) = <<>> /\ <<ch_e>> \in Bytes
    BY EndsFacts
  <2>2. Ends(1) = e
    BY <2>1, BytesEmpty
  <2> QED BY <2>2, EndsFacts
<1> HIDE DEF N, sp, sp2, e
<1>11. new \in Bytes /\ Claim(n)
  <2> DEFINE len == Len(old.entries)
             begun == Begun(old, len, sp)
  <2>1. /\ old.entries \in Seq(EntryType) /\ len \in Nat /\ DOMAIN old.entries = 1..len
    BY <1>1, NodeFacts
  <2>2. /\ Len(grown.entries) = len + 1 /\ \A k \in 1..len : grown.entries[k] = old.entries[k]
    <3> HIDE DEF old, grown
    <3> QED BY <1>5, <2>1, AppendFacts
  <2>3. SpellsEntries(old, sp, DOMAIN s.mem.node) /\ SpellsEntries(grown, sp2, DOMAIN t.mem.node)
        /\ old.type \in {"LIST", "DICT"} /\ grown.type \in {"LIST", "DICT"}
    BY <1>1, <1>4, <1>6
  <2>4. begun \in Bytes /\ EncodeNode(old, sp) = begun \o e
    <3> HIDE DEF old, len
    <3>1. len <= len
      BY <2>1
    <3> QED BY <2>1, <2>3, <3>1, BegunGrows DEF len, e
  <2>5. Begun(grown, len, sp2) = begun
    <3>1. \A k \in 1..len : sp2[old.entries[k].value] = sp[old.entries[k].value]
      BY <1>1, <1>7, <1>9, <2>1
    <3>2. grown.type = old.type /\ len \in Nat /\ \A k \in 1..len : grown.entries[k] = old.entries[k]
      BY <1>4, <2>1, <2>2
    <3> HIDE DEF old, grown, len
    <3>3. \A k \in 1..len : EncodeEntry(grown, k, sp2) = EncodeEntry(old, k, sp)
      BY <3>1, <3>2 DEF EncodeEntry
    <3>4. [k \in 1..len |-> EncodeEntry(grown, k, sp2)] = [k \in 1..len |-> EncodeEntry(old, k, sp)]
      BY <3>3
    <3> QED BY <3>2, <3>4 DEF Begun
  <2>6. new \in Bytes /\ EncodeNode(grown, sp2) = (Begun(grown, len, sp2) \o new) \o e
    <3> HIDE DEF grown, len
    <3>1. len \in Nat /\ len + 1 = Len(grown.entries)
      BY <2>1, <2>2
    <3>2. LastApart(grown, len, sp2)
      BY <2>3, <3>1, LastEntryApart
    <3> QED BY <3>1, <3>2 DEF LastApart, e
  <2>7. sp[c(n)] = begun \o e /\ sp2[c(n)] = (begun \o new) \o e
    BY <1>1, <1>4, <1>6, <2>4, <2>5, <2>6
  <2>8. Ends(n - n + 1) = e
    <3>1. n - n + 1 = 1
      BY <1>1
    <3> QED BY <1>10, <3>1
  <2> HIDE DEF begun, new
  <2> QED BY <2>4, <2>6, <2>7, <2>8
<1> HIDE DEF new
<1>12. ASSUME NEW i \in 1..n, i < n, Claim(i + 1) PROVE Claim(i)
  <2> DEFINE o == s.mem.node[c(i)]
             len == Len(o.entries)
             most == len - 1
             begun == Begun(o, most, sp)
             key == KeyOf(o, len)
             child == c(i + 1)
             ends == Ends(n - i)
  <2>1. i + 1 \in 1..n /\ i + 1 > 1 /\ (i + 1) - 1 = i /\ i \in Nat /\ i # n /\ n - i \in Nat
        /\ n - (i + 1) + 1 = n - i
    BY <1>1, <1>12
  <2>2. /\ c(i) \in DOMAIN s.mem.node /\ c(i) # q /\ t.mem.node[c(i)] = o /\ LastIs(s.mem, c(i), child)
        /\ child \in DOMAIN s.mem.node /\ child \in DOMAIN t.mem.node /\ c(i) \in DOMAIN t.mem.node
    <3>1. c(i) \in DOMAIN s.mem.node /\ child \in DOMAIN s.mem.node
      BY <1>1, <1>3, <1>4, <1>12, <2>1
    <3>2. c(i) # q /\ LastIs(s.mem, c(i), child)
      BY <1>1, <1>3, <1>4, <1>12, <2>1
    <3>3. child \in DOMAIN t.mem.node /\ c(i) \in DOMAIN t.mem.node
      BY <1>1, <1>3, <1>4, <1>12, <2>1, <3>1
    <3>4. t.mem.node[c(i)] = o
      BY <1>1, <1>3, <1>4, <1>12, <2>1, <3>1, <3>2
    <3> QED BY <3>1, <3>2, <3>3, <3>4
  <2>3. /\ o.entries \in Seq(EntryType) /\ len \in Nat /\ DOMAIN o.entries = 1..len
    BY <1>1, <2>2, NodeFacts
  <2>4. len # 0 /\ o.entries[len].value = child
    BY <2>2, <2>3, EmptySeq DEF LastIs, Last
  <2>5. most \in Nat /\ most + 1 = len /\ most < len /\ most <= len /\ len <= len
        /\ len \in DOMAIN o.entries
    <3> HIDE DEF len
    <3>1. len \in Nat /\ len # 0 /\ DOMAIN o.entries = 1..len
      BY <2>3, <2>4
    <3> HIDE DEF o
    <3>2. most \in Nat /\ most + 1 = len /\ most < len /\ most <= len /\ len <= len
      BY <3>1
    <3>3. len \in 1..len
      BY <3>1
    <3> QED BY <3>1, <3>2, <3>3
  <2>6. SpellsEntries(o, sp, DOMAIN s.mem.node) /\ SpellsEntries(o, sp2, DOMAIN t.mem.node)
        /\ o.type \in {"LIST", "DICT"} /\ o \in NodeType
    BY <1>6, <1>12, <2>2
  <2>7. sp[child] \in Bytes /\ sp2[child] \in Bytes /\ sp[c(i)] = EncodeNode(o, sp) /\ sp2[c(i)] = EncodeNode(o, sp2)
    BY <1>6, <2>2
  <2>8. ASSUME NEW S, NEW of, SpellsEntries(o, of, S)
        PROVE  /\ Begun(o, most, of) \in Bytes
               /\ EncodeNode(o, of) = (Begun(o, most, of) \o EncodeEntry(o, len, of)) \o e
    <3> HIDE DEF o, most
    <3>1. LastApart(o, most, of)
      BY <2>5, <2>6, <2>8, LastEntryApart
    <3> QED BY <2>5, <3>1 DEF LastApart, e
  <2>9. Begun(o, most, sp2) = begun
    <3>1. \A k \in 1..most : sp2[o.entries[k].value] = sp[o.entries[k].value]
      <4> SUFFICES ASSUME NEW k \in 1..most PROVE sp2[o.entries[k].value] = sp[o.entries[k].value]
        OBVIOUS
      <4>1. k \in DOMAIN o.entries /\ k # len
        <5> HIDE DEF len
        <5> QED BY <2>3
      <4>2. o.entries[k].value \in N
        BY <1>7, <4>1
      <4> QED BY <1>9, <4>2
    <3> HIDE DEF o, most
    <3>2. \A k \in 1..most : EncodeEntry(o, k, sp2) = EncodeEntry(o, k, sp)
      BY <3>1 DEF EncodeEntry
    <3>3. [k \in 1..most |-> EncodeEntry(o, k, sp2)] = [k \in 1..most |-> EncodeEntry(o, k, sp)]
      BY <3>2
    <3> QED BY <3>3 DEF Begun
  <2>10. /\ key \in Bytes /\ EncodeEntry(o, len, sp) = key \o sp[child] /\ EncodeEntry(o, len, sp2) = key \o sp2[child]
    <3> HIDE DEF o, len, child
    <3> QED BY <2>4, <2>5, <2>6, <2>7, EntrySpelt
  <2>11. PICK y \in Bytes : sp[child] = y \o ends /\ sp2[child] = (y \o new) \o ends
    BY <1>12, <2>1
  <2>12. begun \in Bytes /\ ends \in Bytes /\ Ends(n - i + 1) = ends \o e
    BY <1>10, <2>1, <2>6, <2>8
  <2>13. /\ sp[c(i)] = (begun \o (key \o (y \o ends))) \o e
         /\ sp2[c(i)] = (begun \o (key \o ((y \o new) \o ends))) \o e
    <3> HIDE DEF o, len, child, begun, key, ends
    <3> QED BY <2>6, <2>7, <2>8, <2>9, <2>10, <2>11 DEF begun
  <2> HIDE DEF begun, key, ends, o, child
  <2> DEFINE z == (begun \o key) \o y
  <2>14. z \in Bytes /\ y \o new \in Bytes /\ begun \o key \in Bytes
    BY <1>11, <2>10, <2>11, <2>12, BytesConcat
  <2>15. begun \in Bytes /\ key \in Bytes /\ y \in Bytes /\ ends \in Bytes /\ e \in Bytes
    BY <1>10, <2>10, <2>12
  <2>16. sp[c(i)] = z \o (ends \o e)
    <3>1. Joined(Joined(begun, Joined(key, Joined(y, ends))), e)
            = Joined(Joined(Joined(begun, key), y), Joined(ends, e))
      BY <2>15, FiveParts
    <3> QED BY <2>13, <3>1 DEF Joined
  <2>17. sp2[c(i)] = ((begun \o key) \o (y \o new)) \o (ends \o e)
    <3>1. PICK yn \in Bytes : yn = y \o new
      BY <2>14
    <3>2. Joined(Joined(begun, Joined(key, Joined(yn, ends))), e)
            = Joined(Joined(Joined(begun, key), yn), Joined(ends, e))
      BY <2>15, <3>1, FiveParts
    <3> QED BY <2>13, <3>1, <3>2 DEF Joined
  <2>18. (begun \o key) \o (y \o new) = z \o new
    <3>1. begun \o key \in Bytes /\ y \in Bytes /\ new \in Bytes
      BY <1>11, <2>11, <2>14, BytesConcat
    <3>2. ((begun \o key) \o y) \o new = (begun \o key) \o (y \o new)
      BY <3>1, BytesAssociative
    <3> QED BY <3>2
  <2> HIDE DEF z
  <2> QED BY <2>12, <2>14, <2>16, <2>17, <2>18
<1> DEFINE T == {d \in Nat : d < n => Claim(n - d)}
<1>13. 0 \in T
  <2>1. n - 0 = n
    BY <1>1
  <2> HIDE DEF Claim
  <2> QED BY <1>11, <2>1
<1>14. ASSUME NEW d \in Nat, d \in T PROVE d + 1 \in T
  <2> HIDE DEF Claim
  <2> SUFFICES ASSUME d + 1 < n PROVE Claim(n - (d + 1))
    OBVIOUS
  <2>1. n - (d + 1) \in 1..n /\ n - (d + 1) < n /\ (n - (d + 1)) + 1 = n - d /\ d < n
    BY <1>1
  <2>2. Claim(n - d)
    BY <1>14, <2>1
  <2> QED BY <1>12, <2>1, <2>2
<1>15. Claim(1)
  <2>1. Nat \subseteq T
    <3> HIDE DEF T
    <3> QED BY <1>13, <1>14, InductionOverSet
  <2>2. n - 1 \in Nat /\ n - 1 < n /\ n - (n - 1) = 1
    BY <1>1
  <2> HIDE DEF Claim
  <2> QED BY <2>1, <2>2
<1>16. 1 \in 1..n /\ c(1) = s.root /\ n - 1 + 1 = n
  BY <1>1, <1>3
<1>17. Spelling(s.mem, s.root) = sp[c(1)] /\ Spelling(t.mem, t.root) = sp2[c(1)]
  BY <1>2, <1>16 DEF Spelling, sp, sp2
<1>18. PICK y \in Bytes : sp[c(1)] = y \o Ends(n) /\ sp2[c(1)] = (y \o new) \o Ends(n)
  BY <1>15, <1>16
<1> QED BY <1>11, <1>17, <1>18 DEF new, sp2

\* s became t, whose spelling has gone on by bytes.
Adds(s, t, bytes) ==
  t.root # NULL /\ \A told \in Bytes : Spells(s, told) => Spells(t, told \o bytes)

\* The key that waits is a byte string, as is what there is when none does.
LEMMA WaitingIsBytes ==
  ASSUME NEW s, DomType(s)
  PROVE  Waiting(s) \in Bytes
<1>1. <<>> \in Bytes
  BY EmptySeq DEF Bytes
<1>2. ASSUME s.frames # <<>>, top(s).pending_key # <<>>
      PROVE  EncodeString(top(s).pending_key[1]) \in Bytes
  <2>1. Last(s.frames) \in FrameType
    BY <1>2, FrameFacts DEF DomType
  <2>2. top(s).pending_key \in Seq(Bytes)
    BY <2>1 DEF FrameType, top
  <2>3. 1 \in 1..Len(top(s).pending_key)
    BY <1>2, <2>2, LenProperties, EmptySeq
  <2>4. top(s).pending_key[1] \in Bytes
    BY <2>2, <2>3, ElementOfSeq
  <2> QED BY <2>4, EncodedBytes
<1> QED BY <1>1, <1>2 DEF Waiting

\* The new last entry of container nd2 has spent the key that waited.
LEMMA KeySpent ==
  ASSUME NEW s, s.frames # <<>>, NEW t, t.frames # <<>>, NEW c \in Scope, ~c.expecting_key,
         NEW nd, Agrees(Last(s.frames), nd, c, FALSE, FALSE),
         NEW nd2, Agrees(Last(t.frames), nd2, c, TRUE, FALSE),
         NEW len \in Nat, Len(nd2.entries) = len, len \in DOMAIN nd2.entries
  PROVE  KeyOf(nd2, len) = Waiting(s) /\ Waiting(t) = <<>>
<1> DEFINE f == Last(s.frames)
           g == Last(t.frames)
<1>1. /\ c.is_dict \in BOOLEAN
      /\ f.expecting_key = c.expecting_key /\ g.expecting_key = c.is_dict
      /\ f.pending_key = IF c.is_dict /\ ~f.expecting_key THEN <<Last(c.keys)>> ELSE <<>>
      /\ g.pending_key = IF c.is_dict /\ ~g.expecting_key THEN <<Last(c.keys)>> ELSE <<>>
      /\ nd2.type = IF c.is_dict THEN "DICT" ELSE "LIST"
      /\ c.is_dict => Len(c.keys) = len + Len(g.pending_key)
      /\ c.is_dict => \A k \in DOMAIN nd2.entries : nd2.entries[k].key = c.keys[k]
  BY DEF Agrees, Scope
<1>2. Waiting(s) = IF f.pending_key = <<>> THEN <<>> ELSE EncodeString(f.pending_key[1])
  BY DEF Waiting, top
<1>3. Waiting(t) = IF g.pending_key = <<>> THEN <<>> ELSE EncodeString(g.pending_key[1])
  BY DEF Waiting, top
<1> HIDE DEF f, g
<1>4. g.pending_key = <<>>
  BY <1>1
<1>5. CASE c.is_dict
  <2>1. Len(c.keys) = len
    <3>1. Len(g.pending_key) = 0
      BY <1>4
    <3> QED BY <1>1, <1>5, <3>1
  <2>2. Last(c.keys) = nd2.entries[len].key
    BY <1>1, <1>5, <2>1 DEF Last
  <2>3. f.pending_key = <<Last(c.keys)>>
    BY <1>1, <1>5
  <2>4. f.pending_key # <<>> /\ f.pending_key[1] = Last(c.keys)
    BY <2>3
  <2>5. nd2.type = "DICT"
    BY <1>1, <1>5
  <2> QED BY <1>2, <1>3, <1>4, <2>2, <2>4, <2>5 DEF KeyOf
<1>6. CASE ~c.is_dict
  BY <1>1, <1>2, <1>3, <1>4, <1>6 DEF KeyOf
<1> QED BY <1>5, <1>6

\* The spelling goes on by that of a new leaf.
LEMMA LeafSpells ==
  ASSUME NEW s, Sound(s), s.frames # <<>>, NEW t, Sound(t), SamePath(s, t), NEW x, NEW nd,
         Leaf(nd), LeafAdded(s.mem, t.mem, Last(s.frames).container, x, nd),
         \A i \in 1..Len(s.frames) : s.mem.node[s.frames[i].container].type \in {"LIST", "DICT"},
         KeyOf(t.mem.node[Last(s.frames).container], Len(t.mem.node[Last(s.frames).container].entries))
           = Waiting(s),
         Waiting(t) = <<>>
  PROVE  Adds(s, t, EncodeNode(nd, <<>>))
<1> DEFINE n   == Len(s.frames)
           q   == Last(s.frames).container
           new == EncodeEntry(t.mem.node[q], Len(t.mem.node[q].entries), Spellings(t.mem))
           leaf == EncodeNode(nd, <<>>)
           wait == Waiting(s)
<1>1. /\ DOMAIN s.frames = 1..n /\ n \in 1..n /\ n \in Nat /\ q \in DOMAIN s.mem.node
      /\ HeapType(s.mem) /\ DomType(s) /\ OnSpine(s)
  BY TopFacts DEF Sound
<1>2. s.root # NULL /\ t.root # NULL
  <2>1. 1 \in DOMAIN s.frames
    BY <1>1
  <2>2. s.root \in DOMAIN s.mem.node
    BY <1>1, <2>1 DEF OnSpine
  <2> QED BY <1>1, <2>2, NodeFacts DEF SamePath
<1>3. /\ Spelling(s.mem, s.root) \in Bytes /\ Spelling(t.mem, t.root) \in Bytes
      /\ Len(s.frames) \in Nat /\ Len(t.frames) = n /\ wait \in Bytes
  BY <1>1, <1>2, SoundSpells, WaitingIsBytes DEF SamePath
<1>4. new = wait \o leaf /\ leaf \in Bytes
  <2> DEFINE nd2 == t.mem.node[q]
             len == Len(nd2.entries)
             sp2 == Spellings(t.mem)
  <2>1. PICK e \in EntryType : e.value = x /\ nd2.entries = Append(s.mem.node[q].entries, e)
    BY DEF LeafAdded
  <2>2. len \in DOMAIN nd2.entries /\ nd2.entries[len].value = x
    <3> DEFINE es  == s.mem.node[q].entries
               es2 == nd2.entries
    <3>1. es \in Seq(EntryType) /\ Len(es) \in Nat
      BY <1>1, NodeFacts
    <3> HIDE DEF es, es2
    <3>2. es2 = Append(es, e)
      BY <2>1 DEF es, es2
    <3>3. DOMAIN es2 = 1..(Len(es) + 1) /\ Len(es2) = Len(es) + 1 /\ es2[Len(es) + 1] = e
      BY <3>1, <3>2, AppendFacts
    <3>4. Len(es2) \in DOMAIN es2 /\ es2[Len(es2)] = e
      BY <3>1, <3>3
    <3> QED BY <2>1, <3>4 DEF es2
  <2>3. x \in DOMAIN t.mem.node /\ t.mem.node[x] = nd /\ q \in DOMAIN t.mem.node
    BY DEF LeafAdded
  <2>4. sp2[x] \in Bytes /\ sp2[x] = EncodeNode(nd, sp2) /\ nd2 \in NodeType
    BY <2>3, SoundSpells DEF SpellsEntries
  <2>5. EncodeNode(nd, sp2) = leaf
    <3>1. nd \in NodeType /\ nd.entries = <<>>
      BY DEF Leaf
    <3>2. \A k \in DOMAIN nd.entries : sp2[nd.entries[k].value] = <<>>[nd.entries[k].value]
      BY <3>1
    <3> HIDE DEF sp2
    <3> QED BY <3>1, <3>2, NodeEncodedAlike
  <2>6. EncodeEntry(nd2, len, sp2) = KeyOf(nd2, len) \o sp2[nd2.entries[len].value]
    <3> HIDE DEF nd2, len, sp2
    <3> QED BY <2>2, <2>4, EntrySpelt
  <2>7. KeyOf(nd2, len) = wait
    OBVIOUS
  <2> HIDE DEF nd2, len, sp2, leaf, wait
  <2> QED BY <2>2, <2>4, <2>5, <2>6, <2>7 DEF nd2, len, sp2
<1> SUFFICES ASSUME NEW told \in Bytes, Spells(s, told)
             PROVE  Spells(t, told \o leaf)
  BY <1>2 DEF Adds
<1>5. PICK doc \in Bytes : /\ Spelling(s.mem, s.root) = doc \o Ends(n)
                          /\ Spelling(t.mem, t.root) = (doc \o new) \o Ends(n)
  BY GrowthSpells
<1>6. PICK doc0 \in Bytes : Spelling(s.mem, s.root) = doc0 \o Ends(n) /\ told = doc0 \o wait
  BY <1>2, <1>3, SpellsAs
<1>7. doc0 = doc
  <2>1. Ends(n) \in Bytes
    BY <1>1, EndsFacts
  <2> QED BY <1>5, <1>6, <2>1, SameBefore
<1> HIDE DEF leaf, wait, new
<1>8. told \o leaf = doc \o new
  <2>1. doc \in Bytes /\ wait \in Bytes /\ leaf \in Bytes
    BY <1>3, <1>4
  <2>2. (doc \o wait) \o leaf = doc \o (wait \o leaf)
    BY ONLY <2>1, BytesAssociative
  <2> QED BY <1>4, <1>6, <1>7, <2>2, Zenon
<1>9. doc \o new \in Bytes
  BY <1>3, <1>4, BytesConcat
<1>10. told \o leaf = (doc \o new) \o Waiting(t)
  BY <1>8, <1>9, BytesEmpty
<1> QED BY <1>2, <1>3, <1>5, <1>9, <1>10, SpellsAs

\* The spelling begins with that of the root.
LEMMA RootSpells ==
  ASSUME NEW s, s.root = NULL, NEW t, Sound(t), t.frames = <<>>,
         t.root \in DOMAIN t.mem.node, NEW nd, Leaf(nd), t.mem.node[t.root] = nd
  PROVE  Adds(s, t, EncodeNode(nd, <<>>)) /\ Waiting(t) = <<>>
<1> DEFINE leaf == EncodeNode(nd, <<>>)
           sp   == Spellings(t.mem)
<1>1. t.root # NULL
  BY NodeFacts DEF Sound, OneTree, HeapInv
<1>2. /\ sp[t.root] = EncodeNode(nd, sp) /\ Spelling(t.mem, t.root) = sp[t.root]
      /\ Spelling(t.mem, t.root) \in Bytes /\ Len(t.frames) \in Nat
  BY <1>1, SoundSpells DEF Spelling
<1>3. EncodeNode(nd, sp) = leaf
  <2>1. nd \in NodeType /\ nd.entries = <<>>
    BY DEF Leaf
  <2>2. \A k \in DOMAIN nd.entries : sp[nd.entries[k].value] = <<>>[nd.entries[k].value]
    BY <2>1
  <2> HIDE DEF sp
  <2> QED BY <2>1, <2>2, NodeEncodedAlike
<1>4. Waiting(t) = <<>>
  BY DEF Waiting
<1>5. leaf \in Bytes /\ Ends(0) = <<>> /\ Len(t.frames) = 0
  BY <1>2, <1>3, EndsFacts
<1> SUFFICES ASSUME NEW told \in Bytes, Spells(s, told)
             PROVE  Spells(t, told \o leaf)
  BY <1>1, <1>4 DEF Adds
<1>6. told = <<>>
  BY DEF Spells
<1> HIDE DEF leaf, sp
<1>7. told \o leaf = leaf /\ leaf = leaf \o <<>>
  BY <1>5, <1>6, BytesEmpty
<1>8. /\ Spelling(t.mem, t.root) = leaf \o Ends(Len(t.frames))
      /\ told \o leaf = leaf \o Waiting(t)
  BY <1>2, <1>3, <1>4, <1>5, <1>7
<1> QED BY <1>1, <1>2, <1>5, <1>8, SpellsAs

\* The new leaf becomes the innermost container.
LEMMA PushSpells ==
  ASSUME NEW s, NEW t, Sound(t), Waiting(t) = <<>>, NEW u, Sound(u), u.mem = t.mem, u.root = t.root,
         Len(u.frames) = Len(t.frames) + 1, Waiting(u) = <<>>,
         NEW begin \in Bytes, Adds(s, t, begin \o <<ch_e>>)
  PROVE  Adds(s, u, begin)
<1> DEFINE n   == Len(t.frames)
           e   == <<ch_e>>
           all == Spelling(t.mem, t.root)
<1>1. t.root # NULL /\ u.root # NULL
  BY DEF Adds
<1>2. all \in Bytes /\ Spelling(u.mem, u.root) = all /\ n \in Nat /\ Len(u.frames) \in Nat
  BY <1>1, SoundSpells
<1> SUFFICES ASSUME NEW told \in Bytes, Spells(s, told)
             PROVE  Spells(u, told \o begin)
  BY <1>1 DEF Adds
<1>3. Spells(t, told \o (begin \o e))
  BY DEF Adds
<1>4. PICK doc \in Bytes : all = doc \o Ends(n) /\ told \o (begin \o e) = doc \o Waiting(t)
  BY <1>1, <1>2, <1>3, SpellsAs
<1>5. e \in Bytes /\ Ends(n) \in Bytes /\ Ends(n + 1) = e \o Ends(n)
  BY <1>2, EndsFacts
<1> HIDE DEF e, all, n
<1>6. doc = told \o (begin \o e)
  BY <1>4, BytesEmpty
<1> DEFINE next == told \o begin
<1>7. next \in Bytes
  BY BytesConcat
<1>8. next \o e = told \o (begin \o e)
  BY <1>5, BytesAssociative
<1> HIDE DEF next
<1>9. (next \o e) \o Ends(n) = next \o (e \o Ends(n))
  BY ONLY <1>5, <1>7, BytesAssociative
<1>10. all = next \o Ends(n + 1)
  BY <1>4, <1>5, <1>6, <1>8, <1>9, Zenon
<1>11. Spelling(u.mem, u.root) = next \o Ends(Len(u.frames)) /\ next = next \o Waiting(u)
  BY <1>2, <1>7, <1>10, BytesEmpty DEF n
<1>12. Spells(u, next)
  <2>1. Spelling(u.mem, u.root) \in Bytes
    BY <1>2
  <2> QED BY <1>1, <1>2, <1>7, <1>11, <2>1, SpellsAs
<1> QED BY <1>12 DEF next

\* A container as it begins: its own byte, and its end.
LEMMA BeginSpells ==
  ASSUME NEW nd, Leaf(nd), NEW is_dict \in BOOLEAN, nd.type = IF is_dict THEN "DICT" ELSE "LIST",
         NEW begin, begin = IF is_dict THEN <<ch_d>> ELSE <<ch_l>>
  PROVE  begin \in Bytes /\ EncodeNode(nd, <<>>) = begin \o <<ch_e>>
<1>1. begin \in Bytes
  BY OneByte DEF Byte, ch_l, ch_d
<1>2. SpellsEntries(nd, <<>>, {}) /\ Len(nd.entries) = 0
  <2>1. nd \in NodeType /\ nd.entries = <<>>
    BY DEF Leaf
  <2>2. <<>> \in [{} -> Bytes]
    <3>1. <<>> = [i \in {} |-> i]
      OBVIOUS
    <3> QED BY <3>1
  <2> QED BY <2>1, <2>2 DEF SpellsEntries
<1>3. EncodeRest(nd, 1, <<>>) = <<ch_e>>
  BY <1>2, RestEncoded
<1> QED BY <1>1, <1>3 DEF EncodeNode

\* The innermost container ends.
LEMMA PopSpells ==
  ASSUME NEW s, Sound(s), s.root # NULL, Waiting(s) = <<>>, NEW u, Sound(u), u.mem = s.mem,
         u.root = s.root, Len(s.frames) = Len(u.frames) + 1, Waiting(u) = <<>>
  PROVE  Adds(s, u, <<ch_e>>)
<1> DEFINE n   == Len(u.frames)
           e   == <<ch_e>>
           all == Spelling(s.mem, s.root)
<1>1. all \in Bytes /\ Spelling(u.mem, u.root) = all /\ n \in Nat /\ Len(s.frames) \in Nat
  BY SoundSpells
<1> SUFFICES ASSUME NEW told \in Bytes, Spells(s, told)
             PROVE  Spells(u, told \o e)
  BY DEF Adds
<1>2. PICK doc \in Bytes : all = doc \o Ends(Len(s.frames)) /\ told = doc \o Waiting(s)
  BY <1>1, SpellsAs
<1>3. e \in Bytes /\ Ends(n) \in Bytes /\ Ends(n + 1) = e \o Ends(n)
  BY <1>1, EndsFacts
<1> HIDE DEF e, all, n
<1>4. doc = told /\ all = told \o (e \o Ends(n))
  BY <1>2, <1>3, BytesEmpty DEF n
<1> DEFINE next == told \o e
<1>5. next \in Bytes
  BY <1>3, BytesConcat
<1>6. next \o Ends(n) = told \o (e \o Ends(n))
  BY <1>3, BytesAssociative
<1> HIDE DEF next
<1>7. Spelling(u.mem, u.root) = next \o Ends(Len(u.frames)) /\ next = next \o Waiting(u)
  BY <1>1, <1>4, <1>5, <1>6, BytesEmpty DEF n
<1>8. Spells(u, next)
  <2>1. Spelling(u.mem, u.root) \in Bytes /\ u.root # NULL
    BY <1>1
  <2>2. Len(u.frames) \in Nat
    BY <1>1 DEF n
  <2> QED BY <1>5, <1>7, <2>1, <2>2, SpellsAs
<1> QED BY <1>8 DEF next

\* A key waits for its value.
LEMMA KeySpells ==
  ASSUME NEW s, Sound(s), s.root # NULL, Waiting(s) = <<>>, NEW u, Sound(u), u.mem = s.mem,
         u.root = s.root, Len(s.frames) = Len(u.frames), NEW key \in Bytes, Waiting(u) = key
  PROVE  Adds(s, u, key)
<1>1. Spelling(s.mem, s.root) \in Bytes /\ Len(s.frames) \in Nat
  BY SoundSpells
<1> SUFFICES ASSUME NEW told \in Bytes, Spells(s, told)
             PROVE  Spells(u, told \o key)
  BY DEF Adds
<1>2. PICK doc \in Bytes : /\ Spelling(s.mem, s.root) = doc \o Ends(Len(s.frames))
                          /\ told = doc \o Waiting(s)
  BY <1>1, SpellsAs
<1>3. told = doc
  BY <1>2, BytesEmpty
<1>4. Spelling(u.mem, u.root) = told \o Ends(Len(u.frames)) /\ told \o key = told \o Waiting(u)
  BY <1>2, <1>3
<1> QED BY <1>1, <1>4, SpellsAs

---------------------------------------------------------------------------
(* The callbacks.                                                          *)

LEMMA NewLeaves ==
  ASSUME NEW alloc \in Allocator, NEW v \in Int, NEW bytes \in Bytes,
         NEW type \in {"INT", "STRING", "LIST", "DICT"}
  PROVE  /\ Leaf(Node(alloc, type)) /\ Node(alloc, type).type = type
         /\ Leaf([Node(alloc, "INT") EXCEPT !.i = v])
         /\ Leaf([Node(alloc, "STRING") EXCEPT !.bytes = bytes])
<1>1. <<>> \in Bytes /\ <<>> \in Seq(EntryType) /\ 0 \in Nat
  BY EmptySeq DEF Bytes
<1>2. Leaf(Node(alloc, type)) /\ Node(alloc, type).type = type
  BY <1>1 DEF Leaf, Node, NodeType, NULL
<1>3. Leaf([Node(alloc, "INT") EXCEPT !.i = v])
  BY <1>1 DEF Leaf, Node, NodeType, NULL
<1>4. Leaf([Node(alloc, "STRING") EXCEPT !.bytes = bytes])
  <2> DEFINE nd == [Node(alloc, "STRING") EXCEPT !.bytes = bytes]
  <2>1. nd = [type |-> "STRING", alloc |-> alloc, i |-> 0, bytes |-> bytes, owned |-> 0,
              entries |-> <<>>, capacity |-> 0, array |-> 0]
    BY DEF Node, NULL
  <2> HIDE DEF nd
  <2>2. nd \in NodeType
    BY <1>1, <2>1 DEF NodeType
  <2> QED BY <2>1, <2>2 DEF Leaf, NULL, nd
<1> QED BY <1>2, <1>3, <1>4

\* The result r of an allocation: a new node with contents nd, or a failure.
Created(m, r, nd) == r.status = "OK" => NewNode(m, r.mem, r.ptr, nd)

LEMMA NewCreates ==
  ASSUME NEW m, HeapInv(m, {}), NEW nd
  PROVE  /\ \A r \in value_alloc(m, nd) : Created(m, r, nd)
         /\ \A r \in New(m, nd) : Created(m, r, nd)
<1>1. \A r \in value_alloc(m, nd) : Created(m, r, nd)
  BY ValueAlloc DEF Created
<1>2. Created(m, Result(m, "INVALID_ARG", NULL), nd)
  BY DEF Created, Result
<1> QED BY <1>1, <1>2 DEF New

\* What is known while a callback is in flight.
LEMMA CallbackFacts ==
  ASSUME IInv, DomInv, dom_pc = "sax", InCallback
  PROVE  /\ Sound(dom) /\ StackInv /\ CallbackInv /\ Last(events) \in EventType
         /\ Len(scopes) \in Nat /\ DOMAIN scopes = 1..Len(scopes)
         /\ \A i \in 1..Len(scopes) : scopes[i] \in Scope /\ Ascending(scopes[i].keys)
         /\ \A i \in 1..Len(scopes) : i < Len(scopes) => ~scopes[i].expecting_key
         /\ pc = "value_callback" => \A i \in 1..Len(scopes) : ~scopes[i].expecting_key
         /\ DOMAIN dom.frames = 1..Len(dom.frames) /\ Len(dom.frames) \in Nat
<1>1. Sound(dom) /\ StackInv /\ CallbackInv
  BY DEF DomInv, Sound, InCallback, mem
<1>2. Last(events) \in EventType
  <2>1. events \in Seq(EventType) /\ events # <<>>
    BY DEF IInv, TypeOK, ControlInv
  <2>2. Len(events) \in 1..Len(events)
    BY <2>1, LenProperties, EmptySeq
  <2> QED BY <2>1, <2>2, ElementOfSeq DEF Last
<1>3. scopes \in Seq(Scope) /\ Len(scopes) \in Nat /\ DOMAIN scopes = 1..Len(scopes)
  BY ScopeFacts DEF GoodScopes
<1>4. \A i \in 1..Len(scopes) : scopes[i] \in Scope /\ Ascending(scopes[i].keys)
  BY <1>3, ElementOfSeq DEF IInv, KeysAscend, Ascending
<1>5. \A i \in 1..Len(scopes) : scopes[i].expecting_key => i = Len(scopes) /\ pc # "value_callback"
  BY <1>3 DEF IInv, ScopeInv
<1>6. DOMAIN dom.frames = 1..Len(dom.frames) /\ Len(dom.frames) \in Nat
  BY <1>1, FrameFacts DEF Sound, DomType
<1>7. ASSUME NEW i \in 1..Len(scopes), i < Len(scopes)
      PROVE  ~scopes[i].expecting_key
  <2>1. Len(scopes) \in Nat /\ i < Len(scopes)
    BY <1>3, <1>7
  <2>2. i # Len(scopes)
    BY ONLY <2>1
  <2> QED BY <1>5, <2>2
<1>8. pc = "value_callback" => \A i \in 1..Len(scopes) : ~scopes[i].expecting_key
  BY <1>5
<1> QED BY ONLY <1>1, <1>2, <1>3, <1>4, <1>6, <1>7, <1>8, Zenon

\* What StackInv says of an open container about to get an entry, or of one
\* about to lose its place to the one around it.
LEMMA StackTold ==
  ASSUME IInv, DomInv, dom_pc = "sax", InCallback, ~KeyRead
  PROVE  IF Closing THEN /\ Len(dom.frames) = Len(scopes) + 1
                         /\ \A i \in 1..Len(scopes) :
                              Agrees(dom.frames[i], dom.mem.node[dom.frames[i].container], scopes[i], TRUE, FALSE)
         ELSE /\ Told(dom, scopes, Len(dom.frames), FALSE)
              /\ Len(dom.frames) = IF Opening THEN Len(scopes) - 1 ELSE Len(scopes)
<1>1. StackInv /\ Len(scopes) \in Nat /\ DOMAIN scopes = 1..Len(scopes)
      /\ DOMAIN dom.frames = 1..Len(dom.frames) /\ Len(dom.frames) \in Nat
  BY CallbackFacts
<1>2. Len(dom.frames) = IF Opening THEN Len(scopes) - 1 ELSE IF Closing THEN Len(scopes) + 1 ELSE Len(scopes)
  BY <1>1 DEF StackInv, frames
<1>3. ASSUME NEW i \in 1..Len(dom.frames), i \in 1..Len(scopes)
      PROVE  Agrees(dom.frames[i], dom.mem.node[dom.frames[i].container], scopes[i], i < Len(dom.frames), FALSE)
  <2>1. Agrees(dom.frames[i], dom.mem.node[dom.frames[i].container], scopes[i],
               i < Len(dom.frames) \/ KeyRead, i = Len(dom.frames) /\ KeyRead)
    BY <1>1, <1>3 DEF StackInv, frames, mem
  <2>2. (i < Len(dom.frames) \/ KeyRead) = (i < Len(dom.frames)) /\ (i = Len(dom.frames) /\ KeyRead) = FALSE
    OBVIOUS
  <2> QED BY ONLY <2>1, <2>2, Zenon
<1>4. CASE Closing
  <2>1. ~Opening
    BY <1>4 DEF Opening, Closing
  <2>2. Len(dom.frames) = Len(scopes) + 1
    BY <1>2, <1>4, <2>1
  <2>3. ASSUME NEW i \in 1..Len(scopes)
        PROVE  Agrees(dom.frames[i], dom.mem.node[dom.frames[i].container], scopes[i], TRUE, FALSE)
    <3>1. i \in 1..Len(dom.frames) /\ (i < Len(dom.frames)) = TRUE
      BY <1>1, <2>2
    <3>2. Agrees(dom.frames[i], dom.mem.node[dom.frames[i].container], scopes[i], i < Len(dom.frames), FALSE)
      BY <1>3, <3>1
    <3> QED BY ONLY <3>1, <3>2, Zenon
  <2> QED BY <1>4, <2>2, <2>3
<1>5. CASE ~Closing
  <2>1. Len(dom.frames) = IF Opening THEN Len(scopes) - 1 ELSE Len(scopes)
    BY <1>2, <1>5
  <2>2. ASSUME NEW i \in 1..Len(dom.frames)
        PROVE  Agrees(dom.frames[i], dom.mem.node[dom.frames[i].container], scopes[i], i < Len(dom.frames) \/ FALSE, FALSE)
    <3>1. i \in 1..Len(scopes)
      BY <1>1, <2>1
    <3>2. Agrees(dom.frames[i], dom.mem.node[dom.frames[i].container], scopes[i], i < Len(dom.frames), FALSE)
      BY <1>3, <3>1
    <3>3. (i < Len(dom.frames) \/ FALSE) = (i < Len(dom.frames))
      OBVIOUS
    <3> QED BY ONLY <3>2, <3>3, Zenon
  <2>3. Told(dom, scopes, Len(dom.frames), FALSE)
    BY ONLY <2>2, Zenon DEF Told
  <2> QED BY <1>5, <2>1, <2>3
<1> QED BY <1>4, <1>5

\* A new node x, with contents nd, in the tree and at the end of its path.
Planted(t, x, nd) ==
  /\ x \in DOMAIN t.mem.node /\ t.mem.node[x] = nd
  /\ \A i \in DOMAIN t.frames : t.frames[i].container # x
  /\ t.frames = <<>> => t.root = x
  /\ t.frames # <<>> => LastIs(t.mem, Last(t.frames).container, x)

\* A new node in the hands of the callback for a value or for the beginning
\* of a container ends up in the tree, or is freed.
LEMMA NodeHandled ==
  ASSUME IInv, DomInv, dom_pc = "sax", InCallback, ~KeyRead, ~Closing,
         NEW m1, NEW x, NEW nd, Leaf(nd), NewNode(dom.mem, m1, x, nd),
         NEW a \in AttachOrFree([dom EXCEPT !.mem = m1], x)
  PROVE  /\ Sound(a.dom)
         /\ a.status = "OK" => /\ Told(a.dom, scopes, Len(dom.frames), TRUE)
                               /\ Planted(a.dom, x, nd)
                               /\ Adds(dom, a.dom, EncodeNode(nd, <<>>)) /\ Waiting(a.dom) = <<>>
<1> DEFINE n == Len(dom.frames)
<1>1. Sound(dom) /\ Len(scopes) \in Nat
  BY CallbackFacts
<1>2. Told(dom, scopes, n, FALSE) /\ n = IF Opening THEN Len(scopes) - 1 ELSE Len(scopes)
  BY StackTold
<1>3. CASE dom.frames = <<>>
  <2>1. dom.root = NULL
    BY <1>3, CallbackFacts DEF StackInv, frames
  <2>2. a.status = "OK" /\ Sound(a.dom) /\ a.dom.mem = m1 /\ a.dom.root = x /\ a.dom.frames = <<>>
    BY <1>1, <1>3, <2>1, RootAttached
  <2>3. n = 0 /\ Told(a.dom, scopes, n, TRUE)
    BY <1>3, <2>2 DEF Told
  <2>4. x \in DOMAIN m1.node /\ m1.node[x] = nd
    BY DEF NewNode, Heap
  <2>5. Planted(a.dom, x, nd)
    BY <2>2, <2>4 DEF Planted
  <2>6. Adds(dom, a.dom, EncodeNode(nd, <<>>)) /\ Waiting(a.dom) = <<>>
    <3>1. a.dom.root \in DOMAIN a.dom.mem.node /\ a.dom.mem.node[a.dom.root] = nd
      BY <2>2, <2>4
    <3> QED BY <2>1, <2>2, <3>1, RootSpells
  <2> QED BY <2>2, <2>3, <2>5, <2>6
<1>4. CASE dom.frames # <<>>
  <2>1. /\ n \in Nat /\ n \in 1..n /\ DOMAIN dom.frames = 1..n /\ Last(dom.frames) = dom.frames[n]
        /\ Last(dom.frames).container \in DOMAIN dom.mem.node
        /\ HeapInv(dom.mem, {}) /\ HeapType(dom.mem)
    BY <1>1, <1>4, TopFacts
  <2>2. DomType(dom) /\ OnSpine(dom) /\ dom.frames \in Seq(FrameType)
    BY <1>1 DEF Sound, DomType
  <2> DEFINE c == scopes[n]
             q == Last(dom.frames).container
  <2>3. c \in Scope /\ Ascending(c.keys)
    <3>1. n \in 1..Len(scopes)
      BY <1>1, <1>2, <2>1
    <3> QED BY <3>1, CallbackFacts
  <2>4. ~c.expecting_key
    <3>1. CASE Opening
      <4>1. n \in 1..Len(scopes) /\ n < Len(scopes)
        BY <1>1, <1>2, <2>1, <3>1
      <4> QED BY <4>1, CallbackFacts
    <3>2. CASE ~Opening
      <4>1. pc = "value_callback" /\ n \in 1..Len(scopes)
        BY <1>2, <2>1, <3>2 DEF InCallback, Opening, KeyRead
      <4> QED BY <4>1, CallbackFacts
    <3> QED BY <3>1, <3>2
  <2>5. Agrees(Last(dom.frames), dom.mem.node[q], c, FALSE, FALSE)
    <3>1. Agrees(dom.frames[n], dom.mem.node[dom.frames[n].container], scopes[n], n < n \/ FALSE, FALSE)
      BY <1>2, <2>1 DEF Told
    <3>2. (n < n \/ FALSE) = FALSE
      BY <2>1
    <3> QED BY ONLY <2>1, <3>1, <3>2, Zenon
  <2> HIDE DEF c
  <2>6. Settled(dom, a, x, nd, c)
    BY <1>4, <2>1, <2>2, <2>3, <2>4, <2>5, AttachTop
  <2> HIDE DEF q
  <2>7. Sound(a.dom)
    BY <1>1, <1>4, <2>6, SettledSound
  <2>8. ASSUME a.status = "OK"
        PROVE  /\ Told(a.dom, scopes, n, TRUE) /\ Planted(a.dom, x, nd)
               /\ Adds(dom, a.dom, EncodeNode(nd, <<>>)) /\ Waiting(a.dom) = <<>>
    <3>1. Told(a.dom, scopes, n, TRUE)
      <4>1. Settled(dom, a, x, nd, scopes[Len(dom.frames)])
        BY <2>6 DEF c
      <4> QED BY <1>1, <1>2, <1>4, <2>8, <4>1, ToldSettled
    <3>2. SamePath(dom, a.dom) /\ LeafAdded(dom.mem, a.dom.mem, Last(dom.frames).container, x, nd)
      BY <2>6, <2>8 DEF Settled
    <3>3. /\ x \in DOMAIN a.dom.mem.node /\ \A i \in DOMAIN a.dom.frames : a.dom.frames[i].container # x
          /\ LastIs(a.dom.mem, Last(a.dom.frames).container, x)
      BY <1>4, <2>1, <2>2, <3>2, GrownSpine
    <3>4. a.dom.mem.node[x] = nd
      BY <3>2 DEF LeafAdded
    <3>5. a.dom.frames # <<>>
      <4>1. a.dom.frames \in Seq(FrameType) /\ Len(a.dom.frames) = n
        BY <3>2 DEF SamePath
      <4> QED BY <2>1, <4>1, FrameFacts
    <3>6. \A i \in 1..n : dom.mem.node[dom.frames[i].container].type \in {"LIST", "DICT"}
      BY <1>2 DEF Told, Agrees
    <3>7. KeyOf(a.dom.mem.node[q], Len(a.dom.mem.node[q].entries)) = Waiting(dom) /\ Waiting(a.dom) = <<>>
      <4> DEFINE nd2 == a.dom.mem.node[q]
                 len == Len(nd2.entries)
      <4>1. Agrees(Last(a.dom.frames), nd2, c, TRUE, FALSE)
        BY <2>6, <2>8 DEF Settled, q
      <4>2. len \in Nat /\ len \in DOMAIN nd2.entries
        <5>1. q \in DOMAIN a.dom.mem.node /\ HeapType(a.dom.mem)
          BY <2>7, <3>2 DEF LeafAdded, q, Sound, OneTree, HeapInv
        <5>2. nd2.entries # <<>>
          <6>1. Last(a.dom.frames).container = q
            BY <2>1, <3>2 DEF SamePath, Last, q
          <6> QED BY <3>3, <6>1 DEF LastIs
        <5>3. nd2.entries \in Seq(EntryType) /\ DOMAIN nd2.entries = 1..len /\ len \in Nat
          BY <5>1, NodeFacts
        <5> QED BY <5>2, <5>3, EmptySeq
      <4> HIDE DEF nd2
      <4> QED BY <1>4, <2>3, <2>4, <2>5, <3>5, <4>1, <4>2, KeySpent DEF nd2
    <3>8. Adds(dom, a.dom, EncodeNode(nd, <<>>))
      BY <1>1, <1>4, <2>7, <3>2, <3>6, <3>7, LeafSpells DEF q, n
    <3> QED BY <3>1, <3>3, <3>4, <3>5, <3>7, <3>8 DEF Planted
  <2> QED BY <2>7, <2>8
<1> QED BY <1>3, <1>4

\* A callback that could do its work leaves as many frames as there are scopes,
\* and a spelling that has gone on by that of the event.
Respelt(r) == Len(r.dom.frames) = Len(scopes) /\ Adds(dom, r.dom, Encode(Last(events)))

\* What a callback leaves: a sound state and, if it could do its work, frames
\* that have been told what the scopes will say when the parser goes on, and
\* the tree that spells one event more.
Handled(r) ==
  /\ Sound(r.dom) /\ (r.status = "OK" => Respelt(r))
  /\ r.status = "OK" /\ scopes # <<>> =>
       Told(r.dom, IF pc = "value_callback" THEN ValueDone(scopes) ELSE scopes, Len(scopes), FALSE)

\* The callback for a value.
LEMMA ValueHandled ==
  ASSUME IInv, DomInv, dom_pc = "sax", pc = "value_callback", ~Closing,
         NEW nd, Leaf(nd), EncodeNode(nd, <<>>) = Encode(Last(events)),
         NEW r, Created(dom.mem, r, nd), NEW a \in AttachNew(dom, r)
  PROVE  Handled(a)
<1>1. InCallback /\ ~KeyRead /\ ~Opening
  BY DEF InCallback, KeyRead, Opening
<1>2. Sound(dom)
  BY <1>1, CallbackFacts
<1>3. CASE r.status # "OK"
  <2>1. a = Outcome(dom, r.status)
    BY <1>3 DEF AttachNew
  <2>2. a.dom = dom /\ a.status = r.status
    BY <2>1, OutcomeFields
  <2> QED BY <1>2, <1>3, <2>2 DEF Handled
<1>4. CASE r.status = "OK"
  <2>1. a \in AttachOrFree([dom EXCEPT !.mem = r.mem], r.ptr)
    BY <1>4 DEF AttachNew
  <2>2. NewNode(dom.mem, r.mem, r.ptr, nd)
    BY <1>4 DEF Created
  <2>3. /\ Sound(a.dom)
        /\ a.status = "OK" => /\ Told(a.dom, scopes, Len(dom.frames), TRUE)
                              /\ Adds(dom, a.dom, EncodeNode(nd, <<>>))
    BY <1>1, <2>1, <2>2, NodeHandled
  <2>4. Len(dom.frames) = Len(scopes)
    BY <1>1, StackTold
  <2>5. ASSUME a.status = "OK", scopes # <<>>
        PROVE  Told(a.dom, ValueDone(scopes), Len(scopes), FALSE)
    BY <2>3, <2>4, <2>5, ToldDone
  <2>6. a.status = "OK" => Respelt(a)
    BY <2>3, <2>4 DEF Respelt, Told
  <2> QED BY <2>3, <2>5, <2>6 DEF Handled
<1> QED BY <1>3, <1>4

\* What is said of the innermost frame, when its container is a value away
\* from its next key.
LEMMA NoKeyExpected ==
  ASSUME IInv, DomInv, dom_pc = "sax", pc = "value_callback", ~Closing
  PROVE  ~KeyExpected(dom)
<1>1. InCallback /\ ~KeyRead /\ ~Opening
  BY DEF InCallback, KeyRead, Opening
<1> DEFINE n == Len(dom.frames)
<1>2. Sound(dom) /\ Told(dom, scopes, n, FALSE) /\ n = Len(scopes)
  BY <1>1, CallbackFacts, StackTold
<1>3. CASE dom.frames = <<>>
  BY <1>3 DEF KeyExpected
<1>4. CASE dom.frames # <<>>
  <2>1. n \in Nat /\ n \in 1..n /\ Last(dom.frames) = dom.frames[n]
    BY <1>2, <1>4, TopFacts
  <2>2. Agrees(dom.frames[n], dom.mem.node[dom.frames[n].container], scopes[n], n < n \/ FALSE, FALSE)
    BY <1>2, <2>1 DEF Told
  <2>3. (n < n \/ FALSE) = FALSE
    BY <2>1
  <2>4. Agrees(dom.frames[n], dom.mem.node[dom.frames[n].container], scopes[n], FALSE, FALSE)
    BY ONLY <2>2, <2>3, Zenon
  <2>5. ~scopes[n].expecting_key
    BY <1>1, <1>2, <2>1, CallbackFacts
  <2>6. ~dom.frames[n].expecting_key
    BY <2>4, <2>5 DEF Agrees
  <2> QED BY <2>1, <2>6 DEF KeyExpected, top
<1> QED BY <1>3, <1>4

LEMMA IntHandled ==
  ASSUME IInv, DomInv, dom_pc = "sax", pc = "value_callback", ~Closing,
         Last(events).hook = "on_int", Last(events).value \in Int,
         NEW r \in dom_on_int(dom, Last(events).value)
  PROVE  Handled(r)
<1> DEFINE v  == Last(events).value
           nd == [Node(dom.alloc, "INT") EXCEPT !.i = v]
<1>1. HeapInv(dom.mem, {}) /\ dom.alloc \in Allocator
  BY CallbackFacts DEF Sound, OneTree, DomType, InCallback
<1>2. <<>> \in Bytes
  BY EmptySeq DEF Bytes
<1>3. Leaf(nd)
  BY <1>1, <1>2, NewLeaves
<1>4. PICK n \in New(dom.mem, nd) : r \in AttachNew(dom, n)
  BY DEF dom_on_int, bencode_int_new
<1>5. EncodeNode(nd, <<>>) = Encode(Last(events))
  <2>1. nd.type = "INT" /\ nd.i = v
    BY DEF Node
  <2> HIDE DEF nd
  <2> QED BY <2>1 DEF EncodeNode, Encode
<1> HIDE DEF nd
<1>6. Created(dom.mem, n, nd)
  BY <1>1, <1>4, NewCreates
<1> QED BY <1>3, <1>4, <1>5, <1>6, ValueHandled

LEMMA StringHandled ==
  ASSUME IInv, DomInv, dom_pc = "sax", pc = "value_callback", ~Closing,
         Last(events).hook = "on_string", Last(events).bytes \in Bytes,
         NEW r \in dom_on_string(dom, Last(events).bytes)
  PROVE  Handled(r)
<1> DEFINE bytes == Last(events).bytes
           nd == [Node(dom.alloc, "STRING") EXCEPT !.bytes = bytes]
<1>1. HeapInv(dom.mem, {}) /\ dom.alloc \in Allocator
  BY CallbackFacts DEF Sound, OneTree, DomType, InCallback
<1>2. Leaf(nd)
  <2>1. 0 \in Int
    OBVIOUS
  <2> QED BY <1>1, <2>1, NewLeaves
<1>3. PICK n \in value_alloc(dom.mem, nd) : r \in AttachNew(dom, n)
  BY NoKeyExpected DEF dom_on_string, bencode_string_new_borrowed
<1>4. EncodeNode(nd, <<>>) = Encode(Last(events))
  <2>1. nd.type = "STRING" /\ nd.bytes = bytes
    BY DEF Node
  <2> HIDE DEF nd
  <2> QED BY <2>1 DEF EncodeNode, Encode
<1> HIDE DEF nd
<1>5. Created(dom.mem, n, nd)
  BY <1>1, <1>3, NewCreates
<1> QED BY <1>2, <1>3, <1>4, <1>5, ValueHandled

\* The callback for the beginning of a container.
LEMMA Opened ==
  ASSUME IInv, DomInv, dom_pc = "sax", Opening, NEW is_dict \in BOOLEAN,
         Last(events).hook = IF is_dict THEN "on_dict_begin" ELSE "on_list_begin",
         Last(scopes) = NewScope(is_dict), NEW r \in open_container(dom, is_dict)
  PROVE  Handled(r)
<1> DEFINE n == Len(dom.frames)
           type == IF is_dict THEN "DICT" ELSE "LIST"
           nd == Node(dom.alloc, type)
<1>1. InCallback /\ ~KeyRead /\ ~Closing /\ pc # "value_callback"
  BY DEF InCallback, KeyRead, Opening, Closing
<1>2. HeapInv(dom.mem, {}) /\ dom.alloc \in Allocator /\ Sound(dom)
  BY <1>1, CallbackFacts DEF Sound, OneTree, DomType
<1>3. Leaf(nd) /\ nd.type = type
  <2>1. <<>> \in Bytes /\ 0 \in Int
    BY EmptySeq DEF Bytes
  <2> QED BY <1>2, <2>1, NewLeaves
<1>4. Len(scopes) \in Nat /\ n = Len(scopes) - 1 /\ n \in Nat
  BY <1>1, CallbackFacts, StackTold
<1>5. n < depth_cap
  BY <1>4, DepthAssumption DEF IInv, DepthBounded, TypeOK, depth_cap
<1>6. scopes[n + 1] = NewScope(is_dict)
  BY <1>4 DEF Last
<1>7. PICK k \in New(dom.mem, nd) : \E a \in AttachNew(dom, k) :
        r = IF a.status = "OK" THEN PushFrame(a.dom, k.ptr, is_dict) ELSE a
  <2>1. CASE is_dict
    BY <2>1 DEF open_container, bencode_dict_new
  <2>2. CASE ~is_dict
    BY <2>2 DEF open_container, bencode_list_new
  <2> QED BY <2>1, <2>2
<1>8. PICK a \in AttachNew(dom, k) : r = IF a.status = "OK" THEN PushFrame(a.dom, k.ptr, is_dict) ELSE a
  BY <1>7
<1>9. Created(dom.mem, k, nd)
  <2> HIDE DEF nd
  <2> QED BY <1>2, <1>7, NewCreates
<1> HIDE DEF nd, type
<1>10. CASE k.status # "OK"
  <2>1. a = Outcome(dom, k.status)
    BY <1>8, <1>10 DEF AttachNew
  <2>2. a.dom = dom /\ a.status = k.status
    BY <2>1, OutcomeFields
  <2> QED BY <1>2, <1>8, <1>10, <2>2 DEF Handled
<1>11. CASE k.status = "OK"
  <2>1. a \in AttachOrFree([dom EXCEPT !.mem = k.mem], k.ptr)
    BY <1>8, <1>11 DEF AttachNew
  <2>2. NewNode(dom.mem, k.mem, k.ptr, nd)
    BY <1>9, <1>11 DEF Created
  <2>3. /\ Sound(a.dom)
        /\ a.status = "OK" => /\ Told(a.dom, scopes, n, TRUE) /\ Planted(a.dom, k.ptr, nd)
                              /\ Adds(dom, a.dom, EncodeNode(nd, <<>>)) /\ Waiting(a.dom) = <<>>
    BY <1>1, <1>3, <2>1, <2>2, NodeHandled
  <2>4. CASE a.status # "OK"
    BY <1>8, <2>3, <2>4 DEF Handled
  <2>5. CASE a.status = "OK"
    <3>1. nd.entries = <<>> /\ nd.type = IF is_dict THEN "DICT" ELSE "LIST"
      BY <1>3 DEF Leaf, type
    <3>2. Told(a.dom, scopes, n, TRUE) /\ Planted(a.dom, k.ptr, nd)
      BY <2>3, <2>5
    <3> HIDE DEF n
    <3>3. Pushed(a.dom, PushFrame(a.dom, k.ptr, is_dict), scopes, n + 1)
      BY <1>4, <1>5, <1>6, <2>3, <3>1, <3>2, ToldPushed DEF Planted
    <3>4. /\ Sound(r.dom) /\ Told(r.dom, scopes, n + 1, FALSE)
          /\ r.dom.mem = a.dom.mem /\ r.dom.root = a.dom.root /\ Waiting(r.dom) = <<>>
      BY <1>8, <2>5, <3>3 DEF Pushed
    <3>5. n + 1 = Len(scopes)
      BY <1>4 DEF n
    <3> DEFINE begin == IF is_dict THEN <<ch_d>> ELSE <<ch_l>>
    <3>6. Encode(Last(events)) = begin
      BY DEF Encode
    <3>7. begin \in Bytes /\ EncodeNode(nd, <<>>) = begin \o <<ch_e>>
      BY <1>3, <3>1, BeginSpells
    <3> HIDE DEF begin
    <3>8. Len(r.dom.frames) = n + 1 /\ Len(a.dom.frames) = n
      BY <3>2, <3>4 DEF Told
    <3>9. Adds(dom, r.dom, begin)
      <4>1. Adds(dom, a.dom, begin \o <<ch_e>>) /\ Waiting(a.dom) = <<>>
        BY <2>3, <2>5, <3>7
      <4> QED BY <2>3, <3>4, <3>7, <3>8, <4>1, PushSpells
    <3>10. Respelt(r)
      BY <3>5, <3>6, <3>8, <3>9 DEF Respelt
    <3> QED BY <1>1, <3>4, <3>5, <3>10 DEF Handled
  <2> QED BY <2>4, <2>5
<1> QED BY <1>10, <1>11

LEMMA FrameWithKey ==
  ASSUME NEW f \in FrameType, NEW bytes \in Bytes
  PROVE  LET g == [f EXCEPT !.pending_key = <<bytes>>, !.expecting_key = FALSE]
         IN  /\ g \in FrameType /\ g.container = f.container
             /\ g.pending_key = <<bytes>> /\ g.expecting_key = FALSE
<1>1. <<bytes>> \in Seq(Bytes)
  OBVIOUS
<1> DEFINE keys == <<bytes>>
<1> HIDE DEF keys
<1>2. keys \in Seq(Bytes)
  BY <1>1 DEF keys
<1>3. LET g == [f EXCEPT !.pending_key = keys, !.expecting_key = FALSE]
      IN  g \in FrameType /\ g.container = f.container /\ g.pending_key = keys /\ g.expecting_key = FALSE
  BY <1>2 DEF FrameType
<1> QED BY <1>3 DEF keys

\* The callback for a key: the frame keeps it until its value comes.
LEMMA KeyStashed ==
  ASSUME IInv, DomInv, dom_pc = "sax", KeyRead, NEW r \in dom_on_string(dom, Last(events).bytes)
  PROVE  Handled(r)
<1> DEFINE n     == Len(dom.frames)
           bytes == Last(events).bytes
           f     == dom.frames[n]
           nd    == dom.mem.node[f.container]
           c     == scopes[n]
           g     == [f EXCEPT !.pending_key = <<bytes>>, !.expecting_key = FALSE]
           fs    == [dom.frames EXCEPT ![n] = g]
           t     == [dom EXCEPT !.frames = fs]
<1>1. InCallback /\ ~Opening /\ ~Closing /\ pc = "open_callback" /\ pc # "value_callback"
  BY DEF InCallback, KeyRead, Opening, Closing
<1>2. /\ Sound(dom) /\ StackInv /\ CallbackInv /\ bytes \in Bytes
      /\ Len(scopes) \in Nat /\ DOMAIN scopes = 1..Len(scopes)
  BY <1>1, CallbackFacts DEF EventType
<1>3. n = Len(scopes) /\ scopes # <<>>
  BY <1>1, <1>2 DEF StackInv, frames, IInv, ControlInv
<1>4. DomType(dom) /\ OnSpine(dom) /\ OneTree(dom.mem, dom.root) /\ dom.frames \in Seq(FrameType)
  BY <1>2 DEF Sound, DomType
<1>5. n \in 1..n /\ n \in Nat
  BY <1>2, <1>3, ScopeFacts
<1>6. dom.frames # <<>>
  BY <1>4, <1>5, FrameFacts
<1>7. /\ DOMAIN dom.frames = 1..n /\ Last(dom.frames) = f /\ f \in FrameType
  BY <1>2, <1>6, TopFacts
<1>8. /\ Last(scopes) = c /\ c.is_dict /\ ~c.expecting_key /\ c.keys # <<>> /\ Last(c.keys) = bytes
  BY <1>2, <1>3 DEF CallbackInv, Last
<1>9. \A i \in 1..n : Agrees(dom.frames[i], dom.mem.node[dom.frames[i].container], scopes[i],
                             i < n \/ KeyRead, i = n /\ KeyRead)
  BY <1>2, <1>3, <1>7 DEF StackInv, frames, mem
<1>10. Agrees(f, nd, c, TRUE, TRUE)
  <2>1. Agrees(f, nd, c, n < n \/ KeyRead, n = n /\ KeyRead)
    BY <1>5, <1>9
  <2>2. (n < n \/ KeyRead) = TRUE /\ (n = n /\ KeyRead) = TRUE
    OBVIOUS
  <2> QED BY ONLY <2>1, <2>2, Zenon
<1>11. KeyExpected(dom)
  <2>1. nd.type = "DICT" /\ f.expecting_key = TRUE
    BY <1>8, <1>10, <1>7 DEF Agrees, FrameType
  <2> QED BY <1>6, <1>7, <2>1 DEF KeyExpected, IsDict, top
<1>12. r.status = "OK" /\ r.dom = t
  <2>1. StashKey(dom, bytes) = t
    BY <1>4 DEF StashKey, DomType
  <2>2. r = Outcome(StashKey(dom, bytes), "OK")
    BY <1>11 DEF dom_on_string
  <2> HIDE DEF t
  <2> QED BY <2>1, <2>2, OutcomeFields
<1>13. /\ g \in FrameType /\ g.container = f.container
       /\ g.pending_key = <<bytes>> /\ g.expecting_key = FALSE
  <2> HIDE DEF f
  <2> QED BY <1>2, <1>7, FrameWithKey
<1> HIDE DEF g
<1>14. /\ fs \in Seq(FrameType) /\ Len(fs) = n /\ fs[n] = g
       /\ \A i \in 1..n : i # n => fs[i] = dom.frames[i]
  BY <1>4, <1>5, <1>7, <1>13
<1> HIDE DEF fs
<1>15. /\ DomType(t) /\ t.mem = dom.mem /\ t.root = dom.root /\ t.frames = fs
  BY <1>4, <1>14, DomWithFrames
<1> HIDE DEF t
<1>16. SamePath(dom, t)
  BY <1>7, <1>13, <1>14, <1>15 DEF SamePath
<1>17. Sound(t)
  BY <1>4, <1>15, <1>16, SameSpine DEF Sound
<1>18. Agrees(g, nd, c, FALSE, FALSE)
  <2>1. Len(c.keys) = Len(nd.entries) + 1 /\ \A k \in DOMAIN nd.entries : nd.entries[k].key = c.keys[k]
    BY <1>8, <1>10 DEF Agrees
  <2>2. nd.type = "DICT" /\ c.is_dict = TRUE /\ c.expecting_key = FALSE
    <3>1. c \in Scope
      BY <1>1, <1>3, <1>5, CallbackFacts
    <3> QED BY <1>8, <1>10, <3>1 DEF Agrees, Scope
  <2>3. Len(g.pending_key) = 1 /\ g.pending_key = <<Last(c.keys)>>
    BY <1>8, <1>13
  <2> HIDE DEF c, nd
  <2> QED BY <1>13, <2>1, <2>2, <2>3 DEF Agrees
<1>19. Told(t, scopes, n, FALSE)
  <2>1. ASSUME NEW i \in 1..n
        PROVE  Agrees(t.frames[i], t.mem.node[t.frames[i].container], scopes[i], i < n \/ FALSE, FALSE)
    <3>1. CASE i = n
      <4>1. t.frames[i] = g /\ t.mem.node[t.frames[i].container] = nd /\ scopes[i] = c
        BY <1>13, <1>14, <1>15, <3>1
      <4>2. (i < n \/ FALSE) = FALSE
        BY <1>5, <3>1
      <4> QED BY ONLY <1>18, <4>1, <4>2, Zenon
    <3>2. CASE i # n
      <4>1. t.frames[i] = dom.frames[i] /\ t.mem = dom.mem
        BY <1>14, <1>15, <3>2
      <4>2. i < n
        BY <1>5, <3>2
      <4>3. (i < n \/ FALSE) = TRUE /\ (i < n \/ KeyRead) = TRUE /\ (i = n /\ KeyRead) = FALSE
        BY <3>2, <4>2
      <4>4. Agrees(dom.frames[i], dom.mem.node[dom.frames[i].container], scopes[i],
                   i < n \/ KeyRead, i = n /\ KeyRead)
        BY <1>9
      <4> QED BY ONLY <4>1, <4>3, <4>4, Zenon
    <3> QED BY <3>1, <3>2
  <2>2. Len(t.frames) = n
    BY <1>14, <1>15
  <2> HIDE DEF n
  <2> QED BY ONLY <2>1, <2>2, Zenon DEF Told
<1>20. Respelt(r)
  <2>1. Waiting(dom) = <<>>
    <3>1. f.pending_key = <<>>
      BY <1>10, <1>11, <1>7 DEF Agrees, KeyExpected, top
    <3> QED BY <1>7, <3>1 DEF Waiting, top
  <2>2. Waiting(t) = EncodeString(bytes) /\ EncodeString(bytes) \in Bytes
    <3>1. Last(t.frames) = g /\ t.frames # <<>>
      BY <1>5, <1>14, <1>15 DEF Last
    <3>2. g.pending_key # <<>> /\ g.pending_key[1] = bytes
      BY <1>13
    <3> QED BY <1>2, <3>1, <3>2, EncodedBytes DEF Waiting, top
  <2>3. dom.root # NULL
    <3>1. 1 \in 1..n
      BY <1>5
    <3>2. dom.root \in DOMAIN dom.mem.node
      BY <1>4, <1>7, <3>1 DEF OnSpine
    <3> QED BY <1>2, <1>6, <3>2, TopFacts, NodeFacts
  <2>4. Len(t.frames) = n
    BY <1>14, <1>15
  <2>5. Adds(dom, t, EncodeString(bytes))
    BY <1>2, <1>15, <1>17, <2>1, <2>2, <2>3, <2>4, KeySpells
  <2>6. Encode(Last(events)) = EncodeString(bytes)
    BY DEF KeyRead, Encode
  <2> QED BY <1>3, <1>12, <2>4, <2>5, <2>6 DEF Respelt
<1> QED BY <1>1, <1>3, <1>12, <1>17, <1>19, <1>20 DEF Handled

\* The callback for the end of a container: the frame below it has been told
\* of that container since it began.
LEMMA Closed ==
  ASSUME IInv, DomInv, dom_pc = "sax", Closing, NEW r \in dom_on_end(dom)
  PROVE  Handled(r)
<1> DEFINE n  == Len(scopes)
           fs == IF dom.frames = <<>> THEN dom.frames ELSE Front(dom.frames)
           t  == [dom EXCEPT !.frames = fs]
<1>1. InCallback /\ ~KeyRead /\ pc = "value_callback"
  BY DEF InCallback, KeyRead, Closing
<1>2. Sound(dom) /\ n \in Nat
  BY <1>1, CallbackFacts
<1>3. /\ Len(dom.frames) = n + 1
      /\ \A i \in 1..n : Agrees(dom.frames[i], dom.mem.node[dom.frames[i].container], scopes[i], TRUE, FALSE)
  BY <1>1, StackTold
<1>4. DomType(dom) /\ OnSpine(dom) /\ OneTree(dom.mem, dom.root) /\ dom.frames \in Seq(FrameType)
  BY <1>2 DEF Sound, DomType
<1>5. dom.frames # <<>> /\ DOMAIN dom.frames = 1..(n + 1) /\ \A i \in 1..(n + 1) : dom.frames[i] \in FrameType
  BY <1>2, <1>3, <1>4, FrameFacts
<1>6. fs = [i \in 1..n |-> dom.frames[i]]
  BY <1>2, <1>3, <1>5 DEF Front
<1>7. fs \in Seq(FrameType) /\ Len(fs) = n /\ DOMAIN fs = 1..n /\ \A i \in 1..n : fs[i] = dom.frames[i]
  <2>1. fs \in [1..n -> FrameType]
    BY <1>5, <1>6
  <2>2. fs \in Seq(FrameType)
    BY <1>2, <2>1, SeqDef
  <2> QED BY <1>2, <1>6, <2>2
<1>8. r.status = "OK" /\ r.dom = t
  <2>1. r = Outcome(t, "OK")
    BY <1>4 DEF dom_on_end, DomType
  <2> HIDE DEF t
  <2> QED BY <2>1, OutcomeFields
<1> HIDE DEF fs
<1>9. /\ DomType(t) /\ t.mem = dom.mem /\ t.root = dom.root /\ t.frames = fs
  BY <1>4, <1>7, DomWithFrames
<1> HIDE DEF t
<1>10. OnSpine(t)
  <2>1. \A i \in 1..n : i \in 1..(n + 1) /\ t.frames[i] = dom.frames[i]
    BY <1>2, <1>7, <1>9
  <2>2. DOMAIN t.frames = 1..n
    BY <1>7, <1>9
  <2>3. ASSUME NEW i \in 1..n
        PROVE  /\ t.frames[i].container \in DOMAIN t.mem.node
               /\ i = 1 => t.frames[i].container = t.root
               /\ i > 1 => LastIs(t.mem, t.frames[i - 1].container, t.frames[i].container)
    <3>1. /\ dom.frames[i].container \in DOMAIN dom.mem.node
          /\ i = 1 => dom.frames[i].container = dom.root
          /\ i > 1 => LastIs(dom.mem, dom.frames[i - 1].container, dom.frames[i].container)
      BY <1>4, <1>5, <2>1 DEF OnSpine
    <3>2. i > 1 => i - 1 \in 1..n
      BY <1>2
    <3> QED BY <1>9, <2>1, <3>1, <3>2
  <2>4. \A i, j \in 1..n : i # j => t.frames[i].container # t.frames[j].container
    BY <1>4, <1>5, <2>1 DEF OnSpine
  <2> QED BY <2>2, <2>3, <2>4 DEF OnSpine
<1>11. Sound(t)
  BY <1>4, <1>9, <1>10 DEF Sound
<1>12. Told(t, scopes, n, TRUE)
  <2>1. ASSUME NEW i \in 1..n
        PROVE  Agrees(t.frames[i], t.mem.node[t.frames[i].container], scopes[i], i < n \/ TRUE, FALSE)
    <3>1. t.frames[i] = dom.frames[i] /\ t.mem = dom.mem /\ (i < n \/ TRUE) = TRUE
      BY <1>7, <1>9
    <3>2. Agrees(dom.frames[i], dom.mem.node[dom.frames[i].container], scopes[i], TRUE, FALSE)
      BY <1>3
    <3> QED BY ONLY <3>1, <3>2, Zenon
  <2>2. Len(t.frames) = n
    BY <1>7, <1>9
  <2> HIDE DEF n
  <2> QED BY ONLY <2>1, <2>2, Zenon DEF Told
<1>13. scopes # <<>> => Told(t, ValueDone(scopes), n, FALSE)
  BY <1>12, ToldDone
<1>14. Respelt(r)
  <2>1. Waiting(dom) = <<>>
    BY <1>1, CallbackFacts DEF StackInv, Waiting
  <2>2. Waiting(t) = <<>>
    <3>1. CASE n = 0
      BY <1>7, <1>9, <3>1, EmptySeq DEF Waiting
    <3>2. CASE n # 0
      <4>1. n \in 1..n /\ Last(t.frames) = t.frames[n]
        BY <1>2, <1>7, <1>9, <3>2 DEF Last
      <4>2. Agrees(t.frames[n], dom.mem.node[dom.frames[n].container], scopes[n], TRUE, FALSE)
        BY <1>3, <1>7, <1>9, <4>1
      <4>3. t.frames[n].pending_key = <<>>
        <5>1. scopes[n] \in Scope
          BY <1>1, <4>1, CallbackFacts
        <5> QED BY <4>2, <5>1 DEF Agrees, Scope
      <4> QED BY <4>1, <4>3 DEF Waiting, top
    <3> QED BY <3>1, <3>2
  <2>3. dom.root # NULL
    <3>1. 1 \in 1..(n + 1)
      BY <1>2
    <3>2. dom.root \in DOMAIN dom.mem.node
      BY <1>4, <1>5, <3>1 DEF OnSpine
    <3> QED BY <1>2, <1>5, <3>2, TopFacts, NodeFacts
  <2>4. Len(t.frames) = n
    BY <1>7, <1>9
  <2>5. Adds(dom, t, <<ch_e>>)
    BY <1>2, <1>3, <1>9, <1>11, <2>1, <2>2, <2>3, <2>4, PopSpells
  <2>6. Encode(Last(events)) = <<ch_e>>
    BY DEF Closing, Encode
  <2> QED BY <1>8, <2>4, <2>5, <2>6 DEF Respelt
<1> QED BY <1>1, <1>8, <1>11, <1>13, <1>14 DEF Handled

\* Whatever callback is in flight.
LEMMA HandlerHandled ==
  ASSUME IInv, DomInv, dom_pc = "sax", InCallback, NEW r \in Handler(dom, Last(events))
  PROVE  Handled(r)
<1> DEFINE e == Last(events)
<1>1. CallbackInv /\ e \in EventType
  BY CallbackFacts
<1>2. CASE KeyRead
  <2>1. r \in dom_on_string(dom, e.bytes)
    BY <1>2 DEF Handler, KeyRead
  <2> QED BY <1>2, <2>1, KeyStashed
<1>3. CASE Opening
  <2>1. CASE e.hook = "on_list_begin" /\ Last(scopes) = NewScope(FALSE)
    <3>1. r \in open_container(dom, FALSE)
      BY <2>1 DEF Handler
    <3> QED BY <1>3, <2>1, <3>1, Opened
  <2>2. CASE e.hook = "on_dict_begin" /\ Last(scopes) = NewScope(TRUE)
    <3>1. r \in open_container(dom, TRUE)
      BY <2>2 DEF Handler
    <3> QED BY <1>3, <2>2, <3>1, Opened
  <2> QED BY <1>1, <1>3, <2>1, <2>2 DEF CallbackInv
<1>4. CASE Closing
  <2>1. r \in dom_on_end(dom)
    BY <1>4 DEF Handler, Closing
  <2> QED BY <1>4, <2>1, Closed
<1>5. CASE pc = "value_callback" /\ ~Closing
  <2>1. CASE e.hook = "on_int"
    <3>1. r \in dom_on_int(dom, e.value) /\ e.value \in Int
      BY <1>1, <2>1 DEF Handler, EventType
    <3> QED BY <1>5, <2>1, <3>1, IntHandled
  <2>2. CASE e.hook = "on_string"
    <3>1. r \in dom_on_string(dom, e.bytes) /\ e.bytes \in Bytes
      BY <1>1, <2>2 DEF Handler, EventType
    <3> QED BY <1>5, <2>2, <3>1, StringHandled
  <2> QED BY <1>1, <1>5, <2>1, <2>2 DEF CallbackInv
<1> QED BY <1>2, <1>3, <1>4, <1>5 DEF InCallback, KeyRead, Opening

---------------------------------------------------------------------------
(* What the parser hears between two callbacks.                            *)

Fails == pc' \in {"unwind", "done"}

Stays == pc' \in {"value", "digits"} /\ scopes' = scopes

ValueHeard ==
  /\ pc' = "value_callback" /\ scopes' = scopes /\ Last(events').hook \in {"on_int", "on_string"}

OpeningHeard ==
  /\ pc' = "open_callback"
  /\ \E is_dict \in BOOLEAN :
       /\ scopes' = Append(scopes, NewScope(is_dict))
       /\ Last(events').hook = IF is_dict THEN "on_dict_begin" ELSE "on_list_begin"

KeyHeard ==
  /\ pc' = "open_callback" /\ scopes # <<>> /\ Last(scopes).expecting_key
  /\ Last(events').hook = "on_string" /\ Last(events').bytes \in Bytes
  /\ scopes' = AddKey(scopes, Last(events').bytes)

ClosingHeard ==
  /\ pc' = "value_callback" /\ scopes # <<>> /\ scopes' = Front(scopes)
  /\ Last(scopes).is_dict => Last(scopes).expecting_key
  /\ Last(events').hook \in {"on_list_end", "on_dict_end"}

Heard ==
  ~InCallback /\ (Fails \/ Stays \/ ValueHeard \/ OpeningHeard \/ KeyHeard \/ ClosingHeard)

LEMMA LastRecognised ==
  ASSUME IInv, NEW hook, NEW value, NEW bytes, NEW completes, NEW sc, NEW q,
         Recognise(Event(hook, value, bytes), completes, sc, q)
  PROVE  Last(events').hook = hook /\ Last(events').bytes = bytes
<1> DEFINE e == Event(hook, value, bytes)
<1>1. e.hook = hook /\ e.bytes = bytes
  BY DEF Event
<1> HIDE DEF e
<1>2. events \in Seq(EventType) /\ Len(events) \in Nat
  BY LenProperties DEF IInv, TypeOK
<1>3. events' = Append(events, e)
  BY DEF Recognise, e
<1>4. Last(events') = e
  BY <1>2, <1>3 DEF Last
<1> QED BY <1>1, <1>4

LEMMA UnsignedStays ==
  ASSUME NEW use, NEW negative, NEW q, parse_unsigned(use, negative, q)
  PROVE  Fails \/ Stays
BY DEF parse_unsigned, Reject, Fail, Fails, Stays

LEMMA ParseHears ==
  ASSUME IInv, call.hooks = Hooks, Parse
  PROVE  Heard
<1>1. ASSUME NEW st, NEW q, Reject(st, q)
      PROVE  Fails
  BY <1>1 DEF Reject, Fail, Fails
<1>2. ~SkipCallback
  <2>1. ASSUME InCallback PROVE Last(events).hook \in Hooks
    <3>1. events \in Seq(EventType) /\ events # <<>>
      BY <2>1 DEF IInv, TypeOK, ControlInv
    <3>2. Len(events) \in 1..Len(events)
      BY <3>1, LenProperties, EmptySeq
    <3>3. Last(events) \in EventType
      BY <3>1, <3>2, ElementOfSeq DEF Last
    <3> QED BY <3>3 DEF EventType
  <2> QED BY <2>1 DEF SkipCallback
<1>3. ~InCallback
  BY <1>2 DEF Parse, InCallback, RejectArguments, Start, Accumulate, FinishInt, FinishString, FinishKey,
     DigitsEnd, parse_int, parse_string, parse_list, parse_dict, UnexpectedByte, ExpectValue, InBody,
     BodyTruncated, CloseList, CloseDict, parse_dict_key, HandUp, ReportError
<1>4. CASE RejectArguments \/ UnexpectedByte \/ BodyTruncated \/ HandUp \/ ReportError
  BY <1>1, <1>3, <1>4
  DEF RejectArguments, UnexpectedByte, BodyTruncated, HandUp, ReportError, Heard, Fails
<1>5. CASE Start
  BY <1>3, <1>5 DEF Start, Heard, Stays
<1>6. CASE Accumulate
  BY <1>1, <1>3, <1>6 DEF Accumulate, Heard, Stays
<1>7. CASE FinishInt
  <2>1. CASE \E st : Reject(st, p)
    BY <1>1, <1>3, <2>1 DEF Heard
  <2>2. CASE \E v : Recognise(Event("on_int", v, <<>>), TRUE, scopes, p + 1)
    <3>1. PICK v : Recognise(Event("on_int", v, <<>>), TRUE, scopes, p + 1)
      BY <2>2
    <3>2. Last(events').hook = "on_int"
      BY <3>1, LastRecognised
    <3> QED BY <1>3, <3>1, <3>2 DEF Heard, ValueHeard, Recognise
  <2> QED BY <1>7, <2>1, <2>2 DEF FinishInt
<1>8. CASE FinishString
  <2>1. CASE \E st, q : Reject(st, q)
    BY <1>1, <1>3, <2>1 DEF Heard
  <2>2. CASE \E bytes, q : Recognise(Event("on_string", 0, bytes), TRUE, scopes, q)
    <3>1. PICK bytes, q : Recognise(Event("on_string", 0, bytes), TRUE, scopes, q)
      BY <2>2
    <3>2. Last(events').hook = "on_string"
      BY <3>1, LastRecognised
    <3> QED BY <1>3, <3>1, <3>2 DEF Heard, ValueHeard, Recognise
  <2> QED BY <1>8, <2>1, <2>2 DEF FinishString
<1>9. CASE FinishKey
  <2>1. CASE \E st, q : Reject(st, q)
    BY <1>1, <1>3, <2>1 DEF Heard
  <2>2. CASE ~ \E st, q : Reject(st, q)
    <3> DEFINE q   == p + 1
               key == Slice(q, num.acc)
    <3>1. Recognise(Event("on_string", 0, key), FALSE, AddKey(scopes, key), q + num.acc) /\ Payload(num.acc, q)
      BY <1>9, <2>2 DEF FinishKey
    <3>2. DigitsEnd("key")
      BY <1>9 DEF FinishKey
    <3>3. scopes # <<>> /\ Last(scopes).expecting_key /\ num.acc \in Nat
      BY <3>2, DigitsFacts
    <3>4. key \in Bytes
      BY <3>1, <3>3, SliceFacts, InputFacts DEF Payload, IInv, TypeOK
    <3> HIDE DEF key, q
    <3>5. Last(events').hook = "on_string" /\ Last(events').bytes = key
      BY <3>1, LastRecognised
    <3>6. pc' = "open_callback" /\ scopes' = AddKey(scopes, key)
      BY <3>1 DEF Recognise
    <3> QED BY <1>3, <3>3, <3>4, <3>5, <3>6 DEF Heard, KeyHeard
  <2> QED BY <2>1, <2>2
<1>10. CASE parse_int \/ parse_string \/ parse_dict_key
  BY <1>1, <1>3, <1>10, UnsignedStays DEF parse_int, parse_string, parse_dict_key, Heard
<1>11. ASSUME NEW is_dict \in BOOLEAN, NEW hook, Open(is_dict, hook),
              hook = IF is_dict THEN "on_dict_begin" ELSE "on_list_begin"
       PROVE  Heard
  <2>1. CASE \E st, q : Reject(st, q)
    BY <1>1, <1>3, <2>1 DEF Heard
  <2>2. CASE Recognise(Event(hook, 0, <<>>), FALSE, Append(scopes, NewScope(is_dict)), p + 1)
    <3>1. Last(events').hook = hook
      BY <2>2, LastRecognised
    <3>2. pc' = "open_callback" /\ scopes' = Append(scopes, NewScope(is_dict))
      BY <2>2 DEF Recognise
    <3> QED BY <1>3, <1>11, <3>1, <3>2 DEF Heard, OpeningHeard
  <2> QED BY <1>11, <2>1, <2>2 DEF Open
<1>12. CASE parse_list \/ parse_dict
  BY <1>11, <1>12 DEF parse_list, parse_dict
<1>13. ASSUME NEW hook \in {"on_list_end", "on_dict_end"}, InBody, Close(hook),
              Last(scopes).is_dict => Last(scopes).expecting_key
       PROVE  Heard
  <2>1. Last(events').hook = hook
    BY <1>13, LastRecognised DEF Close
  <2>2. pc' = "value_callback" /\ scopes' = Front(scopes) /\ scopes # <<>>
    BY <1>13 DEF Close, Recognise, InBody, IInv, ControlInv
  <2> QED BY <1>3, <1>13, <2>1, <2>2 DEF Heard, ClosingHeard
<1>14. CASE CloseList \/ CloseDict
  BY <1>1, <1>3, <1>13, <1>14 DEF CloseList, CloseDict, Heard
<1> QED BY <1>2, <1>4, <1>5, <1>6, <1>7, <1>8, <1>9, <1>10, <1>12, <1>14 DEF Parse

\* What the frames have been told stays true of what the parser hears next.
LEMMA HeardStack ==
  ASSUME IInv, IInv', DomInv, dom_pc = "sax", pc \notin {"unwind", "done"}, Heard, dom' = dom
  PROVE  CallbackInv' /\ (~Fails => StackInv')
<1> DEFINE n  == Len(dom.frames)
           fs == dom.frames
           nd(i) == dom.mem.node[fs[i].container]
<1>1. /\ DomType(dom) /\ StackInv /\ ~Opening /\ ~Closing /\ ~KeyRead
  BY DEF DomInv, Heard, InCallback, Opening, Closing, KeyRead
<1>2. n \in Nat /\ DOMAIN fs = 1..n /\ fs \in Seq(FrameType) /\ \A i \in 1..n : fs[i] \in FrameType
  BY <1>1, FrameFacts DEF DomType
<1>3. Len(scopes) \in Nat /\ DOMAIN scopes = 1..Len(scopes) /\ \A i \in 1..Len(scopes) : scopes[i] \in Scope
  <2>1. scopes \in Seq(Scope)
    BY DEF IInv, TypeOK
  <2> QED BY <2>1, LenProperties, ElementOfSeq
<1>4. Len(scopes') \in Nat /\ DOMAIN scopes' = 1..Len(scopes')
  <2>1. scopes' \in Seq(Scope)
    BY DEF IInv, TypeOK
  <2> QED BY <2>1, LenProperties
<1>5. n = Len(scopes) /\ (fs = <<>> => dom.root = NULL)
  BY <1>1 DEF StackInv, frames
<1>6. ASSUME NEW i \in 1..n
      PROVE  Agrees(fs[i], nd(i), scopes[i], i < n, FALSE)
  <2>1. Agrees(fs[i], nd(i), scopes[i], i < n \/ KeyRead, i = n /\ KeyRead)
    BY <1>1, <1>2, <1>3, <1>5 DEF StackInv, frames, mem
  <2>2. (i < n \/ KeyRead) = (i < n) /\ (i = n /\ KeyRead) = FALSE
    BY <1>1
  <2> QED BY ONLY <2>1, <2>2, Zenon
<1>7. ASSUME Closing' => Last(fs).pending_key = <<>>,
             n = IF Opening' THEN Len(scopes') - 1 ELSE IF Closing' THEN Len(scopes') + 1 ELSE Len(scopes'),
             \A i \in 1..n : i \in 1..Len(scopes') =>
               Agrees(fs[i], nd(i), scopes'[i], i < n \/ KeyRead', i = n /\ KeyRead')
      PROVE  StackInv'
  BY <1>2, <1>4, <1>5, <1>7 DEF StackInv, frames, mem, top
<1>8. ASSUME ~KeyRead', Closing' => Last(fs).pending_key = <<>>,
             n = IF Opening' THEN Len(scopes') - 1 ELSE IF Closing' THEN Len(scopes') + 1 ELSE Len(scopes'),
             \A i \in 1..n : i \in 1..Len(scopes') => scopes'[i] = scopes[i]
      PROVE  StackInv'
  <2>1. ASSUME NEW i \in 1..n, i \in 1..Len(scopes')
        PROVE  Agrees(fs[i], nd(i), scopes'[i], i < n \/ KeyRead', i = n /\ KeyRead')
    <3>1. Agrees(fs[i], nd(i), scopes[i], i < n, FALSE) /\ scopes'[i] = scopes[i]
      BY <1>6, <1>8, <2>1
    <3>2. (i < n \/ KeyRead') = (i < n) /\ (i = n /\ KeyRead') = FALSE
      BY <1>8
    <3> QED BY ONLY <3>1, <3>2, Zenon
  <2> QED BY <1>7, <1>8, <2>1
<1>9. CASE Fails
  BY <1>9 DEF Fails, CallbackInv, Opening, Closing, KeyRead
<1>10. CASE Stays
  <2>1. ~Opening' /\ ~Closing' /\ ~KeyRead' /\ pc' # "value_callback"
    BY <1>10 DEF Stays, Opening, Closing, KeyRead
  <2>2. StackInv'
    BY <1>5, <1>8, <1>10, <2>1 DEF Stays
  <2> QED BY <2>1, <2>2 DEF CallbackInv
<1>11. CASE ValueHeard
  <2>1. ~Opening' /\ ~Closing' /\ ~KeyRead'
    BY <1>11 DEF ValueHeard, Opening, Closing, KeyRead
  <2>2. StackInv'
    BY <1>5, <1>8, <1>11, <2>1 DEF ValueHeard
  <2> QED BY <1>11, <2>1, <2>2 DEF CallbackInv, ValueHeard
<1>12. CASE OpeningHeard
  <2>1. PICK is_dict \in BOOLEAN :
          /\ scopes' = Append(scopes, NewScope(is_dict))
          /\ Last(events').hook = IF is_dict THEN "on_dict_begin" ELSE "on_list_begin"
    BY <1>12 DEF OpeningHeard
  <2>2. Opening' /\ ~Closing' /\ ~KeyRead' /\ pc' = "open_callback"
    BY <1>12, <2>1 DEF OpeningHeard, Opening, Closing, KeyRead
  <2> DEFINE c == NewScope(is_dict)
  <2>3. /\ Len(scopes') = Len(scopes) + 1 /\ Last(scopes') = c
        /\ \A i \in 1..Len(scopes) : scopes'[i] = scopes[i]
    <3> HIDE DEF c
    <3>1. scopes' = Append(scopes, c)
      BY <2>1 DEF c
    <3>2. scopes \in Seq(Scope)
      BY DEF IInv, TypeOK
    <3> QED BY <3>1, <3>2 DEF Last
  <2>4. StackInv'
    BY <1>3, <1>5, <1>8, <2>2, <2>3
  <2>5. CallbackInv'
    BY <2>1, <2>2, <2>3 DEF CallbackInv
  <2> QED BY <2>4, <2>5
<1>13. CASE ClosingHeard
  <2>1. ~Opening' /\ Closing' /\ ~KeyRead' /\ pc' = "value_callback"
    BY <1>13 DEF ClosingHeard, Opening, Closing, KeyRead
  <2>2. Len(scopes') = Len(scopes) - 1 /\ \A i \in 1..(Len(scopes) - 1) : scopes'[i] = scopes[i]
    BY <1>13, FrontGood DEF ClosingHeard
  <2>3. Last(fs).pending_key = <<>>
    <3>1. n \in 1..n /\ scopes[n] \in Scope /\ Last(scopes) = scopes[n] /\ Last(fs) = fs[n]
      BY <1>3, <1>5, <1>13, ScopeFacts DEF ClosingHeard, Last
    <3>2. Agrees(fs[n], nd(n), scopes[n], n < n, FALSE)
      BY <1>6, <3>1
    <3>3. (n < n) = FALSE
      BY <1>2
    <3>4. Agrees(fs[n], nd(n), scopes[n], FALSE, FALSE)
      BY ONLY <3>2, <3>3, Zenon
    <3> QED BY <1>13, <3>1, <3>4 DEF ClosingHeard, Agrees, Scope
  <2>4. StackInv'
    BY <1>3, <1>5, <1>8, <2>1, <2>2, <2>3
  <2> QED BY <2>1, <2>4 DEF CallbackInv
<1>14. CASE KeyHeard
  <2> DEFINE key == Last(events').bytes
             c  == scopes[n]
             c2 == scopes'[n]
  <2>1. ~Opening' /\ ~Closing' /\ KeyRead' /\ pc' = "open_callback"
    BY <1>14 DEF KeyHeard, Opening, Closing, KeyRead
  <2>2. scopes # <<>> /\ c.expecting_key /\ key \in Bytes /\ scopes' = AddKey(scopes, key)
    BY <1>5, <1>14 DEF KeyHeard, Last
  <2>3. n \in 1..n /\ c \in Scope
    BY <1>3, <1>5, <2>2, ScopeFacts
  <2>4. c.is_dict /\ c.keys \in Seq(Bytes)
    BY <1>3, <1>5, <2>2, <2>3 DEF IInv, ScopeInv, Scope
  <2>5. /\ Len(scopes') = n /\ c2 = [is_dict |-> c.is_dict, expecting_key |-> FALSE,
                                     last_key |-> <<key>>, keys |-> Append(c.keys, key)]
        /\ \A i \in 1..n : i # n => scopes'[i] = scopes[i]
    BY <1>3, <1>5, <2>2, <2>3 DEF AddKey, Last
  <2> HIDE DEF key
  <2>6. /\ Append(c.keys, key) \in Seq(Bytes) /\ Len(Append(c.keys, key)) = Len(c.keys) + 1
        /\ Append(c.keys, key) # <<>> /\ Last(Append(c.keys, key)) = key
        /\ Len(c.keys) \in Nat /\ DOMAIN c.keys = 1..Len(c.keys)
        /\ \A k \in 1..Len(c.keys) : Append(c.keys, key)[k] = c.keys[k]
    <3>1. c.keys \in Seq(Bytes) /\ key \in Bytes
      BY <2>2, <2>4
    <3>2. ASSUME NEW ks \in Seq(Bytes)
          PROVE  /\ Append(ks, key) \in Seq(Bytes) /\ Len(Append(ks, key)) = Len(ks) + 1
                 /\ Append(ks, key) # <<>> /\ Append(ks, key)[Len(ks) + 1] = key
                 /\ Len(ks) \in Nat /\ DOMAIN ks = 1..Len(ks)
                 /\ \A k \in 1..Len(ks) : Append(ks, key)[k] = ks[k]
      BY <3>1, AppendFacts, AppendProperties
    <3> QED BY <3>1, <3>2 DEF Last
  <2>7. c2.is_dict = c.is_dict /\ c2.expecting_key = FALSE /\ c2.keys = Append(c.keys, key)
    BY <2>5
  <2>8. Agrees(fs[n], nd(n), c2, TRUE, TRUE)
    <3>1. Agrees(fs[n], nd(n), c, FALSE, FALSE)
      <4>1. Agrees(fs[n], nd(n), c, n < n, FALSE)
        BY <1>6, <2>3
      <4>2. (n < n) = FALSE
        BY <1>2
      <4> QED BY ONLY <4>1, <4>2, Zenon
    <3>2. c.is_dict = TRUE /\ c.expecting_key = TRUE
      BY <2>2, <2>3, <2>4 DEF Scope
    <3> DEFINE f == fs[n]
               x == nd(n)
    <3> HIDE DEF f, x, c, c2
    <3>3. x.type = "DICT" /\ f.expecting_key = TRUE /\ f.pending_key = <<>>
      BY <3>1, <3>2 DEF Agrees, f, x
    <3>4. Len(c.keys) = Len(x.entries) /\ \A k \in DOMAIN x.entries : x.entries[k].key = c.keys[k]
      <4>1. Len(c.keys) = Len(x.entries) + Len(f.pending_key) /\ \A k \in DOMAIN x.entries : x.entries[k].key = c.keys[k]
        BY <3>1, <3>2 DEF Agrees, f, x
      <4>2. Len(f.pending_key) = 0
        BY <3>3
      <4>3. Len(x.entries) \in Nat
        <5>1. fs[n].container \in DOMAIN dom.mem.node /\ HeapType(dom.mem)
          BY <1>2, <2>3 DEF DomInv, OnSpine, OneTree, HeapInv, mem
        <5> QED BY <5>1, NodeFacts DEF x
      <4> QED BY <4>1, <4>2, <4>3
    <3>5. DOMAIN x.entries \subseteq 1..Len(c.keys)
      <4>1. fs[n].container \in DOMAIN dom.mem.node /\ HeapType(dom.mem)
        BY <1>2, <2>3 DEF DomInv, OnSpine, OneTree, HeapInv, mem
      <4>2. DOMAIN x.entries = 1..Len(x.entries)
        BY <4>1, NodeFacts DEF x
      <4> QED BY <3>4, <4>2
    <3>6. Len(c2.keys) = Len(x.entries) + 1
      BY <2>6, <2>7, <3>4
    <3>7. \A k \in DOMAIN x.entries : x.entries[k].key = c2.keys[k]
      BY <2>6, <2>7, <3>4, <3>5
    <3>8. Agrees(f, x, c2, TRUE, TRUE)
      BY <2>7, <3>2, <3>3, <3>6, <3>7 DEF Agrees
    <3> QED BY <3>8 DEF f, x
  <2>9. ASSUME NEW i \in 1..n
        PROVE  Agrees(fs[i], nd(i), scopes'[i], i < n \/ KeyRead', i = n /\ KeyRead')
    <3>1. CASE i = n
      <4>1. (i < n \/ KeyRead') = TRUE /\ (i = n /\ KeyRead') = TRUE
        BY <2>1, <3>1
      <4> QED BY ONLY <2>8, <3>1, <4>1, Zenon
    <3>2. CASE i # n
      <4>1. i < n
        BY <1>2, <3>2
      <4>2. (i < n \/ KeyRead') = TRUE /\ (i = n /\ KeyRead') = FALSE /\ (i < n) = TRUE
        BY <3>2, <4>1
      <4>3. Agrees(fs[i], nd(i), scopes[i], i < n, FALSE) /\ scopes'[i] = scopes[i]
        BY <1>6, <2>5, <3>2
      <4> QED BY ONLY <4>2, <4>3, Zenon
    <3> QED BY <3>1, <3>2
  <2>10. StackInv'
    BY <1>7, <2>1, <2>5, <2>9
  <2>11. CallbackInv'
    <3>1. Last(scopes') = c2
      BY <2>5 DEF Last
    <3> QED BY <2>1, <2>4, <2>6, <2>7, <3>1 DEF CallbackInv, key
  <2> QED BY <2>10, <2>11
<1> QED BY <1>9, <1>10, <1>11, <1>12, <1>13, <1>14 DEF Heard

---------------------------------------------------------------------------
(* The invariant.                                                          *)

\* A heap with nothing in it is the tree of no root.
LEMMA EmptyTree ==
  ASSUME NEW m, m.live = {}, m.node \in [{} -> NodeType], m.fault = FALSE,
         m = Heap(m.live, m.node, m.fault)
  PROVE  OneTree(m, NULL)
<1>1. DOMAIN m.node = {}
  OBVIOUS
<1>2. HeapType(m)
  <2>1. IsFiniteSet(m.live)
    BY FS_EmptySet
  <2> QED BY <1>1, <2>1 DEF HeapType
<1>3. HeldOnce(m, {}) /\ OneParent(m) /\ Ordered(m)
  BY <1>1 DEF HeldOnce, OneParent, Ordered
<1>4. Tree(m, NULL) = {}
  BY <1>2, TreeOfNull
<1> QED BY <1>1, <1>2, <1>3, <1>4 DEF OneTree, HeapInv

LEMMA NothingAllocated == OneTree(EmptyHeap, NULL)
<1>1. EmptyHeap.live = {} /\ EmptyHeap.node = <<>> /\ EmptyHeap.fault = FALSE
      /\ EmptyHeap = Heap(EmptyHeap.live, EmptyHeap.node, EmptyHeap.fault)
  BY DEF EmptyHeap, Heap
<1>2. EmptyHeap.node \in [{} -> NodeType]
  <2>1. <<>> = [i \in {} |-> i]
    OBVIOUS
  <2> QED BY <1>1, <2>1
<1> QED BY <1>1, <1>2, EmptyTree

\* At the entry of bencode_parse.
DomAtEntry ==
  /\ AtEntry /\ call \in CallType
  /\ dom_pc = "entry" /\ opts \in OptionType /\ dom = dom_state(opts.alloc)

LEMMA EntryDomInv == DomAtEntry => IInv /\ DomInv
<1> SUFFICES ASSUME DomAtEntry PROVE DomInv
  BY EntryInv DEF DomAtEntry
<1>1. /\ pc = "entry" /\ dom_pc = "entry" /\ scopes = <<>> /\ opts \in OptionType
      /\ dom = [root |-> NULL, alloc |-> opts.alloc, frames |-> <<>>, mem |-> EmptyHeap]
  BY DEF DomAtEntry, AtEntry, dom_state
<1>2. dom.root = NULL /\ dom.frames = <<>> /\ dom.mem = EmptyHeap /\ dom.alloc = opts.alloc
  BY <1>1
<1>3. DomType(dom)
  <2>1. dom.frames \in Seq(FrameType)
    BY <1>2, EmptySeq
  <2>2. dom.root \in Nat /\ dom.alloc \in Allocator
    BY <1>1, <1>2 DEF NULL, OptionType
  <2> QED BY <1>1, <1>2, <2>1, <2>2 DEF DomType
<1>4. OneTree(EmptyHeap, NULL)
  BY NothingAllocated
<1>5. OnSpine(dom)
  BY <1>2 DEF OnSpine
<1>6. CallbackInv /\ StackInv
  BY <1>1, <1>2 DEF CallbackInv, StackInv, Opening, Closing, KeyRead, frames
<1> QED BY <1>1, <1>2, <1>3, <1>4, <1>5, <1>6 DEF DomInv, mem

LEMMA InitDomInv == DomInit => IInv /\ DomInv
BY EntryDomInv, CallsAssumption, OptionsAssumption DEF DomInit, Init, DomAtEntry

\* The parser goes on, or gives up, as the callback bids it.
LEMMA CallbackDomInv ==
  ASSUME IInv, IInv', DomInv, DomCallback
  PROVE  DomInv'
<1>1. PICK r \in Handler(dom, Last(events)) : Resume(r.status) /\ dom' = r.dom
  BY DEF DomCallback
<1>2. dom_pc = "sax" /\ InCallback /\ UNCHANGED <<opts, dom_pc, returned>>
  BY DEF DomCallback
<1>3. Handled(r)
  BY <1>1, <1>2, HandlerHandled
<1>4. Sound(dom')
  BY <1>1, <1>3 DEF Handled
<1>5. pc' \in {"body", "unwind", "done"}
  BY <1>1 DEF Resume, Proceed, Fail
<1>6. CallbackInv' /\ ~Opening' /\ ~Closing' /\ ~KeyRead'
  BY <1>5 DEF CallbackInv, Opening, Closing, KeyRead
<1>7. ASSUME pc' \notin {"unwind", "done"}
      PROVE  StackInv'
  <2> DEFINE n == Len(scopes')
  <2>1. /\ r.status = "OK" /\ scopes # <<>>
        /\ scopes' = IF pc = "value_callback" THEN ValueDone(scopes) ELSE scopes
    BY <1>1, <1>2, <1>7 DEF Resume, Proceed, Fail, IInv, ControlInv, InCallback
  <2>2. n = Len(scopes) /\ n \in 1..n
    BY <2>1, ScopeFacts, ValueDoneGood
  <2>3. Told(dom', scopes', n, FALSE)
    <3>1. Told(r.dom, IF pc = "value_callback" THEN ValueDone(scopes) ELSE scopes, Len(scopes), FALSE)
      BY <1>3, <2>1 DEF Handled
    <3> QED BY <1>1, <2>1, <2>2, <3>1
  <2>4. Len(dom'.frames) = n /\ DOMAIN dom'.frames = 1..n
    BY <1>4, <2>3, FrameFacts DEF Told, Sound, DomType
  <2>5. dom'.frames # <<>>
    BY <1>4, <2>2, <2>4, FrameFacts DEF Sound, DomType
  <2>6. DOMAIN scopes' = 1..n
    <3>1. scopes' \in Seq(Scope)
      BY DEF IInv, TypeOK
    <3> QED BY <3>1, LenProperties
  <2>7. ASSUME NEW i \in 1..n
        PROVE  Agrees(dom'.frames[i], dom'.mem.node[dom'.frames[i].container], scopes'[i],
                      i < n \/ KeyRead', i = n /\ KeyRead')
    <3>1. Agrees(dom'.frames[i], dom'.mem.node[dom'.frames[i].container], scopes'[i], i < n \/ FALSE, FALSE)
      BY <2>3 DEF Told
    <3>2. (i < n \/ FALSE) = (i < n \/ KeyRead') /\ (i = n /\ KeyRead') = FALSE
      BY <1>6
    <3> QED BY ONLY <3>1, <3>2, Zenon
  <2> QED BY <1>6, <2>4, <2>5, <2>6, <2>7 DEF StackInv, frames, mem
<1>8. opts' \in OptionType /\ dom_pc' = "sax"
  BY <1>2 DEF DomInv
<1> QED BY <1>4, <1>5, <1>6, <1>7, <1>8 DEF DomInv, Sound, mem

LEMMA DeliverDomInv ==
  ASSUME DomInv, Deliver
  PROVE  DomInv'
<1>1. /\ dom_pc = "sax" /\ dom_pc' = "returned" /\ UNCHANGED <<vars, opts>> /\ pc = "done"
      /\ DomType(dom) /\ OneTree(dom.mem, dom.root) /\ opts' \in OptionType
  BY DEF Deliver, DomInv, mem
<1>2. pc' = "done"
  BY <1>1 DEF vars
<1>3. CASE FinalStatus = "OK"
  <2>1. returned' = <<"OK", dom.root, consumed>> /\ dom' = dom
    BY <1>3 DEF Deliver
  <2>2. returned'[2] = dom.root
    BY <2>1
  <2> QED BY <1>1, <1>2, <2>1, <2>2 DEF DomInv, mem
<1>4. CASE FinalStatus # "OK"
  <2> DEFINE m == bencode_value_free(dom.mem, dom.root)
  <2>1. returned' = <<FinalStatus, NULL, consumed>> /\ dom' = [dom EXCEPT !.mem = m]
    BY <1>1, <1>4 DEF Deliver, DomType
  <2>2. returned'[2] = NULL
    BY <2>1
  <2>3. OneTree(m, NULL)
    <3>1. m.live = {} /\ m.node \in [{} -> NodeType] /\ m.fault = FALSE /\ m = Heap(m.live, m.node, m.fault)
      BY <1>1, FreeTree DEF OneTree
    <3> HIDE DEF m
    <3> QED BY <3>1, EmptyTree
  <2> HIDE DEF m
  <2>4. DomType(dom') /\ dom'.mem = m
    BY <1>1, <2>1, DomWithMem
  <2> QED BY <1>1, <1>2, <2>2, <2>3, <2>4 DEF DomInv, mem
<1> QED BY <1>3, <1>4

\* Every step of bencode_parse preserves DomInv.
LEMMA NextDomInv ==
  ASSUME IInv, IInv', DomInv, call.hooks = Hooks, [DomNext]_<<vars, dom_vars>>
  PROVE  DomInv'
<1>1. CASE RefuseArguments
  <2>1. /\ dom_pc = "entry" /\ dom_pc' = "returned" /\ UNCHANGED <<vars, opts, dom>>
        /\ returned' = <<"INVALID_ARG", NULL, 0>>
    BY <1>1 DEF RefuseArguments
  <2>2. pc = "entry" /\ pc' = "entry"
    BY <2>1 DEF DomInv, vars
  <2>3. returned'[2] = NULL /\ dom.root = NULL /\ dom' = dom
    BY <2>1, <2>2 DEF DomInv
  <2> QED BY <2>1, <2>2, <2>3 DEF DomInv, mem
<1>2. CASE CallSax
  <2>1. /\ dom_pc = "entry" /\ dom_pc' = "sax" /\ UNCHANGED <<vars, opts, dom, returned>>
    BY <1>2 DEF CallSax
  <2>2. CallbackInv' = CallbackInv /\ StackInv' = StackInv /\ OnSpine(dom)' = OnSpine(dom)
    BY <2>1 DEF vars, CallbackInv, StackInv, Opening, Closing, KeyRead, frames, mem, Last
  <2> QED BY <2>1, <2>2 DEF DomInv, mem, vars
<1>3. CASE SaxStep
  <2>1. dom_pc = "sax" /\ Parse /\ UNCHANGED dom_vars
    BY <1>3 DEF SaxStep
  <2>2. dom' = dom /\ dom_pc' = dom_pc /\ opts' = opts /\ returned' = returned
    BY <2>1 DEF dom_vars
  <2>3. Heard
    BY <2>1, ParseHears
  <2>4. CallbackInv' /\ (~Fails => StackInv')
    <3>1. CASE pc \in {"unwind", "done"}
      <4>1. Fails
        BY <2>1, <3>1, ErrorSteps DEF Next, HandUp, ReportError, Fails
      <4> QED BY <4>1 DEF Fails, CallbackInv, Opening, Closing, KeyRead
    <3>2. CASE pc \notin {"unwind", "done"}
      BY <2>1, <2>2, <2>3, <3>2, HeardStack
    <3> QED BY <3>1, <3>2
  <2>5. pc' # "entry"
    BY <2>3 DEF Heard, Fails, Stays, ValueHeard, OpeningHeard, KeyHeard, ClosingHeard
  <2> QED BY <2>1, <2>2, <2>4, <2>5 DEF DomInv, mem, Fails
<1>4. CASE DomCallback
  BY <1>4, CallbackDomInv
<1>5. CASE Deliver
  BY <1>5, DeliverDomInv
<1>6. CASE UNCHANGED <<vars, dom_vars>>
  <2>1. UNCHANGED vars /\ dom' = dom /\ dom_pc' = dom_pc /\ opts' = opts /\ returned' = returned
    BY <1>6 DEF dom_vars
  <2>2. CallbackInv' = CallbackInv /\ StackInv' = StackInv
    BY <2>1 DEF vars, CallbackInv, StackInv, Opening, Closing, KeyRead, frames, mem, Last
  <2> QED BY <2>1, <2>2 DEF DomInv, mem, vars
<1> QED BY <1>1, <1>2, <1>3, <1>4, <1>5, <1>6 DEF DomNext

\* DomInv holds in every reachable state of every call of bencode_parse.
THEOREM TreeInvariance == DomSpec => [](IInv /\ DomInv)
<1> DEFINE Inv == IInv /\ DomInv /\ call.hooks = Hooks
<1>1. DomInit => Inv
  BY InitDomInv DEF DomInit
<1>2. Inv /\ [DomNext]_<<vars, dom_vars>> => Inv'
  BY DomStepIsSaxStep, NextInv, NextDomInv
<1>3. Inv => IInv /\ DomInv
  OBVIOUS
<1> HIDE DEF Inv
<1> QED BY <1>1, <1>2, <1>3, PTL DEF DomSpec

---------------------------------------------------------------------------
(* What the runs check of bencode_parse, for every value of the constants. *)

LEMMA MirrorHolds ==
  ASSUME IInv, DomInv
  PROVE  Mirror
<1> SUFFICES ASSUME dom_pc = "sax", pc \in {"value", "body", "digits"}
             PROVE  /\ Len(frames) = Len(scopes)
                    /\ \A i \in DOMAIN frames :
                         LET sc == scopes[i]
                             wants_key == IF i = Len(scopes) THEN sc.expecting_key ELSE sc.is_dict
                         IN  /\ IsDict(dom, frames[i].container) = sc.is_dict
                             /\ frames[i].expecting_key = wants_key
                             /\ frames[i].pending_key =
                                  IF sc.is_dict /\ ~wants_key THEN sc.last_key ELSE <<>>
  BY DEF Mirror
<1>1. StackInv /\ ~Opening /\ ~Closing /\ ~KeyRead /\ DomType(dom)
  BY DEF DomInv, Opening, Closing, KeyRead
<1>2. Len(frames) = Len(scopes) /\ Len(frames) \in Nat
      /\ DOMAIN frames = 1..Len(frames) /\ \A i \in DOMAIN frames : frames[i] \in FrameType
  BY <1>1, FrameFacts DEF StackInv, DomType, frames
<1>3. DOMAIN scopes = 1..Len(scopes) /\ \A i \in 1..Len(scopes) : scopes[i] \in Scope
  <2>1. scopes \in Seq(Scope)
    BY DEF IInv, TypeOK
  <2> QED BY <2>1, LenProperties, ElementOfSeq
<1>4. ASSUME NEW i \in DOMAIN frames
      PROVE  LET sc == scopes[i]
                 wants_key == IF i = Len(scopes) THEN sc.expecting_key ELSE sc.is_dict
             IN  /\ IsDict(dom, frames[i].container) = sc.is_dict
                 /\ frames[i].expecting_key = wants_key
                 /\ frames[i].pending_key =
                      IF sc.is_dict /\ ~wants_key THEN sc.last_key ELSE <<>>
  <2> DEFINE f  == frames[i]
             nd == mem.node[f.container]
             c  == scopes[i]
             n  == Len(frames)
             wants_key == IF i = Len(scopes) THEN c.expecting_key ELSE c.is_dict
  <2>1. Agrees(f, nd, c, i < n, FALSE)
    <3>1. Agrees(f, nd, c, i < n \/ KeyRead, i = n /\ KeyRead)
      BY <1>1, <1>2, <1>3, <1>4 DEF StackInv
    <3>2. (i < n \/ KeyRead) = (i < n) /\ (i = n /\ KeyRead) = FALSE
      BY <1>1
    <3> QED BY ONLY <3>1, <3>2, Zenon
  <2>2. c \in Scope /\ f \in FrameType
    BY <1>2, <1>3, <1>4
  <2>3. c.last_key = IF c.keys = <<>> THEN <<>> ELSE <<Last(c.keys)>>
    BY <1>2, <1>3, <1>4 DEF IInv, ScopeInv
  <2>4. (i < n) = (i # Len(scopes))
    BY <1>2, <1>4
  <2>5. HeapType(mem) /\ f.container \in DOMAIN mem.node
    BY <1>4 DEF DomInv, OnSpine, OneTree, HeapInv, frames, mem
  <2>6. Len(nd.entries) \in Nat
    BY <2>5, NodeFacts
  <2>7. IsDict(dom, f.container) = (nd.type = "DICT")
    BY DEF IsDict, mem
  <2> HIDE DEF f, nd, c, n
  <2>8. (nd.type = "DICT") = c.is_dict
    BY <2>1, <2>2 DEF Agrees, Scope
  <2>9. f.expecting_key = wants_key
    BY <2>1, <2>4 DEF Agrees
  <2>10. f.pending_key = IF c.is_dict /\ ~wants_key THEN c.last_key ELSE <<>>
    <3>1. CASE c.is_dict /\ ~f.expecting_key
      <4>1. f.pending_key = <<Last(c.keys)>> /\ Len(c.keys) = Len(nd.entries) + Len(f.pending_key)
        BY <2>1, <3>1 DEF Agrees
      <4>2. Len(f.pending_key) = 1
        BY <4>1
      <4>3. Len(c.keys) = Len(nd.entries) + 1
        BY <4>1, <4>2
      <4>4. c.keys # <<>>
        <5>1. c.keys \in Seq(Bytes)
          BY <2>2 DEF Scope
        <5>2. c.keys = <<>> => Len(c.keys) = 0
          OBVIOUS
        <5> QED BY <2>6, <4>3, <5>2
      <4> QED BY <2>3, <2>9, <3>1, <4>1, <4>4
    <3>2. CASE ~(c.is_dict /\ ~f.expecting_key)
      BY <2>1, <2>9, <3>2 DEF Agrees
    <3> QED BY <3>1, <3>2
  <2> QED BY <2>7, <2>8, <2>9, <2>10 DEF f, c
<1> QED BY <1>2, <1>4

LEMMA SpineHolds ==
  ASSUME DomInv
  PROVE  Spine
<1> SUFFICES ASSUME dom_pc = "sax", NEW i \in DOMAIN frames
             PROVE  /\ frames[i].container \in DOMAIN mem.node
                    /\ frames[i].container =
                         IF i = 1 THEN dom.root
                         ELSE Last(mem.node[frames[i - 1].container].entries).value
  BY DEF Spine
<1>1. OnSpine(dom) /\ DomType(dom)
  BY DEF DomInv
<1>2. i \in 1..Len(frames) /\ Len(frames) \in Nat
  BY <1>1, FrameFacts DEF DomType, frames
<1>3. /\ frames[i].container \in DOMAIN mem.node
      /\ i = 1 => frames[i].container = dom.root
      /\ i > 1 => Last(mem.node[frames[i - 1].container].entries).value = frames[i].container
  BY <1>1 DEF OnSpine, LastIs, frames, mem
<1>4. i = 1 \/ i > 1
  BY <1>2
<1> QED BY ONLY <1>3, <1>4, Zenon

LEMMA OwnedHolds ==
  ASSUME DomInv
  PROVE  Owned
<1> DEFINE tree == IF dom_pc = "returned" THEN returned[2] ELSE dom.root
<1>1. HeapType(mem) /\ HeldOnce(mem, {}) /\ DOMAIN mem.node = Tree(mem, tree)
  BY DEF DomInv, OneTree, HeapInv
<1>2. mem.live = Blocks(mem, tree)
  BY <1>1 DEF HeldOnce, Blocks
<1>3. ~mem.fault
  BY <1>1 DEF HeapType
<1> QED BY <1>1, <1>2, <1>3 DEF Owned

\* A heap in order serves the accessors.
LEMMA OrderedIsSearchable ==
  ASSUME NEW m, HeapType(m), Ordered(m), NEW n \in DOMAIN m.node
  PROVE  LET nd == m.node[n]
         IN  /\ Len(nd.entries) <= nd.capacity
             /\ nd.type = "DICT" =>
                  \A k \in DOMAIN nd.entries :
                    /\ k > 1 => KeyBefore(nd.entries[k - 1].key, nd.entries[k].key)
                    /\ dict_search(nd.entries, nd.entries[k].key) = [index |-> k, match |-> TRUE]
<1> DEFINE es == m.node[n].entries
<1>1. es \in Seq(EntryType) /\ DOMAIN es = 1..Len(es) /\ Len(es) \in Nat
  BY NodeFacts
<1>2. Len(es) <= m.node[n].capacity /\ (m.node[n].type = "DICT" => Sorted(es))
  BY DEF Ordered
<1> HIDE DEF es
<1>3. ASSUME Sorted(es), NEW k \in DOMAIN es
      PROVE  /\ k > 1 => KeyBefore(es[k - 1].key, es[k].key)
             /\ dict_search(es, es[k].key) = [index |-> k, match |-> TRUE]
  <2>1. k > 1 => k - 1 \in DOMAIN es /\ k - 1 < k
    BY <1>1, <1>3
  <2>2. k > 1 => KeyBefore(es[k - 1].key, es[k].key)
    BY <1>3, <2>1 DEF Sorted
  <2>3. dict_search(es, es[k].key) = [index |-> k, match |-> TRUE]
    BY <1>1, <1>3, DictSearchFinds
  <2> QED BY <2>2, <2>3
<1> QED BY <1>2, <1>3 DEF es

LEMMA SearchableHolds ==
  ASSUME DomInv
  PROVE  Searchable
<1>1. HeapType(mem) /\ Ordered(mem)
  BY DEF DomInv, OneTree, HeapInv
<1> QED BY <1>1, OrderedIsSearchable DEF Searchable

\* Whenever no callback is in flight, the stack the builder keeps in its
\* dom_frames and the one the parser keeps in its sax_scopes tell the same of
\* every open container, though neither is ever held against the other.
THEOREM StacksMirror == DomSpec => []Mirror
<1>1. IInv /\ DomInv => Mirror
  BY MirrorHolds
<1> QED BY <1>1, TreeInvariance, PTL

\* The container pointer in a dom_frame is at every moment that of a live
\* node: the last entry of the one below, although nodes that cannot be
\* attached are freed in between.
THEOREM FramesAreTheSpine == DomSpec => []Spine
<1>1. IInv /\ DomInv => Spine
  BY SpineHolds
<1> QED BY <1>1, TreeInvariance, PTL

\* No answer of the allocator makes bencode_parse leak a block, free one
\* twice or hand out a tree of which something was freed.
THEOREM TreeOwnsHeap == DomSpec => []Owned
<1>1. IInv /\ DomInv => Owned
  BY OwnedHolds
<1> QED BY <1>1, TreeInvariance, PTL

\* Every dict that bencode_parse builds is sorted, and the binary search of
\* bencode_dict_get finds each of its keys where it is.
THEOREM EveryKeyIsFound == DomSpec => []Searchable
<1>1. IInv /\ DomInv => Searchable
  BY SearchableHolds
<1> QED BY <1>1, TreeInvariance, PTL

---------------------------------------------------------------------------
(* What the tree that is handed out spells.                                *)

\* A sequence and its last element.
LEMMA FrontAndLast ==
  ASSUME NEW S, NEW s \in Seq(S), s # <<>>
  PROVE  Front(s) \in Seq(S) /\ Last(s) \in S /\ s = Append(Front(s), Last(s))
<1> DEFINE f == Front(s)
           t == Append(f, Last(s))
<1>1. PICK n \in Nat : Len(s) = n + 1
  <2>1. Len(s) \in Nat /\ Len(s) # 0
    BY LenProperties, EmptySeq
  <2>2. Len(s) - 1 \in Nat /\ Len(s) = (Len(s) - 1) + 1
    BY <2>1
  <2> QED BY <2>2
<1>2. Last(s) = s[n + 1] /\ Last(s) \in S
  BY <1>1, ElementOfSeq DEF Last
<1>3. f \in Seq(S) /\ Len(f) = n /\ \A k \in 1..n : f[k] = s[k]
  BY <1>1 DEF Front
<1> HIDE DEF f
<1>4. t \in Seq(S) /\ Len(t) = n + 1 /\ t[n + 1] = Last(s) /\ \A k \in 1..n : t[k] = s[k]
  BY <1>2, <1>3, AppendFacts
<1>5. \A k \in 1..(n + 1) : t[k] = s[k]
  <2>1. \A k \in 1..(n + 1) : k \in 1..n \/ k = n + 1
    OBVIOUS
  <2> QED BY <1>2, <1>4, <2>1
<1> HIDE DEF t
<1>6. t = s
  BY <1>1, <1>4, <1>5, SeqEqual
<1> QED BY <1>2, <1>3, <1>6 DEF f, t

\* A step of the parser between two callbacks: at most, one more event is
\* there for the builder to be told of, and the call does not succeed.
Untold == Answered' = events /\ (pc' = "done" => status' # "OK")

LEMMA RejectIsUntold ==
  ASSUME NEW st, st # "OK", NEW q, Reject(st, q)
  PROVE  Untold
BY DEF Reject, Fail, Untold, Answered, InCallback

LEMMA RecogniseIsUntold ==
  ASSUME events \in Seq(EventType), NEW e, NEW completes, NEW sc, NEW q, Recognise(e, completes, sc, q)
  PROVE  Untold
<1>1. InCallback' /\ pc' # "done" /\ events' = Append(events, e)
  BY DEF Recognise, InCallback
<1>2. Front(Append(events, e)) = events
  BY LenProperties DEF Front
<1> QED BY <1>1, <1>2 DEF Untold, Answered

LEMMA ParseIsUntold ==
  ASSUME IInv, Parse, ~SkipCallback
  PROVE  Untold
<1>0. events \in Seq(EventType)
  BY DEF IInv, TypeOK
<1>1. ASSUME NEW use, NEW negative, NEW q, parse_unsigned(use, negative, q)
      PROVE  Untold
  BY <1>1, RejectIsUntold DEF parse_unsigned, Untold, Answered, InCallback
<1>2. CASE UnexpectedByte \/ BodyTruncated
  BY <1>2, RejectIsUntold DEF UnexpectedByte, BodyTruncated
<1>3. CASE Start
  BY <1>3 DEF Start, Untold, Answered, InCallback
<1>4. CASE Accumulate
  BY <1>4, RejectIsUntold DEF Accumulate, Untold, Answered, InCallback
<1>5. CASE FinishInt
  BY <1>0, <1>5, RejectIsUntold, RecogniseIsUntold DEF FinishInt
<1>6. CASE FinishString
  BY <1>0, <1>6, RejectIsUntold, RecogniseIsUntold DEF FinishString
<1>7. CASE FinishKey
  BY <1>0, <1>7, RejectIsUntold, RecogniseIsUntold DEF FinishKey
<1>8. CASE parse_int
  BY <1>1, <1>8, RejectIsUntold DEF parse_int
<1>9. CASE parse_string
  BY <1>1, <1>9 DEF parse_string
<1>10. CASE parse_list \/ parse_dict
  <2>1. PICK is_dict \in BOOLEAN, hook \in {"on_list_begin", "on_dict_begin"} : Open(is_dict, hook)
    BY <1>10 DEF parse_list, parse_dict
  <2> QED BY <1>0, <2>1, RejectIsUntold, RecogniseIsUntold DEF Open
<1>11. CASE CloseList \/ CloseDict
  BY <1>0, <1>11, RejectIsUntold, RecogniseIsUntold DEF CloseList, CloseDict, Close
<1>12. CASE parse_dict_key
  BY <1>1, <1>12, RejectIsUntold DEF parse_dict_key
<1>13. CASE RejectArguments \/ HandUp \/ ReportError
  BY <1>13 DEF RejectArguments, HandUp, ReportError, IInv, ControlInv, Untold, Answered, InCallback
<1> QED BY <1>2, <1>3, <1>4, <1>5, <1>6, <1>7, <1>8, <1>9, <1>10, <1>11, <1>12, <1>13 DEF Parse

\* The parser goes on: nothing changes for the builder.
LEMMA SaxStepSpells ==
  ASSUME IInv, DomSpelledInv, call.hooks = Hooks, SaxStep
  PROVE  DomSpelledInv'
<1>1. /\ dom_pc = "sax" /\ Parse
      /\ dom' = dom /\ dom_pc' = dom_pc /\ returned' = returned
  BY DEF SaxStep, dom_vars
<1>2. Heard
  BY <1>1, ParseHears
<1>3. ~SkipCallback
  BY <1>2 DEF Heard, SkipCallback
<1>4. Answered' = Answered /\ (pc' = "done" => status' # "OK")
  BY <1>1, <1>2, <1>3, ParseIsUntold DEF Untold, Heard, Answered
<1>5. TreeSpells'
  BY <1>1 DEF TreeSpells
<1>6. CASE pc \in {"unwind", "done"}
  <2>1. pc' \in {"unwind", "done"}
    BY <1>1, <1>6, ErrorSteps DEF Next, HandUp, ReportError
  <2> QED BY <1>4, <1>5, <2>1 DEF DomSpelledInv
<1>7. CASE pc \notin {"unwind", "done"}
  <2>1. Spells(dom, EncodeEvents(Answered))
    BY <1>1, <1>7 DEF DomSpelledInv
  <2> QED BY <1>1, <1>4, <1>5, <2>1 DEF DomSpelledInv
<1> QED BY <1>6, <1>7

\* The builder has been told of one event more, and it shows.
LEMMA CallbackSpells ==
  ASSUME IInv, DomInv, DomSpelledInv, DomCallback
  PROVE  DomSpelledInv'
<1>1. PICK r \in Handler(dom, Last(events)) : Resume(r.status) /\ dom' = r.dom
  BY DEF DomCallback
<1>2. dom_pc = "sax" /\ InCallback /\ dom_pc' = "sax"
  BY DEF DomCallback
<1>3. TreeSpells'
  BY <1>2 DEF TreeSpells
<1>4. CASE r.status # "OK"
  <2>1. pc' = "unwind"
    BY <1>1, <1>4 DEF Resume, Fail
  <2> QED BY <1>3, <2>1 DEF DomSpelledInv
<1>5. CASE r.status = "OK"
  <2>1. Handled(r)
    BY <1>1, <1>2, HandlerHandled
  <2>2. Len(dom'.frames) = Len(scopes) /\ Adds(dom, dom', Encode(Last(events)))
    BY <1>1, <1>5, <2>1 DEF Handled, Respelt
  <2>3. /\ events' = events /\ p' = p /\ pc' \in {"body", "done"}
        /\ pc' = "done" => scopes = <<>> /\ consumed' = p
    BY <1>1, <1>5 DEF Resume, Proceed
  <2>4. Answered' = events /\ Answered = Front(events)
    BY <1>2, <2>3 DEF Answered, InCallback
  <2>5. /\ Front(events) \in Seq(EventType) /\ Last(events) \in EventType
        /\ events = Append(Front(events), Last(events))
    <3>1. events \in Seq(EventType) /\ events # <<>>
      BY <1>2 DEF IInv, TypeOK, ControlInv
    <3> QED BY <3>1, FrontAndLast
  <2>6. /\ EncodeEvents(Front(events)) \in Bytes
        /\ EncodeEvents(events) = EncodeEvents(Front(events)) \o Encode(Last(events))
    <3> DEFINE es == Front(events)
               e  == Last(events)
    <3> HIDE DEF es, e
    <3>1. EncodeEvents(es) \in Bytes /\ EncodeEvents(Append(es, e)) = EncodeEvents(es) \o Encode(e)
      BY <2>5, SpellingGrows DEF es, e
    <3> QED BY <2>5, <3>1 DEF es, e
  <2>7. Spells(dom, EncodeEvents(Front(events)))
    BY <1>2, <2>4 DEF DomSpelledInv, InCallback
  <2>8. Spells(dom', EncodeEvents(events)) /\ dom'.root # NULL
    BY <2>2, <2>6, <2>7 DEF Adds
  <2>9. pc' = "done" => dom'.frames = <<>> /\ consumed' = p'
    <3>1. Sound(dom')
      BY <1>1, <2>1 DEF Handled
    <3>2. dom'.frames \in Seq(FrameType)
      BY <3>1 DEF Sound, DomType
    <3>3. scopes = <<>> => Len(scopes) = 0
      OBVIOUS
    <3> QED BY <2>2, <2>3, <3>2, <3>3, EmptySeq
  <2> QED BY <1>3, <2>4, <2>8, <2>9 DEF DomSpelledInv
<1> QED BY <1>4, <1>5

\* The tree is complete: it spells all of the events, which spell the input.
LEMMA DeliverSpells ==
  ASSUME IInv, DomInv, DomSpelledInv, RoundTrip, Deliver
  PROVE  DomSpelledInv'
<1>1. /\ dom_pc = "sax" /\ pc = "done" /\ dom_pc' = "returned" /\ call' = call
  BY DEF Deliver, vars
<1>2. CASE FinalStatus # "OK"
  <2>1. returned' = <<FinalStatus, NULL, consumed>>
    BY <1>2 DEF Deliver
  <2>2. returned'[1] # "OK"
    BY <1>2, <2>1
  <2> QED BY <1>1, <2>2 DEF DomSpelledInv, TreeSpells
<1>3. CASE FinalStatus = "OK"
  <2>1. status = "OK" /\ returned' = <<"OK", dom.root, consumed>> /\ dom' = dom
    BY <1>3 DEF FinalStatus, Deliver
  <2>2. returned'[2] = dom.root /\ returned'[3] = consumed
    BY <2>1
  <2>3. Spells(dom, Spelt) /\ dom.root # NULL /\ dom.frames = <<>> /\ consumed = p
    BY <1>1, <2>1 DEF DomSpelledInv, Answered, InCallback, Spelt
  <2>4. Spelt = SubSeq(call.input, 1, p)
    BY <1>1, <2>1 DEF RoundTrip, BytesRead
  <2>5. Sound(dom)
    BY <1>1 DEF DomInv, Sound, mem
  <2>6. Spelling(dom.mem, dom.root) = Spelt
    <3> DEFINE told == Spelt
    <3> HIDE DEF told
    <3>1. Spelling(dom.mem, dom.root) \in Bytes /\ Len(dom.frames) \in Nat
      BY <2>3, <2>5, SoundSpells
    <3>2. PICK doc \in Bytes : /\ Spelling(dom.mem, dom.root) = doc \o Ends(Len(dom.frames))
                              /\ told = doc \o Waiting(dom)
      BY <2>3, <3>1, SpellsAs DEF told
    <3>3. Ends(Len(dom.frames)) = <<>> /\ Waiting(dom) = <<>>
      <4>1. Len(dom.frames) = 0
        BY <2>3
      <4> QED BY <2>3, <4>1, EndsFacts DEF Waiting
    <3>4. doc \o <<>> = doc
      BY BytesEmpty
    <3> QED BY <3>2, <3>3, <3>4, Zenon DEF told
  <2>7. Spelling(mem', returned'[2]) = SubSeq(call'.input, 1, returned'[3])
    BY <1>1, <2>1, <2>2, <2>3, <2>4, <2>6 DEF mem
  <2> QED BY <1>1, <2>7 DEF DomSpelledInv, TreeSpells
<1> QED BY <1>2, <1>3

\* Every step of bencode_parse preserves what the tree spells.
LEMMA NextDomSpells ==
  ASSUME IInv, DomInv, DomSpelledInv, RoundTrip, call.hooks = Hooks, [DomNext]_<<vars, dom_vars>>
  PROVE  DomSpelledInv'
<1>1. CASE RefuseArguments
  <2>1. dom_pc' = "returned" /\ returned' = <<"INVALID_ARG", NULL, 0>>
    BY <1>1 DEF RefuseArguments
  <2>2. returned'[1] # "OK"
    BY <2>1
  <2> QED BY <2>1, <2>2 DEF DomSpelledInv, TreeSpells
<1>2. CASE CallSax \/ UNCHANGED <<vars, dom_vars>>
  <2>1. /\ UNCHANGED vars /\ dom' = dom /\ returned' = returned
        /\ dom_pc' = dom_pc \/ (dom_pc = "entry" /\ dom_pc' = "sax")
    BY <1>2 DEF CallSax, dom_vars
  <2>2. Answered' = Answered /\ pc' = pc /\ status' = status /\ consumed' = consumed /\ p' = p
        /\ call' = call
    BY <2>1 DEF vars, Answered, InCallback
  <2> QED BY <2>1, <2>2 DEF DomSpelledInv, TreeSpells, mem
<1>3. CASE SaxStep
  BY <1>3, SaxStepSpells
<1>4. CASE DomCallback
  BY <1>4, CallbackSpells
<1>5. CASE Deliver
  BY <1>5, DeliverSpells
<1> QED BY <1>1, <1>2, <1>3, <1>4, <1>5 DEF DomNext

\* Whatever the input and whatever the allocator answers, the tree that
\* bencode_parse hands out spells, byte for byte, the part of the input it
\* says it consumed: no entry is lost, added, moved or put under another key,
\* and no number or string is altered on its way into the tree.
THEOREM TreeSpellsInput == DomSpec => []TreeSpells
<1> DEFINE Inv == IInv /\ DomInv /\ DomSpelledInv /\ call.hooks = Hooks
<1>1. DomInit => Inv
  <2>1. ASSUME DomInit PROVE DomSpelledInv
    <3>1. dom_pc = "entry" /\ pc = "entry" /\ events = <<>> /\ dom.root = NULL
      BY <2>1 DEF DomInit, Init, AtEntry, dom_state
    <3>2. Answered = <<>>
      BY <3>1 DEF Answered, InCallback
    <3> QED BY <3>1, <3>2, NothingSpelt DEF DomSpelledInv, TreeSpells, Spells
  <2> QED BY <2>1, InitDomInv DEF DomInit
<1>2. Inv /\ RoundTrip /\ [DomNext]_<<vars, dom_vars>> => Inv'
  BY DomStepIsSaxStep, NextInv, NextDomInv, NextDomSpells
<1>3. Inv => TreeSpells
  BY DEF DomSpelledInv
<1>4. DomSpec => []RoundTrip
  BY DrivesParser, EventsSpellInput, PTL
<1> HIDE DEF Inv
<1> QED BY <1>1, <1>2, <1>3, <1>4, PTL DEF DomSpec

===========================================================================
