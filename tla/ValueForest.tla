---------------------------- MODULE ValueForest ----------------------------
(***************************************************************************)
(* What the builders of a value tree promise their caller, without blocks, *)
(* arrays, copies of keys or searches: a forest of values, of which the    *)
(* caller owns the roots.  A list maps positions to children and a dict    *)
(* maps keys to children; both are functions.                              *)
(***************************************************************************)
EXTENDS Bencode

VARIABLES
  nodes,   (* the values that exist, by identity: type, data and children   *)
  roots,   (* the values the caller owns, and must free or give away        *)
  ask,     (* the call in progress                                          *)
  answer   (* <<status, value>> of the last call, or <<>> during one        *)

forest == <<nodes, roots, ask, answer>>

Request(op) ==
  [op |-> op, alloc |-> "libc", node |-> 0, key |-> <<>>, child |-> 0, i |-> 0, data |-> <<>>]

Idle == Request("none")

Value(type, i, data) == [type |-> type, i |-> i, data |-> data, kids |-> <<>>]

\* f with v for x, whether or not it had a value there.
Assign(f, x, v) == [y \in DOMAIN f \cup {x} |-> IF y = x THEN v ELSE f[y]]

Kids(n) == { nodes[n].kids[k] : k \in DOMAIN nodes[n].kids }

\* The values of the tree rooted at n; none for 0.
Below(n) ==
  LET level[d \in Nat] ==
        IF d = 0 THEN {n} \cap DOMAIN nodes ELSE UNION { Kids(p) : p \in level[d - 1] }
  IN  UNION { level[d] : d \in 0..Cardinality(DOMAIN nodes) }

ForestInit == nodes = <<>> /\ roots = {} /\ ask = Idle /\ answer = <<>>

---------------------------------------------------------------------------
(* What the caller may ask: it gives away only what it owns, never to a    *)
(* value inside the gift, and frees only what it owns.                     *)

Rightful ==
  /\ ask.op \in {"append", "set"} =>
       /\ ask.child \in roots \cup {0}
       /\ ask.node \in (DOMAIN nodes \ Below(ask.child)) \cup {0}
  /\ ask.op = "free"  => ask.node \in roots \cup {0}
  /\ ask.op = "clone" => ask.node \in DOMAIN nodes \cup {0}

Ask ==
  /\ ask = Idle /\ ask' # Idle /\ Rightful'
  /\ answer' = <<>>
  /\ UNCHANGED <<nodes, roots>>

---------------------------------------------------------------------------
(* What the call may do.                                                   *)

Answer(st, n) == answer' = <<st, n>> /\ ask' = Idle

Makes == {"int_new", "string_new", "list_new", "dict_new", "parse"}

Refused ==
  CASE ask.op \in Makes \cup {"clone"} -> ask.alloc = "partial"
    [] ask.op \in {"append", "set"} ->
         \/ ask.node = 0 \/ ask.child = 0
         \/ nodes[ask.node].type # (IF ask.op = "append" THEN "LIST" ELSE "DICT")
    [] OTHER -> ask.op = "with_null"

Replaces == ask.op = "set" /\ ask.key \in DOMAIN nodes[ask.node].kids

\* What is asked of the allocator can be refused; nothing has changed then.
\* To replace the value of a key, to free and to clone nothing cannot fail.
Fail ==
  /\ \/ Refused /\ Answer("INVALID_ARG", 0)
     \/ /\ ~Refused /\ ask.op \notin {"none", "free"} /\ ~Replaces
        /\ ~(ask.op = "clone" /\ ask.node = 0)
        /\ Answer("NOMEM", 0)
  /\ UNCHANGED <<nodes, roots>>

Make ==
  /\ ask.op \in Makes /\ ~Refused
  /\ \E n \in DOMAIN nodes' \ DOMAIN nodes :
       /\ nodes' = Assign(nodes, n,
            CASE ask.op = "int_new"               -> Value("INT", ask.i, <<>>)
              [] ask.op \in {"string_new", "parse"} -> Value("STRING", 0, ask.data)
              [] ask.op = "list_new"              -> Value("LIST", 0, <<>>)
              [] ask.op = "dict_new"              -> Value("DICT", 0, <<>>))
       /\ roots' = roots \cup {n}
       /\ Answer("OK", n)

Add ==
  /\ ask.op = "append" /\ ~Refused
  /\ nodes' = [nodes EXCEPT ![ask.node].kids = Append(@, ask.child)]
  /\ roots' = roots \ {ask.child}
  /\ Answer("OK", 0)

\* The value a key had goes, with everything below it.
Put ==
  /\ ask.op = "set" /\ ~Refused
  /\ LET kids == nodes[ask.node].kids
         old  == IF Replaces THEN Below(kids[ask.key]) ELSE {}
     IN  nodes' = [n \in DOMAIN nodes \ old |->
                     IF n = ask.node THEN [nodes[n] EXCEPT !.kids = Assign(kids, ask.key, ask.child)]
                     ELSE nodes[n]]
  /\ roots' = roots \ {ask.child}
  /\ Answer("OK", 0)

\* A clone is a tree of new values, image by image equal to the original.
Clone ==
  /\ ask.op = "clone" /\ ~Refused
  /\ IF ask.node = 0 THEN Answer("OK", 0) /\ UNCHANGED <<nodes, roots>>
     ELSE \E image \in Bijection(Below(ask.node), DOMAIN nodes' \ DOMAIN nodes) :
            /\ nodes' = [c \in DOMAIN nodes \cup Range(image) |->
                 IF c \in DOMAIN nodes THEN nodes[c]
                 ELSE LET v == nodes[CHOOSE n \in DOMAIN image : image[n] = c]
                      IN  [v EXCEPT !.kids = [k \in DOMAIN v.kids |-> image[v.kids[k]]]]]
            /\ roots' = roots \cup {image[ask.node]}
            /\ Answer("OK", image[ask.node])

Free ==
  /\ ask.op = "free"
  /\ nodes' = [n \in DOMAIN nodes \ Below(ask.node) |-> nodes[n]]
  /\ roots' = roots \ {ask.node}
  /\ Answer("OK", 0)

ForestNext == Ask \/ Fail \/ Make \/ Add \/ Put \/ Clone \/ Free

ForestSpec == ForestInit /\ [][ForestNext]_forest

=============================================================================
