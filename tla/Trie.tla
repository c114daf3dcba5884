-------------------------------- MODULE Trie --------------------------------
(***************************************************************************)
(* The radix trie of internal/trie/trie.go.  A string is a sequence of     *)
(* characters.  A node is named by the string that leads to it, so that    *)
(* the prefix on its edge is what its name adds to its parent's name; a    *)
(* trie is the function from its nodes to their children and value, and    *)
(* hasValue is a value other than NoValue.  The children are a set: of two *)
(* of them no more than one shares a character with the rest of a key, so  *)
(* that it does not matter in which order the loops look at them (theorem  *)
(* TriesWellFormed of Streams_proofs).  The mutex of the trie makes every  *)
(* operation atomic.                                                       *)
(***************************************************************************)
EXTENDS Integers, Sequences, FiniteSetsExt

CONSTANTS
    Char,       \* characters of a string
    NoValue

NewTrie == [n \in {<<>>} |-> [children |-> {}, value |-> NoValue]]

hasPrefix(s, p) == Len(p) <= Len(s) /\ SubSeq(s, 1, Len(p)) = p

longestCommonPrefix(a, b) ==
    Max({i \in 0 .. Min({Len(a), Len(b)}) : SubSeq(a, 1, i) = SubSeq(b, 1, i)})

(***************************************************************************)
(* The loops that go down from the root                                    *)
(***************************************************************************)
\* The nodes visited: from a node that is not in stop to its child that s goes on with, and
\* no others (the least set that is closed under this step).
Walk(t, s, stop) ==
    LET Closed(V) ==
            /\ <<>> \in V
            /\ \A n \in V \ stop : \A c \in t[n].children : hasPrefix(s, c) => c \in V
    IN {n \in DOMAIN t : \A V \in SUBSET DOMAIN t : Closed(V) => n \in V}

Valued(t) == {n \in DOMAIN t : t[n].value # NoValue}

\* MatchAll: the prefixes its callback is given, with their values, if it never ends the
\* walk; the walk meets them from the shortest to the longest.
MatchAll(t, s) == Walk(t, s, {}) \cap Valued(t)

\* ShortestMatch stops at the first value; NoValue is its "not found".
ShortestMatch(t, s) ==
    LET found == Walk(t, s, Valued(t)) \cap Valued(t)
    IN IF found = {} THEN NoValue ELSE t[CHOOSE n \in found : TRUE].value

(***************************************************************************)
(* Insertion                                                               *)
(***************************************************************************)
NewLeaf(t, n, key, value) ==
    [m \in DOMAIN t \cup {key} |->
        IF m = key THEN [children |-> {}, value |-> value]
        ELSE IF m = n THEN [t[n] EXCEPT !.children = @ \cup {key}]
        ELSE t[m]]

\* Mutant: the value of the node that is split is not carried over.
SplitForgets(t, n, c, key, value) ==
    LET common == SubSeq(key, 1, longestCommonPrefix(key, c))
    IN [m \in DOMAIN t \cup {common, key} |->
           IF m = common THEN [children |-> {c} \cup ({key} \ {common}),
                               value    |-> IF common = key THEN value ELSE NoValue]
           ELSE IF m = key THEN [children |-> {}, value |-> value]
           ELSE IF m = n THEN [t[n] EXCEPT !.children = (@ \ {c}) \cup {common}]
           ELSE IF m = c THEN [t[c] EXCEPT !.value = NoValue]
           ELSE t[m]]

\* Mutant: the node made for the common part takes the value, whatever is left of the key.
SplitSetsParent(t, n, c, key, value) ==
    LET common == SubSeq(key, 1, longestCommonPrefix(key, c))
    IN [m \in DOMAIN t \cup {common, key} |->
           IF m = common THEN [children |-> {c} \cup ({key} \ {common}), value |-> value]
           ELSE IF m = key THEN [children |-> {}, value |-> value]
           ELSE IF m = n THEN [t[n] EXCEPT !.children = (@ \ {c}) \cup {common}]
           ELSE t[m]]

\* The edge from n to c is cut where key leaves it: a node for the common part takes the place
\* of c, which keeps its children and its value, and what is left of key is a leaf beside c.
Split(t, n, c, key, value) ==
    LET common == SubSeq(key, 1, longestCommonPrefix(key, c))
    IN [m \in DOMAIN t \cup {common, key} |->
           IF m = common THEN [children |-> {c} \cup ({key} \ {common}),
                               value    |-> IF common = key THEN value ELSE NoValue]
           ELSE IF m = key THEN [children |-> {}, value |-> value]
           ELSE IF m = n THEN [t[n] EXCEPT !.children = (@ \ {c}) \cup {common}]
           ELSE t[m]]

\* node.insert: down to the last node that key goes through; a value that is there stays.
insert(t, key, value) ==
    LET path     == Walk(t, key, {})
        n        == CHOOSE m \in path : \A k \in path : Len(k) <= Len(m)
        touching == {c \in t[n].children : longestCommonPrefix(key, c) > Len(n)}
    IN IF n = key THEN [t EXCEPT ![n].value = IF @ = NoValue THEN value ELSE @]
       ELSE IF touching = {} THEN NewLeaf(t, n, key, value)
       ELSE Split(t, n, CHOOSE c \in touching : TRUE, key, value)

\* Trie.Insert refuses the empty key (ErrEmptyKey).
Insert(t, key, value) == IF key = <<>> THEN t ELSE insert(t, key, value)

\* ErrEmptyKey, or ErrDuplicate of node.insert: the key is there and has a value.
Refused(t, key) == key = <<>> \/ key \in Walk(t, key, {}) \cap Valued(t)
=============================================================================
