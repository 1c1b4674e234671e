------------------------------ MODULE ParamList ------------------------------
(***************************************************************************)
(* What URLSearchParams promises: an object is bound to a list of name-value *)
(* pairs for its whole life, several objects may be bound to the same list,  *)
(* and every operation is one change of that list.  The results are stated   *)
(* by what they must satisfy, not by how they are computed.                  *)
(***************************************************************************)
EXTENDS Naturals, Sequences

CONSTANTS
    Objs,         \* URLSearchParams objects
    Stores,       \* the lists: one per URL, one per constructed object
    Before(_, _)  \* the order of names

VARIABLES
    lists,  \* the pairs of every store
    bound,  \* the store of every object, "none" before it exists
    last    \* the last call of the script, with its arguments and its answer

Call(op, o, n, v, answer) ==
    [op |-> op, obj |-> o, name |-> n, value |-> v, answer |-> answer]

\* Where a list holds the name, and the first of some places.
Places(l, n) == {i \in DOMAIN l : l[i][1] = n}

IsFirst(k, places) == k \in places /\ \A i \in places : k <= i

\* new has the entries of l at these places, in the order they have in l.
Selected(l, places, new) ==
    \E from \in [DOMAIN new -> places] :
        /\ \A i, j \in DOMAIN new : i < j => from[i] < from[j]
        /\ \A k \in places : \E i \in DOMAIN new : from[i] = k
        /\ \A i \in DOMAIN new : new[i] = l[from[i]]

Appended(l, n, v, new) == new = Append(l, <<n, v>>)

Deleted(l, n, new) == Selected(l, DOMAIN l \ Places(l, n), new)

DeletedPair(l, n, v, new) ==
    Selected(l, {i \in DOMAIN l : l[i] # <<n, v>>}, new)

\* One pair of that name, where the first was or else last; the rest as before.
IsSet(l, n, v, new) ==
    \/ Places(l, n) = {} /\ Appended(l, n, v, new)
    \/ \E k \in DOMAIN l :
        /\ IsFirst(k, Places(l, n))
        /\ Selected([l EXCEPT ![k] = <<n, v>>],
                    (DOMAIN l \ Places(l, n)) \cup {k}, new)

\* The pairs of l in the order of their names, and those of one name in the
\* order they had.
SortedFrom(l, new) ==
    /\ DOMAIN new = DOMAIN l
    /\ \E from \in [DOMAIN l -> DOMAIN l] :
        /\ \A i \in DOMAIN l : new[i] = l[from[i]]
        /\ \A i, j \in DOMAIN l : i < j =>
            \/ Before(new[i][1], new[j][1])
            \/ new[i][1] = new[j][1] /\ from[i] < from[j]

Init ==
    /\ bound = [o \in Objs |-> "none"]
    /\ lists = [s \in Stores |-> <<>>]
    /\ last = Call("none", "none", <<>>, <<>>, <<>>)

\* An object comes into being: bound to the list of a URL, which stays as it
\* is, or to a list of its own.
Create ==
    /\ last'.op \in {"new", "searchParams"}
    /\ \E o \in Objs, s \in Stores :
        /\ last' = Call(last'.op, o, <<>>, <<>>, <<>>)
        /\ bound[o] = "none" /\ bound' = [bound EXCEPT ![o] = s]
        /\ IF last'.op = "searchParams" THEN lists' = lists
           ELSE /\ \A p \in Objs : bound[p] # s
                /\ \A t \in Stores \ {s} : lists'[t] = lists[t]

\* What a change makes of the list of its object.
Changed(c, l, new) ==
    \/ c.op = "sort" /\ SortedFrom(l, new)
    \/ c.op = "append" /\ Appended(l, c.name, c.value, new)
    \/ c.op = "delete" /\ Deleted(l, c.name, new)
    \/ c.op = "deletePair" /\ DeletedPair(l, c.name, c.value, new)
    \/ c.op = "set" /\ IsSet(l, c.name, c.value, new)

\* A change through one object: it is seen through every object of that list,
\* and through no other.
Change ==
    \E o \in Objs :
        /\ last'.obj = o /\ bound[o] # "none"
        /\ Changed(last', lists[bound[o]], lists'[bound[o]])
        /\ \A t \in Stores \ {bound[o]} : lists'[t] = lists[t]
        /\ bound' = bound

\* A question: its answer is about the list of the object at this moment.
Ask ==
    \E o \in Objs :
        /\ last'.obj = o /\ bound[o] # "none"
        /\ LET l == lists[bound[o]]
               places == Places(l, last'.name)
           IN  \/ /\ last'.op = "getAll"
                  /\ Selected([i \in DOMAIN l |-> l[i][2]], places, last'.answer)
               \/ /\ last'.op = "get"
                  /\ \/ places = {} /\ last'.answer = <<>>
                     \/ \E k \in places :
                          IsFirst(k, places) /\ last'.answer = <<l[k][2]>>
        /\ UNCHANGED <<lists, bound>>

\* The script assigns to a URL itself, which is no operation of an object.
Assign ==
    /\ last'.op = "assign"
    /\ \E s \in Stores : \A t \in Stores \ {s} : lists'[t] = lists[t]
    /\ bound' = bound

Next == Create \/ Change \/ Ask \/ Assign

Spec == Init /\ [][Next]_<<lists, bound, last>>
=============================================================================
