------------------------------- MODULE MCPaging -------------------------------
(* Memory maps with a hole, an overlap, low memory that is not usable, regions that
   start or end inside a page, RAM that does not fill the last word of the bitmap, and
   more RAM than the bitmap holds; maps that leave one page, or none, for the tables,
   or only pages beyond the identity map. *)
EXTENDS Paging

Region(a, e, t) == [addr |-> a, end |-> e, type |-> t]
Hole == {Region(0, 5, 1), Region(5, 8, 2), Region(8, 17, 1)}
Overlap == {Region(0, 10, 1), Region(6, 14, 1)}
Ragged == {Region(0, 5, 1), Region(7, 13, 1)}
High == {Region(2, 12, 1)}
Beyond == {Region(0, 40, 1)}
Small == {Region(0, 6, 1)}
Far == {Region(0, 4, 1), Region(12, 16, 1)}
Tiny == {Region(0, 5, 1)}

MCBoots ==
    {[how |-> "map", bytes |-> 17, regions |-> Hole],
     [how |-> "map", bytes |-> 14, regions |-> Overlap],
     [how |-> "map", bytes |-> 13, regions |-> Ragged],
     [how |-> "map", bytes |-> 12, regions |-> High],
     [how |-> "map", bytes |-> 36, regions |-> Beyond],
     [how |-> "map", bytes |-> 16, regions |-> Far],
     [how |-> "map", bytes |-> 6, regions |-> Small],
     [how |-> "map", bytes |-> 5, regions |-> Tiny]}
    \cup [how : {"size", "none"}, bytes : {13, 16, 40}, regions : {{}}]

MCFlags == {{}, {"present", "user"}}
=============================================================================
