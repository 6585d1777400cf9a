------------------------ MODULE CommandStatesMC ------------------------
(* Instances of CommandStates: two pipelines that differ in everything the
   caches look at, two framebuffers, two binding vectors that share a set with
   a UAV (for rays, one of them has none), and the volatile buffer in one of
   the sets that differ. *)
EXTENDS CommandStates

MCSymmetry == Permutations(Framebuffers) \cup Permutations(Values)

MCReads  == [A1 |-> {"r"}, A2 |-> {}, U |-> {}]
MCWrites == [A1 |-> {}, A2 |-> {}, U |-> {"u"}]
MCVectors == [k \in Kinds |->
    {<<"A1", "U">>, IF k = "rays" THEN <<"A2">> ELSE <<"A2", "U">>}]
MCVolatile == {"A1", "A2"}
MCRootSignature == [p1 |-> 1, p2 |-> 2, m1 |-> 1, c1 |-> 1, c2 |-> 2, x1 |-> 3]
MCInputLayout == [p1 |-> 1, p2 |-> 2]
MCSlots == [A1 |-> {1, 2}, A2 |-> {1}, U |-> {3}]
MCVisibility == [A1 |-> {"VS", "GS", "CS"}, A2 |-> {"VS", "CS"}, U |-> {"VS", "CS"}]
MCShaderMask == [p1 |-> {"VS"}, p2 |-> {"VS", "GS"}]
=========================================================================
