---------------------------- MODULE MCFieldFile ----------------------------
(* Two processes, and four sets of factors: the default, a lens with an    *)
(* offset and an aspect of its own, the same lens finer than a file prints *)
(* it, and one that does not validate.                                     *)
EXTENDS FieldFile, TLC

Plain == [size |-> 100, offset |-> <<0, 0>>, aspect |-> <<100, 100>>,
          negate |-> <<FALSE, FALSE>>, swap |-> FALSE, fine |-> FALSE]
Lens  == [Plain EXCEPT !.size = 110, !.offset = <<5, -3>>, !.aspect = <<98, 101>>,
                       !.negate = <<TRUE, FALSE>>, !.swap = TRUE]
Fine  == [Lens EXCEPT !.fine = TRUE]
Flat  == [Plain EXCEPT !.size = 0]

AllFactors == {Plain, Lens, Fine, Flat}
Made == {Plain}
Twins == Permutations(Procs)
Grid == {<<-50, 50>>, <<-49, 7>>, <<0, 0>>, <<3, -20>>, <<55, 52>>, <<60, -58>>}
=============================================================================
