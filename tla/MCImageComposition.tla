------------------------ MODULE MCImageComposition ------------------------
EXTENDS ImageComposition, TLC

CONSTANTS e, f

Ask(target, key, edit, folder) ==
    [target |-> target, key |-> key, edit |-> edit, folder |-> folder,
     expected |-> Len(target)]

\* Two creations in the same words, one with a folder, and one in others under the
\* second key; two revisions of the root by the same edit, one by another under the
\* second key, one that names a wrong revision; a revision of a revision.
MCAsks == {Ask(<<>>, 1, e, TRUE), Ask(<<>>, 2, e, FALSE), Ask(<<>>, 2, f, FALSE),
           Ask(<<e>>, 1, e, FALSE), Ask(<<e>>, 2, e, FALSE), Ask(<<e>>, 2, f, FALSE),
           [Ask(<<e>>, 2, f, FALSE) EXCEPT !.expected = 2],
           Ask(<<e, e>>, 1, f, FALSE)}

Symmetry == Permutations(Calls)
=============================================================================
