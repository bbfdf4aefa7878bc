----------------------------- MODULE MCWindows -----------------------------
(* An instance of Windows.tla for TLC.                                     *)
EXTENDS Windows, TLC

MCPlaces == {<<0, 0>>, <<1, 0>>, <<0, 1>>}
MCExtents == {<<1, 1>>, <<2, 1>>, <<1, 2>>, <<2, 2>>}
MCTexts == {<<"a">>, <<"a", "a", "\n">>, <<"\t">>}
MCGarbage == {<<7, 7>>}
Interchangeable == Permutations(Others)
=============================================================================
