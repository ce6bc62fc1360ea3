--------------------------- MODULE ResponseReuseMC ---------------------------
EXTENDS ResponseReuse
Mixed == [key : IdemKeys, caching : BOOLEAN]
Sym == Permutations(Contents) \cup Permutations(Slots)
=============================================================================
