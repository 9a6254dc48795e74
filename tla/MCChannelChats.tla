--------------------------- MODULE MCChannelChats ---------------------------
\* Symmetry for checking ChannelChats: the slots for messages are interchangeable.
EXTENDS ChannelChats, TLC
Symmetry == Permutations(Messages) \cup Permutations(Admins)
=============================================================================
