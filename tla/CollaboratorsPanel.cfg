SPECIFICATION Spec

CONSTANTS
 i = i
 p = p
 s1 = s1
 s2 = s2
 s3 = s3
 Invites = {i}
 People = {p}
 OldInvites = {}
 OldMembers = {p}
 Slots = {s1, s2, s3}
 None = None
 Failed = Failed

SYMMETRY SlotSymmetry

INVARIANTS
    TypeOK
    ListsAgree
