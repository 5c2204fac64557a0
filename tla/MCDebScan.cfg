CONSTANT MaxMembers = 4
SPECIFICATION Spec
INVARIANTS TypeOK FindsTheMember
