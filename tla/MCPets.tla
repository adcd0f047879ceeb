------------------------------- MODULE MCPets -------------------------------
EXTENDS PetBook, TLC
MCPets == 1..3
MCForeign == {7}
MCOffered == {7}
MCOfferedAll == {1, 7}
MCReports == 1..2
MCRefOf == <<1, 7>>
MCOneReport == {1}
MCCloudRef == <<7>>
MCFaceIds == 1..2
RequestsAlike == Permutations(Requests)
=============================================================================
