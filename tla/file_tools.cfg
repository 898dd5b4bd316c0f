\* Fourteen texts for the file a run starts with, and a link that leads to each
\* kind of place.
SPECIFICATION Spec
CONSTANTS
    Root <- MCRoot
    DeniedNames = {"secrets"}
    Requests <- MCRequests
    Trees <- MCTrees
    Letters = {"x"}
    Texts <- MCTexts
    OldTexts <- MCOldTexts
    MaxLength = 3
INVARIANTS
    TypeOK
    ReadCanBeEdited
    SearchAgreesWithRead
PROPERTIES
    OutsideKept
    DeniedKept
    EditIsOnePlace
