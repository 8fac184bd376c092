SPECIFICATION Spec
CONSTANTS
    Docs <- mcDocs
    MaxChunk = 12
    MaxPortion = 16
    MaxTotal = 17
    MaxPictures = 4
    MaxPicture = 3
    MaxSide = 2
    AnchorBytes = 1
    BlockLink = 2
    NoteLink <- mcNoteLink
    NoteBox <- mcNoteBox
    Synthetic <- mcSynthetic
    Children <- mcChildren
    HasText <- mcHasText
    MaxNodes = 7
    MaxSections = 2
    MaxInlines = 1
    MaxRuns = 3
    Documents <- mcBooks
    Names <- mcNames
    MaxPictureSide = 2
    Tocref <- mcTocref
    NoteAnchor <- mcNoteAnchor
    NoteNumber <- mcNoteNumber
    Vocabularies <- mcVocabularies
    Inside <- mcInside
    Writes <- mcWrites
    Once <- mcOnce
    Pictured <- mcPictured
    MaxMet <- mcMaxMet
    MaxWords <- mcMaxWords
    MaxRest <- mcMaxRest
    MaxSample = 2
    MaxLost <- mcMaxLost
INVARIANTS
    PreviewFaithful
    TextFaithful
    EpubFaithful
    MetadataFaithful
CHECK_DEADLOCK FALSE
