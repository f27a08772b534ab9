\* Blocks of one byte and of three: every place of a text is the end of a block in
\* some of them. Texts of up to 7 bytes, longer ones around an inline image.
SPECIFICATION Spec
CONSTANTS
    Texts <- MCTexts
    BufSizes = {1, 3}
INVARIANTS
    ReadsWhatIsWritten
    StallsAtMostTwice
    NothingIsLost
