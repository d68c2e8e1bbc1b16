SPECIFICATION Spec
CONSTANTS
    Words <- ShortWords
    MaxColumns = 2
INVARIANT DeclarationRead
PROPERTY ScanEnds
