\* The width of an integer and a GiB are scaled down: what matters is that
\* products wrap, to negative and to positive numbers.
CONSTANTS
    Home <- HomeLink
    Cwd <- CwdNamed
    Half = 128
    GiB = 8
    Words = {"limanix", "tool", "feedfeedfeed"}
    Numbers = {"26"}
    Dotted = {"1.24"}
    Hex = {"feedfeedfeed", "0a0a0a0a0a0a"}

SPECIFICATION Spec

INVARIANTS
    PathsCanonical
    DocumentsKept
    MountsVisible
    NamesUnambiguous
    ValuesSurvive
