CONSTANTS
    TextEnd = 4
    Types = {"NAME", "MAIL", "SECRET", "CARD"}
    Blocked = {"CARD"}
    Irreversible = {"SECRET", "CARD"}
    SecretType = "SECRET"
    Sources = {"presidio", "onnx"}
    Presidio = "presidio"
    Scores = {1, 2}
    Rules <- MCRules
    Texts <- MCTexts
    MaxTokens = 4
    MaxLength = 2
    Geometries <- MCGeometries
    Labels <- MCLabels
    SeparatorBearing = {"url"}
    NoRun = NoRun
    Reports <- MCReports
    Windowed = "onnx"
    LabelMapping <- MCLabelMapping
SPECIFICATION Spec
CHECK_DEADLOCK FALSE
INVARIANTS StitchExact LabelledCovered MergeExact PolicyWins LetThroughExactly
