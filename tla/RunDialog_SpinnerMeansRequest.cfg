CONSTANTS
    Items <- MC_Items
    MaxRuns = 3
    Null = Null
    NoText = NoText
    Payloads = {"", "blank", "json", "bad"}
SPECIFICATION Spec
INVARIANT SpinnerMeansRequest
