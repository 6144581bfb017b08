SPECIFICATION MCSpec
CONSTANTS
    Addresses = {"a", "b"}
    Keys = {1}
    Slots = {1, 2}
    Values = {0, 1}
    Amounts = {1}
    Nonces = {2}
    Codes = {"c"}
    Payloads = {1}
    NoAccount = NoAccount
    NoCode = ""
    Genesis <- ThreeStarts
    MaxJournal = 4
    MaxRevisions = 2
    MaxCommits = 1
INVARIANTS
    TypeOK
    JournalExact
    RevisionsOrdered
PROPERTY
    ImplementsWorld
