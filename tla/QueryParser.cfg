SPECIFICATION Spec
CONSTANTS
    Targets <- AllQueries
    Forms <- AllForms
    Path <- Root
INVARIANTS
    TypeOK
    ParsesEveryField
    FormsSurvive
