SPECIFICATION Spec
CONSTANTS
  Category = {"MODEL", "GRAPH"}
  Profiles <- MCProfiles
  Definitions <- MCDefinitions
  Publications <- MCPublications
  AnySubject = "any"
  NoKey = "none"
  MaxEvidence = 3
  MaxTime = 3
INVARIANTS TypeOK InvalidationHolds StaleIsRenewable
PROPERTIES TimeOnlyDecays RenewalDecides ImplementsEvidenceView
