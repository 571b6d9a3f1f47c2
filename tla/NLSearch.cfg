SPECIFICATION Spec
CONSTANTS
    Texts <- MCTexts
    AgeGroupOf <- MCAgeGroupOf
    CountryOf <- MCCountryOf
    CodeOf <- MCCodeOf
    Length <- MCLength
    Ages = {0, 15, 16, 18, 20, 22, 24, 25, 30, 60, 70, 100}
    MaxInt = 100
INVARIANTS
    TypeOK
    LinksLeadOn
    NoAgeLeftOut
    NoAgeLetIn
    CountryIsNamed
