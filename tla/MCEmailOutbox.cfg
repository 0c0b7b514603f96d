\* Two rows, two workers, three attempts: the code has 10, but three let a row
\* be sent, taken back and finished late in every order.
SPECIFICATION Spec
CONSTANTS
    Rows = {1, 2}
    Workers = {w1, w2}
    MaxAttempts = 3
    NoRow = NoRow
SYMMETRY Symmetry
INVARIANTS MailsWithinAttempts OneMailUnlessDoubtful
PROPERTIES SettledStaysSettled
